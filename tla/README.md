# A verification project for vllmtop

vllmtop is a terminal monitor for vLLM servers. It scrapes `/metrics` of each
configured endpoint on a fixed cadence, derives rates from cumulative counters
and percentiles from histograms, tails request logs, records samples to SQLite
and draws it all. This directory models it in TLA+ from the configuration to the
frame on screen, checks small instances with TLC and proves what can be proved
with TLAPS. Line numbers are those of `src/src/`, listed per definition in
`PROJECT.json`.

## The system

| Component | State | Operations | Where |
| --- | --- | --- | --- |
| Main loop (`app.rs`, `main.rs`) | `App`: endpoints, view, sort, selection, scroll, paused, help, dirty, usage flags | `run` (select over channel, 500 ms tick, SIGTERM), `handle_event`, `handle_key`, mouse, draw at most every 90 ms, teardown | EventLoop, Screen |
| Collectors (`collector/mod.rs`) | per endpoint: next start, watch receivers | wait, announce, poll, report, re-anchor | Collector, EventLoop |
| Optional probes (`collector/mod.rs`) | per endpoint: cycle | `/health` each cycle, metadata every 30th | EventLoop, EndpointState, Screen |
| Endpoint reducer (`state/mod.rs`) | status, curated, derived, peaks, history | `mark_attempt_started`, `apply`, `apply_optional`, `ingest_metrics` | EndpointState, MetricsPipeline, Screen |
| Counter rates (`metrics/rates.rs`) | tracker per counter, generations | `update`, `begin_scrape`, `end_scrape` | EndpointState |
| Text parser (`metrics/parse.rs`) | none | lines to families and issues | Exposition |
| Normalisation (`metrics/normalize.rs`) | none | families to series and facts, join of capacities | Normalize |
| Histogram windows (`metrics/histogram.rs`) | ring of points | `push`, `evict`, `estimate` | Rings, MetricsPipeline |
| History rings (`state/history.rs`) | ring of points per chart line | `push`, eviction by age and number | Rings, EndpointState |
| Observation feed (`state/events.rs`) | 64 entries | `push` | EndpointState |
| Aggregates, staleness (`state/mod.rs`) | none | `freshness`, `aggregate`, `aggregate_kv`, `aggregate_fleet` | FleetView |
| Log tailer (`logtail/mod.rs`) | offset, carry, skipping, last status | `poll_step`, `consume_bytes`, lossy send | LogTail |
| Request ring (`state/requests.rs`) | 200 rows, tail status | `apply` | LogTail |
| Recorder (`storage/mod.rs`) | queue of 64, writer thread, counters | `record`, `shutdown`, `Drop`, `writer_loop`, `write_batch`, `cleanup` | Recorder, BestEffortLog |
| Daily usage (`app.rs`, `storage/`) | rows, last sample time | `record_samples`, retention, `query_on` | UsageAccounting; the query's lifecycle in EventLoop |
| Configuration (`config.rs`) | none | command line, file, environment to `Config`, or an error | Settings |
| Rendering (`ui/`) | none | sections, panes, charts, bars, headlines | Layout, FleetView, Screen |

The parts meet in one bounded channel of 256 `AppEvent`s into the main loop.
Collectors, probes and the usage query park on it when it is full; the log
tailers use `try_send` and lose their batch; the input thread blocks on it.
The main loop steers the collectors back through two `watch` values (interval,
forced refresh) and hands rows to the recorder through a second bounded queue,
which it never waits for, except at shutdown. The database is read back by the
usage query, on another thread.

What is hard here: many senders and one receiver that is also a sender of work
(the usage query); a shutdown that has to end while others are parked on the
channel; timers that are re-anchored by a value read at two different places;
data that arrives late, is missing, or belongs to a process that is gone; a
file that changes between three system calls; totals over days in which the
server, vllmtop and the database each lost something; and a frame that must be
of the present state, in a terminal of any size, although three conditions
decide apart whether it is drawn. `PROJECT.json` lists these hazards at the
lines where they bite, with the properties that cover them.

## The modules

### BestEffortLog, Recorder, RecorderProofs

`BestEffortLog` is the promise: each offered batch is refused (and counted) or
kept; kept batches are settled in order, each once, stored or failed; closing
waits until nothing is kept. `Recorder` is the code: the owner's `record`
(`try_send`), `shutdown` and the `Drop` that runs after it, the `sync_channel`,
and `writer_loop` as program-counter steps: receive, write (one transaction,
which may fail), count, clean, and the final drain. The commit and the
`fetch_add` are two steps because the UI reads the counter in between. A batch
is its offer number; rows and SQL are abstracted. `ImplementsLog` refines the
former by the latter with `kept <- Pending`: what is queued or in hand.

### EventLoop

The whole process: `app` says where `run` and `main` are; each collector,
probe, tailer, the input thread and the usage query have a program counter;
`channel` holds the events in flight. One loop iteration is one action: the
select arm, the handler, the quit test, the draw at the top of the next round.
`send().await` and `blocking_send` need room and fail once the receiver is
gone; `try_send` drops. Mouse and resize events are the key `"other"`: they set
`dirty` only. When a collector starts is left open. The usage timer and the
frame timer are two-valued ages. `Handle` consumes the oldest event and is a
disjunction with one operator per arm of `handle_event`.

### Collector

The clock of the collectors, in quarter seconds (`PHASE_STEP`) and relative to
now, so no bound on the run is needed. `wait_for_start` is three actions, one
per select arm, in any order when several are ready; `Finish` is the end of the
loop body, where `borrow_and_update` takes the interval and
`next_slot_strictly_after` the next slot. Time does not pass while a task can
run.

### EndpointState

The reducer against a server that counts, restarts (perhaps under another
model, hence other series) and answers scrapes with samples that may be missing
or NaN. `Sample`, `Kept` and `AgeAfter` are `CounterTracker` and `CounterBank`;
`Ingest` is `ingest_metrics`, in its order: derive, evict, prune history, push
observations, clear and raise peaks. Rates are kept as deltas (the division by
the elapsed time does not change which comparison holds), a peak as the process
it was seen in, and which of two positive rates is greater is left open.
Every series has histograms, of which only the existence of its windows is kept
(their content is in MetricsPipeline). That no time has passed between two
samples (`rates.rs:74`), which outcomes a poll apart cannot have, is left out.
`since`, `spans` and `gone` record what the server did, for the properties.

### LogTail

One tailer, its file and the ring. A byte is a unit that says something: the
recognised part of a request line, a newline, other text. `poll_step` is split
where the file can change under it: everything up to the length comparison is
one step, open/seek/read another. A call may fail although the file is there,
which the code does not tell from a missing file: after `metadata` failed, the
whole file is read again. The seek and any of the reads may fail too: the
position then stays, or moves by what was read before. `blind` records that bytes of two files were
joined, the case `docs/LOG-TAILING.md` names as undetectable. The channel has
another sender, so it may be full at any tick. `consume_bytes` and the ring's
`apply` loop with `Folding`, as the parser does.

### Exposition, Normalize, Rings, MetricsPipeline

`Exposition` is the parser over lines split into tokens: which family owns a
sample (`Owner`: the TYPE line before it, the suffixes of histograms and
summaries, or a family of its own), and what is reported as an issue.
`Normalize` is `curate`: the names of each vLLM version, series by model and
engine, histograms, HTTP status classes, `cache_config_info`, and the join of
capacities onto series by engine, where one owner each is allowed. `Rings` is
the window of histogram snapshots and the ring of a chart: what is evicted, when
the ring is cleared, the deltas of a window and the quantile interpolation over
integers. `MetricsPipeline` puts them in the order of `ingest_metrics`, behind a
server of one of several shapes (models, engines, versions) that observes
latencies and restarts, possibly with other buckets; the text may lose its
comments, a line, or everything of the models.

### UsageAccounting

Rows `(ts, model, value)` in discrete time, several ticks a day. `record_samples`
with its throttle, a recorder that may lose a batch, retention, the schema
version of a database written by a newer vllmtop, and `query_on`: the window,
`LAG` (the row before, of the same series), positive deltas, days, the axis.
Each row carries, for the properties only, the process it came from and what had
been served by then. A row is stored when its snapshot is taken, where the code
queues it for the writer thread (a snapshot of the last instant of a day may land
in the next), and all days are of one length, where the query's are local
calendar days.

### Settings, FleetView, Layout, Screen

`Settings` is `config.rs`: which of command line, file, environment and default
wins, what is refused, and which endpoints lack their secrets. `FleetView` is
what is said of the fleet: freshness, the roll-ups, the order of the table.
`Layout` is the arithmetic that divides the terminal: sections, cards, grids,
panes, usage bars and their ticks. `Screen` composes them: it starts from the
settings (or refuses to), then keys, the wheel, resizing, outcomes of scrapes
and probes, log news, usage totals and ticks change the state, and `Redraw`, the
top of `App::run`'s loop, draws when dirty, not paused and the last frame is
90 ms old. The frame is a record of what was drawn: the state it was drawn of
and what that shows. A chart's line stays there, where the code drops it when all
its points have left the history window (30 s at least): the run `screen_totals`
finds its disagreement well before. A third of a width may be rounded up by the
layout library, so the usage bars are checked for both widths.

The theorems about a module `M` are in `MProofs`, those about the two tasks of an
endpoint, Collector and LogTail, in `TaskProofs`; see below.

## The runs

| Run | Question | Bounds |
| --- | --- | --- |
| `recorder` | nothing lost silently, no overclaim, shutdown ends, refinement | queue 2, 5 batches: full and emptied several times, also by Shutdown |
| `event_loop` | alternation of attempts, one usage query, channel bound | 2 endpoints, one without credentials, channel 2, keys `r`, `p` |
| `event_loop_live` | backpressure is no deadlock: refresh, draw, outcome, quit | 1 endpoint, channel 1, all keys |
| `collector` | phases, missed slots, forced refresh | 2 endpoints, intervals 1 s to 2 s, scrapes up to 1.5 s |
| `endpoint_state` | honest deltas, whole family sums, feed, peaks, memory | 2 series, 2 processes, feed of 2, eviction after 2 |
| `log_tail` | each line once and in order, unique rows, backlog drains | files of 3 bytes, 4 written, one replacement or failed call, reads of 2, lines of 1 |
| `usage` | daily totals: no overcount, lost batches heal, absent is not zero, past days stay | days of 2 ticks, a chart of 2 days, 8 ticks, 2 models, one restart, stop and loss |
| `pipeline` | no sample vanishes, no capacity counts twice, percentiles of what was seen | 8 server shapes, 6 ways a text differs, 2 bucket layouts, 5 ticks, 2 processes |
| `screen` | the frame is current, the fleet's numbers are of those who answer, the layout holds | 4 command lines, 4 environments, up to 3 endpoints, 3 events, 910 terminal sizes |
| `log_status`, `screen_narrow`, `screen_totals` | disagreements with the documents, see below | as above, or smaller |

The bounds are small because the code treats all batches, endpoints, series and
lines alike: two of a kind exhibit an order, capacity one or two exhibits a full
queue, a read of two bytes over files of three cuts a line at each place. The
scrape length exceeds the shortest interval, so slots are missed. Counters reach
only one per process in EndpointState, which suffices for a reset, for one that
is overtaken, and for a family of which one counter is reset and the other is
not. In UsageAccounting four days pass, so rows leave the chart and retention
(two days or three) bites inside and outside of it. The histogram window of two
ticks with one of margin holds three snapshots, so that each of the eviction's
conditions decides alone somewhere. A tick of Screen stands for six of the
program's, 3 s: the least staleness threshold (5 s) lies between two of them and
another (6 s) on one. Its terminals are the thirteen widths around which columns
and panes change, at every height from 1 to 70, where all sections are full.

`endpoint_state` uses a `VIEW` that keeps of the values derived from the last
scrape only which there are (the values themselves are looked at in the step that
computes them alone, and TLC checks action properties on every step) and the health (nothing else depends on it), and
symmetry of the series, which no temporal property of that run distinguishes;
`usage` uses symmetry of the models.

`CHECK_DEADLOCK FALSE` stands where a bound ends the run: the horizon of `usage`
and `pipeline`, the number of events of `screen`, the bytes of `log_status`.

Each property has a mutant: a definition replaced by the form a plausible bug
would give it (`X_Fault` beside `X`), under which TLC finds it violated.

### Fairness

Recorder: weak fairness of the writer thread and of a started shutdown; nobody
owes a batch or a quit. EventLoop: timers fire, polls end (10 s timeout), the
loop runs; tokio's `select!` picks among ready arms at random, so the channel
and the tick are not starved; parked senders queue in the channel's semaphore in
order, hence strong fairness of the sends; the user owes nothing. LogTail: the
poll timer and the receiving end. All other modules state safety only.

## Disagreements found

With a run that shows them:

- **A lost status** (`log_status`): `last_status` is stored before a send that
  may fail, and the change is never reported again.
- **An empty usage section** (`screen_narrow`): below 100 columns the three
  usage charts are stacked, and in a terminal of usual height each has room for
  its borders only. The section takes its rows and shows nothing.
- **Frozen values in a total** (`screen_totals`): the title of a chart adds up
  the last value of every line, that of an endpoint gone stale included, although
  `docs/ARCHITECTURE.md` says that fleet totals exclude them. The header and the
  cards do.

Stated as a definition beside the others, which TLC refutes when a configuration
of that module lists it:

- **Starts closer than the minimum cadence** (`StartsAreSpaced`, Collector): an
  interval change restarts endpoint 0 at once, each time, although
  `docs/LESSONS.md` says only a forced refresh returns immediately.
- **An interval change that does not take effect** (`IntervalTakesEffect`,
  Collector): made during a forced scrape, it is swallowed by
  `borrow_and_update` and the old deadline, up to 60 s away, stays.
- **Peaks that survive a restart** (`PeakIsOfThisProcess`, EndpointState): a
  server restarted under another model name exposes new series only; nothing
  goes backwards.
- **Unhealthy for ever** (`UnknownIsNotUnhealthy`, EndpointState): an unknown
  answer does not replace an unhealthy one.
- **A window across a restart** (`DeltasNeverFall`, MetricsPipeline): `push`
  compares the total count only; a restarted server under a larger load passes,
  and the negative bucket delta that `estimate` calls impossible occurs. The
  early return there is needed.

Met while reading, and what the model does about it:

- A server's text in which a histogram's `_count` or `_sum` line is damaged is
  curated with 0 in its place (`normalize.rs:556-568`), against the module's
  own "missing is never zero". Modelled as it is; `EstimateIsHonest` shows that
  the percentiles do not suffer.
- After a `metadata` call that failed for another reason than a missing file,
  the whole log is read as new (modelled); after Failed and Recovered in turn
  the feed is full of both, against "a flapping endpoint must not flood it".
- `usage.rs:67` says 31 days of rows, the default retention is 30; so
  `PastDaysAreStable` is conditional on a retention that keeps them. A wall
  clock set back can count twice, a NaN value breaks the whole batch by NOT
  NULL, and a cadence of 30 s is up to one refresh interval more; none of the
  three is modelled.
- `fleet.rs:22-24` says that no size that renders something today loses
  anything by the cards. It holds for sections (proved) but not for rows of the
  table, which is capped at half of the body: a fleet of 18 endpoints in a body of
  38 lines loses two rows to the cards, and no fleet loses more (proved). The
  table does not scroll, so the selected row can lie below its edge.
- In a terminal of 100 to 149 columns the fleet's band draws three of its six
  cards, below that two. Scrolling past the end is remembered, and the wheel
  scrolls the grid under the help overlay. Enter while paused opens the endpoint
  by the present order, not the drawn one. All of these are in Screen as they are
  in the code.

## What is proved

**RecorderProofs** holds for every queue capacity and number of batches. The
invariant is `IInv`: types; control (which program counters of owner and writer
go together, and where `Shutdown` may be: at most once before the thread joins,
and last); order (the batches attempted, in hand and queued are increasing);
the accounting equation; and the relation of `written` to `stored`, one behind
exactly while counting. None of the checked invariants is inductive alone:
`DrainFindsNothing`, for one, needs that nothing follows `Shutdown` in the
queue, which needs where the owner is. From `Spec => []IInv` follow
`TypeCorrect`, `AllAccounted`, `WrittenIsHonest`, `DrainIsEmpty` and, step by
step, `Refinement`. Assumptions: the capacity is a positive natural, the bound on
batches a natural.

**EventLoopProofs** holds for any number of endpoints, with or without
credentials and logs, any capacity of the channel, any keys, recording or not.
`TypeOK`, `AttemptsAlternate` and `OneUsageQuery` are inductive together with
`Configured` (only tasks that main started run). The argument is about positions
in the queue: what appending an event, and taking the oldest, does to the
announcements and outcomes of one endpoint and to the usage results (`OwnSent`,
`OtherSent`, `OwnTaken`, `OtherTaken`, `UsageSent`, `UsageTaken`). A collector
that has announced can only report, because the last of its events in the queue,
or the spinner if there is none, says what it told last; that link is dropped
once it has stopped. A query is spawned only while the flag is off, so neither a
worker nor a result is left. With `ChannelIsBounded`, `AttemptsStayInOrder` and
`OneQueryAtATime` the safety of the module is proved.

**TaskProofs**, on the collectors, holds for any number of endpoints, any range of intervals
from four phases up and any longest scrape. That a deadline is never further
behind than the longest scrape needs `OnTime`: a waiting task is never behind,
since no time passes while it could run, and one in a scrape is at most as far
behind as the scrape is old. `RefreshIsImmediate` needs `OwedIsForced`: an owed
refresh is still unseen by its task. `SlotsAreSkipped` rests on `NextSlot`, which
is division with remainder. `FleetStaysStaggered` is arithmetic modulo the
interval, with a second invariant `GridsBeginTogether`: while some waiting task
has yet to take a new interval no time has passed since it was set, so that all
who have taken it sit on the grid that starts now.

**TaskProofs**, on the tailer, holds for any limits of a line, a read, a batch, the
ring and the channel, any length of a file and any number of writes, replacements
and failing calls (the limits are positive naturals, `LimitsAssumption`).
`ReadsEachLineOnce` compares what was found, piece by piece, with the lines of all
the bytes passed, and says nothing of the piece in between; so it is not inductive. `IsRead` is: what was found is what the complete lines say, and what is
carried is the incomplete one, or nothing, with `skipping` set, exactly if it is longer than the cap.
`FeedReads` is one turn of `consume_bytes`, with what a byte more makes of the lines of a
text (`EventsInGrows`, `RestGrows`); `ConsumedReads` is the loop, by induction over the bytes of a
chunk. `ReadInv` says when this holds of the file that is there: it has only grown
since it was first read, because only a replacement brings a file back and that raises
`files`. It says besides that at offset 0 nothing is carried or found, without
which a file replaced between `metadata` and `open` would join the old one's bytes. `RowsAreUnique`
is `NoteKeeps`, over the events of a message (`RingKept`). With these the safety of the module is
proved.

**EndpointStateProofs** holds for any series, counters, feed size, eviction age
and number of restarts. `RatesAreHonest` (`DeltasAreHonest`) needs `Counted`,
which ties the server's counters to the trackers' last values also between
scrapes. `RequestRatesAreWhole` compares two sums over a family: the deltas that
are there, and the gains of the counters that two scrapes read; `ReadIsSampled`
shows that these are the same counters, since no reset is among them, and
FoldTheorems that the sums are the same. `PeaksAreDiscarded` needs that no peak is of
a process yet to come; `ChurnIsForgotten` that a tracker went without a sample
at least as long as its series is gone (that windows and rings go at once, and
stay while the endpoint fails, is inductive); `FeedTellsTheStatus` that the oldest
entries, which the cap pushes out, never separate a failure from the recovery
after it. With these every property of the module that is a property of the code is proved.

**UsageProofs** holds for any models, number of ticks, restarts, stops and lost
batches, any lengths of a day, of the chart and of the retention. The invariant
says of the rows: they are of the past; those of this run of vllmtop are no later
than the throttle's mark, and the others as far apart as it demands; a series has one row of a
time; and between any two rows of a series (`SeriesGrow`), as between a row and
the present (`SnapshotGrows`), the counter gained what was served if both are of
one process, and at most that if not. A day's bar is a sum of gains from one row to the
next of the window: `NeverOvercounts` and `DroppedBatchesHeal` compare it, by
telescoping (`Truth` of a time is what was served by then), with the
differences at its ends. `PastDaysAreStable` shows that a step neither adds a
row to a day that is over nor removes one the query reads. Assumptions:
lengths are positive, models finite.

**ScreenProofs** holds for any command lines and environments that clap and
serde let through (`SettingsAssumption`), terminals of any size
(`TerminalsAssumption`), scrapes of finitely many series (`SnapshotsAssumption`)
and any number of endpoints and events (`BoundsAssumption`).
`FrameStaysCurrent` adds to `FrameIsCurrent` that a frame drawn within the last
90 ms has not seen two ticks (`RecentIsYoung`): when a pause ends, nothing is
drawn at once, and without it the frame could be of any age. The lemmas follow
the three outcomes of `Redraw`: drawn, due but too early, and not due.
`ScreenInvariant` proves `StateInv`, which is `Inv`, the shape of what is kept (settings in
their ranges, endpoint names distinct, an endpoint whose secrets are missing was
never heard of), and `Shape`, that of the
user's view. From it follow the types (`ScreenTypeCorrect`), `SectionsSurviveAlways`
and `FleetIsHonestAlways`. The former rests on three facts about any width and height: the
cards take no section, and of the table two rows at most (`CardsCostNothing`), a line more never takes a section
away (`SectionsStay`), and the detail band costs no row of charts
(`DetailCostsNothing`); the lemmas compute each section's height under the
conditions of the nested saturating subtractions. The latter puts every total of the
fleet into the form of one sum over a finite set: what stale endpoints said is
not in its terms, and a mean weighted by capacities lies between the least and the
greatest of its values (`MeanIsBetween`). That the table's order is an order of
all endpoints, each once, is `RanksCover`.

**FoldTheorems** is what the proofs about sums, counts and folds rest on. The
library's induction theorems cannot be used (they take a predicate as a
parameter); but a non-empty family of subsets of a finite set has a minimal
member, and that fact, with the family of the counterexamples, is
induction. From it: a fold over a finite set exists and is unique, the library's
`MapThenSumSet` is the function `Total`, any element may be taken out of it first, it is
monotone, additive, scales, and sums by parts; functions that are defined from
one number to the next exist.

**PipelineProofs** holds for any deployments, bucket layouts, latencies, damages
and bounds (`PipelineAssumption`: finite sets, natural numbers, layouts that rise to +Inf). The
parser's pass over the lines is a function from line numbers to what was parsed
up to them (`ParsedIs`). Along it goes `CountsAre`, which gives
`EverySampleIsCounted`, and `Fits`, which gives `HistogramsKeepTheirSamples`: it
needs that until a histogram's first part comes no family has the name of one (`HistogramsStand`),
and after it the family has taken them all (`HistogramsGather`). Both are about any text; that what
the server writes, and what a damage makes of it, is such a text
(`IsScraped`) is `DamagedIsScraped`, and with it `NothingIsDropped` is a theorem of
the specification. Where a sample in a family comes from (`ParsedFrom`) gives the
passes of `curate` their invariant, `IsCurated`: only series of the deployment,
capacities as its engines say them, and no series that has one before the join.
The join gives no capacity twice (`CapacityHasOneOwner`), so that the sum
over the series is one over different engines: `CapacityIsNeverDoubled`. For
the rings, `PipelineTypeOK` rests on the order of the times (`IsTimed`): what
`evict` keeps is the shortest suffix that is not superfluous, and a chart's recent
points are a suffix, as many as the set it counts. `EstimatesAreHonest` needs what
the truth of a ring is (`TruthInv`): each point tells what the server had
observed by its time (`SnapshotIs`, from the text through the parser and `curate`,
whatever was damaged), a later one of the same process all of that and more, one of
a later process no more than was observed since (`IsBefore`). So the deltas of a window
are the buckets of what was seen in between (`ObservedSince`), the bucket the
quantile is interpolated in is that of the latency at its rank (`QuantileIs`), and a
delta that falls is a restart that two neighbours' counts did not show
(`RestartIsHidden`). `EstimateInv` says which ring an estimate is of.

Every safety property of a passing run is proved. Only model-checked: all liveness, which is
out of the prover's reach, as is `ENABLED`.

## Plan

1. Done: Recorder and its proofs, EventLoop, Collector, EndpointState, LogTail.
2. Done: UsageAccounting with retention; the pipeline from text to percentiles;
   settings, fleet, layout and screen; proofs of the frame, the layout and the
   join of capacities; failed calls in LogTail.
3. Done: proofs of EventLoop, Collector and EndpointState.
4. Done: sums and folds; proofs of UsageAccounting, of Screen's fleet and layout, of the
   parser, the capacities, the rings, the estimates and the tailer.
5. Next: the cadence of the optional probes.

## Not modelled

The bytes of the three syntaxes (Prometheus text within a line, request-logger
lines, TOML and URLs), which the models take as tokens; the HTTP client (a poll
that ends with a body or an error, within its timeout); SQLite (a transaction
that commits or does not) and the file system of the database; threads of tokio
beyond what a task waits for; words, colours, column widths and number formats;
the means of several percentile windows and the latency of an attempt, which are
display values; the mouse beyond the wheel; the installer scripts.
