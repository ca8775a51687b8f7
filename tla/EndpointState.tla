---------------------------- MODULE EndpointState ----------------------------
(***************************************************************************)
(* What vllmtop makes of one endpoint (state/mod.rs): the reducer that     *)
(* folds the outcomes of /metrics scrapes and optional probes into the     *)
(* connection status, the interval rates (metrics/rates.rs), the session   *)
(* peak and the feed of observations (state/events.rs).                    *)
(*                                                                         *)
(* The other actor is the monitored server: it counts what it serves, and  *)
(* may restart at any moment, its counters then starting again at zero and *)
(* its series possibly under other names (another model).  Counters only   *)
(* ever reach vllmtop as the values of a scrape, so a restart is something *)
(* it has to guess.                                                        *)
(*                                                                         *)
(* Of the rates only the deltas are kept (their division by the elapsed    *)
(* time is monotone), prompt_tokens and the prefix-cache counters go the   *)
(* way of generation_tokens, and gauges are left out.  Every series has    *)
(* histograms; what is in their windows is in MetricsPipeline.             *)
(*                                                                         *)
(* Definitions named X_Fault are X with a plausible bug; see Recorder.     *)
(***************************************************************************)
EXTENDS Integers, Sequences, FiniteSetsExt

CONSTANTS
  Series,       \* the SeriesKeys (model, engine) the server may expose
  EvictAfter,   \* EVICT_AFTER_GENERATIONS: 16
  MaxEvents,    \* MAX_EVENTS: 64
  MaxRuns,      \* bound: processes the server goes through
  MaxWork,      \* bound: what one of them counts, all counters together
  MaxFailures,  \* bound: failures in a row
  Flaky         \* bound: the counters a text may lack, or have as NaN

ASSUME SeriesAssumption == Series # {} /\ IsFiniteSet(Series)
ASSUME BoundsAssumption == {EvictAfter, MaxEvents, MaxRuns} \subseteq Nat \ {0}

Reasons == {"success:stop", "success:error"}
Counters == {"generation_tokens", "preemptions"} \cup Reasons

None == -1                       \* Option::None, where a number may be
Absent == -2                     \* the text has no such sample
NaN == -3                        \* it has, and the value is not finite

VARIABLES
  run,      \* server: its process, numbered from 1
  served,   \* server: the series it exposes
  count,    \* server: its counters
  scraping, \* scraping_since.is_some()
  status,   \* ConnStatus: "connecting", "connected" or "failing"
  failures, \* ConnStatus::Failing.consecutive, 0 unless failing
  scraped,  \* last_ok_at.is_some()
  healthy,  \* Option<bool>: "unknown", "yes" or "no"
  derived,  \* per series of the last good scrape, whose keys are curated's
  last,     \* CounterBank: the tracker's last value
  age,      \* CounterBank: generations since last_seen; EvictAfter: no entry
  windows,  \* the series with HistogramWindows
  history,  \* the (series, metric id) pairs with a RingSeries
  peak,     \* peak_generation_tps: NoPeak, a zero rate, or the run it was seen in
  resetIn,  \* restart_seen_at: the run it was last set in, 0 for None
  feed,     \* EventLog: what it says, oldest first
  answer,   \* history: what the last probe of /health answered
  since,    \* history: what was counted since the tracker's last value
  spans,    \* history: the server restarted since then
  gone      \* history: good scrapes since the series was last exposed

serverVars == <<run, served, count>>
connVars == <<scraping, status, failures, scraped>>
dataVars == <<derived, last, age, windows, history, peak, resetIn>>
healthVars == <<healthy, answer>>
histVars == <<since, spans, gone>>
vars == <<serverVars, connVars, healthVars, dataVars, feed, histVars>>

NoPeak == -1
ZeroPeak == 0

Everywhere(x) == [k \in Series |-> [c \in Counters |-> x]]

Init ==
  /\ run = 1
  /\ served \in SUBSET Series \ {{}}
  /\ count = Everywhere(0)
  /\ scraping = FALSE
  /\ status = "connecting"
  /\ failures = 0
  /\ scraped = FALSE
  /\ healthy = "unknown"
  /\ derived = [k \in {} |-> None]
  /\ last = Everywhere(None)
  /\ age = Everywhere(EvictAfter)
  /\ windows = {}
  /\ history = {}
  /\ peak = NoPeak
  /\ resetIn = 0
  /\ feed = <<>>
  /\ answer = "unknown"
  /\ since = Everywhere(0)
  /\ spans = Everywhere(FALSE)
  /\ gone = [k \in Series |-> EvictAfter]

-----------------------------------------------------------------------------
(* The server.                                                             *)

Work == MapThenSumSet(LAMBDA k : MapThenSumSet(LAMBDA c : count[k][c], Counters), served)

Serve(k, c) ==
  /\ k \in served
  /\ scraping               \* earlier or later, the next scrape sees the same
  /\ Work < MaxWork
  /\ count' = [count EXCEPT ![k][c] = @ + 1]
  /\ since' = [since EXCEPT ![k][c] = @ + 1]
  /\ UNCHANGED <<run, served, connVars, healthVars, dataVars, feed, spans, gone>>

Restart(keys) ==
  /\ run < MaxRuns
  /\ run' = run + 1
  /\ served' = keys
  /\ count' = Everywhere(0)
  /\ spans' = Everywhere(TRUE)
  /\ UNCHANGED <<connVars, healthVars, dataVars, feed, since, gone>>

-----------------------------------------------------------------------------
(* metrics/rates.rs, and the feed.                                         *)

\* CounterTracker::update: the outcome of one observation.  That no time has
\* passed since the last one, which the code answers with Unavailable, does not
\* happen between two scrapes.
Unavailable == [kind |-> "unavailable", delta |-> None]
Reset == [kind |-> "reset", delta |-> None]
Sample_Fault(prev, v) ==                      \* a first sample counts from zero
  IF v < 0 THEN Unavailable
  ELSE IF v < prev THEN Reset
  ELSE [kind |-> "rate", delta |-> IF prev = None THEN v ELSE v - prev]
Sample(prev, v) ==
  IF v < 0 \/ prev = None THEN Unavailable
  ELSE IF v < prev THEN Reset
  ELSE [kind |-> "rate", delta |-> v - prev]

\* ... and the value it keeps: NaN poisons the tracker.
Kept(prev, v) == CASE v = Absent -> prev [] v = NaN -> None [] OTHER -> v

\* CounterBank::update and end_scrape.
AgeAfter(a, v) == IF v # Absent THEN 0 ELSE IF a < EvictAfter THEN a + 1 ELSE a

\* EventLog::push: a repeat refreshes the newest entry's time, the oldest
\* entry makes room.
Push_Fault(log, kind, n) ==                   \* room made before appending
  LET e == [kind |-> kind, n |-> n] IN
  IF log # <<>> /\ log[Len(log)] = e THEN log
  ELSE Append(IF Len(log) > MaxEvents THEN Tail(log) ELSE log, e)
Push(log, kind, n) ==
  LET e == [kind |-> kind, n |-> n] IN
  IF log # <<>> /\ log[Len(log)] = e THEN log
  ELSE LET longer == Append(log, e) IN
       IF Len(longer) > MaxEvents THEN Tail(longer) ELSE longer

PushIf(condition, log, kind, n) == IF condition THEN Push(log, kind, n) ELSE log

-----------------------------------------------------------------------------
(* ingest_metrics, for a scrape whose samples are text[k][c].              *)

\* The sum of the deltas there are; None when there is none.
SumOf(deltas) ==
  LET known == {x \in DOMAIN deltas : deltas[x] # None} IN
  IF known = {} THEN None ELSE MapThenSumSet(LAMBDA x : deltas[x], known)

\* The success family: one counter reset makes all of it unavailable.
FamilySum_Fault(samples, reasons) == SumOf([c \in reasons |-> samples[c].delta])
FamilySum(samples, reasons) ==
  IF \E c \in Reasons : samples[c].kind = "reset" THEN None
  ELSE SumOf([c \in reasons |-> samples[c].delta])

Derive(samples) ==
  [ generation |-> samples["generation_tokens"].delta,
    preempted |-> samples["preemptions"].delta,
    requests |-> FamilySum(samples, Reasons),
    errors |-> FamilySum(samples, {"success:error"}),
    reset |-> \E c \in Counters : samples[c].kind = "reset" ]

\* The ids of current_samples that have a value.
SampleIds(d) == {f \in {"generation", "preempted", "requests", "errors"} : d[f] # None}

\* What the retains of windows and history keep.
KeepsSeries_Fault(k, new) == TRUE
KeepsSeries(k, new) == k \in DOMAIN new

\* The peak before this scrape's rates: a reset discards it.
PeakBefore_Fault(anyReset) == peak
PeakBefore(anyReset) == IF anyReset THEN NoPeak ELSE peak

\* The peaks p.max(g) may leave.  Which of two positive rates is greater is
\* not tracked.
PeakAfter(p, g) ==
  IF g = None THEN {p}
  ELSE IF g = 0 THEN {IF p = NoPeak THEN ZeroPeak ELSE p}
  ELSE IF p \in {NoPeak, ZeroPeak} THEN {run} ELSE {p, run}

Value(text, k, c) == IF k \in DOMAIN text THEN text[k][c] ELSE Absent

Ingest(text, log) ==
  /\ derived' = [k \in DOMAIN text |->
                   Derive([c \in Counters |-> Sample(last[k][c], text[k][c])])]
  /\ age' = [k \in Series |-> [c \in Counters |-> AgeAfter(age[k][c], Value(text, k, c))]]
  /\ last' = [k \in Series |-> [c \in Counters |->
                IF age'[k][c] = EvictAfter THEN None ELSE Kept(last[k][c], Value(text, k, c))]]
  /\ windows' = {k \in windows \cup DOMAIN text : KeepsSeries(k, derived')}
  /\ history' = {h \in history : KeepsSeries(h[1], derived')}
                  \cup UNION {{k} \X SampleIds(derived'[k]) : k \in DOMAIN derived'}
  /\ LET anyReset == \E k \in DOMAIN derived' : derived'[k].reset
         total(f) == SumOf([k \in DOMAIN derived' |-> derived'[k][f]])
         noted == PushIf(total("preempted") > 0, log, "preemption", total("preempted"))
         noted2 == PushIf(total("errors") > 0, noted, "errors", total("errors"))
     IN
     /\ resetIn' = IF anyReset THEN run ELSE resetIn
     /\ peak' \in PeakAfter(PeakBefore(anyReset), total("generation"))
     /\ feed' = PushIf(anyReset, noted2, "restarted", 0)
  /\ since' = [k \in Series |-> [c \in Counters |->
                 IF Value(text, k, c) = Absent THEN since[k][c] ELSE 0]]
  /\ spans' = [k \in Series |-> [c \in Counters |-> Value(text, k, c) = Absent /\ spans[k][c]]]
  /\ gone' = [k \in Series |-> IF k \in DOMAIN text THEN 0
                               ELSE IF gone[k] < EvictAfter THEN gone[k] + 1 ELSE gone[k]]

-----------------------------------------------------------------------------
(* The events App::handle_event applies.                                   *)

MarkAttemptStarted ==
  /\ ~ scraping
  /\ scraping' = TRUE
  /\ UNCHANGED <<serverVars, status, failures, scraped, healthVars, dataVars, feed, histVars>>

\* apply, Err: everything but the status stays, the last good data included.
ApplyFailure ==
  /\ scraping
  /\ failures < MaxFailures
  /\ scraping' = FALSE
  /\ status' = "failing"
  /\ failures' = failures + 1
  /\ feed' = PushIf(failures = 0, feed, "failed", 0)
  /\ UNCHANGED <<serverVars, scraped, healthVars, dataVars, histVars>>

\* What a good outcome says about the connection, before its metrics.
SuccessLog_Fault(log) ==                      \* the arms of the match swapped
  IF ~ scraped THEN Push(log, "connected", 0)
  ELSE PushIf(status = "failing", log, "recovered", failures)
SuccessLog(log) ==
  IF status = "failing" THEN Push(log, "recovered", failures)
  ELSE PushIf(~ scraped, log, "connected", 0)

ApplySuccess(text) ==
  /\ scraping
  /\ scraping' = FALSE
  /\ status' = "connected"
  /\ failures' = 0
  /\ scraped' = TRUE
  /\ Ingest(text, SuccessLog(feed))
  /\ UNCHANGED <<serverVars, healthVars>>

\* The texts a scrape may read: the counters, one of them possibly missing or
\* not a number.
ExactText == [k \in served |-> [c \in Counters |-> count[k][c]]]
OddText(k, c, odd) == [ExactText EXCEPT ![k][c] = odd]
Texts == {ExactText} \cup {OddText(k, c, odd) : k \in served, c \in Flaky, odd \in {Absent, NaN}}

\* apply_optional, for the answer fetch_health gave.
ApplyOptional(said) ==
  /\ healthy' = IF said = "unknown" THEN healthy ELSE said
  /\ answer' = said
  /\ UNCHANGED <<serverVars, connVars, dataVars, feed, histVars>>

Next ==
  \/ \E k \in Series, c \in Counters : Serve(k, c)
  \/ \E keys \in SUBSET Series \ {{}} : Restart(keys)
  \/ MarkAttemptStarted
  \/ ApplyFailure
  \/ \E text \in Texts : ApplySuccess(text)
  \/ \E said \in {"unknown", "yes", "no"} : ApplyOptional(said)

Spec == Init /\ [][Next]_vars

-----------------------------------------------------------------------------
(* Properties.                                                             *)

EventKinds == {"connected", "failed", "recovered", "restarted", "preemption", "errors"}

\* Every variable has its type, the feed is within its cap, and the failure
\* count is the status's: positive exactly while failing.
TypeOK ==
  /\ run \in 1 .. MaxRuns
  /\ served \in SUBSET Series
  /\ count \in [Series -> [Counters -> Nat]]
  /\ scraping \in BOOLEAN /\ scraped \in BOOLEAN
  /\ status \in {"connecting", "connected", "failing"}
  /\ failures \in Nat /\ (failures > 0 <=> status = "failing")
  /\ {healthy, answer} \subseteq {"unknown", "yes", "no"}
  /\ DOMAIN derived \subseteq Series
  /\ last \in [Series -> [Counters -> Nat \cup {None}]]
  /\ age \in [Series -> [Counters -> 0 .. EvictAfter]]
  /\ peak \in NoPeak .. MaxRuns /\ resetIn \in 0 .. MaxRuns
  /\ Len(feed) <= MaxEvents
  /\ \A i \in DOMAIN feed : feed[i].kind \in EventKinds

\* The step that ingests a good scrape.
Ingests == scraping /\ ~ scraping' /\ status' = "connected"

\* README.md: no negative rate and no spurious spike, whatever failed scrapes,
\* missing or poisoned samples, evictions and restarts came before.  A delta
\* never exceeds what the server counted since the sample it is measured from,
\* and is exactly that unless the server restarted in between.
HonestDelta(d, k, c) ==
  /\ d >= 0
  /\ d <= since[k][c]
  /\ ~ spans[k][c] => d = since[k][c]

CountersHonest ==
  \A k \in DOMAIN derived' :
    /\ derived'[k].generation # None => HonestDelta(derived'[k].generation, k, "generation_tokens")
    /\ derived'[k].preempted # None => HonestDelta(derived'[k].preempted, k, "preemptions")

ErrorsHonest ==
  \A k \in DOMAIN derived' :
    derived'[k].errors # None => HonestDelta(derived'[k].errors, k, "success:error")

DeltasAreHonest == [][Ingests => CountersHonest /\ ErrorsHonest]_vars

\* VLLM-SEMANTICS.md, partial resets: a request rate is never the sum of the
\* survivors of a restart.  Every counter of the family that was read in this
\* scrape and had been read before is in it.
RequestRateIsWhole ==
  [][Ingests => \A k \in DOMAIN derived' :
       LET read == {c \in Reasons : last[k][c] # None /\ last'[k][c] # None /\ age'[k][c] = 0} IN
       derived'[k].requests # None =>
         derived'[k].requests = MapThenSumSet(LAMBDA c : last'[k][c] - last[k][c], read)]_vars

\* No peak survives the detection of a restart: the rate it records was seen
\* in the process the last detected reset revealed, or in a later one.
PeakFollowsReset == peak > ZeroPeak => peak >= resetIn

\* The feed and the status tell the same story: while failing, the newest
\* entry is the failure that began it (nothing else is observed meanwhile);
\* otherwise every failure still in the feed is followed by its recovery.
FeedAgreesWithStatus ==
  /\ status = "failing" => feed # <<>> /\ feed[Len(feed)].kind = "failed"
  /\ status # "failing" => \A i \in DOMAIN feed : feed[i].kind = "failed" =>
                            i < Len(feed) /\ feed[i + 1].kind = "recovered"

\* Label churn leaves nothing behind (rates.rs, state/mod.rs: bounded memory):
\* a series' tracker goes within EvictAfter good scrapes of its last exposure,
\* its histogram windows and its history with the first scrape that lacks it.
\* What the last good scrape exposed stays, however often the endpoint fails
\* meanwhile: its windows, and the charts of all it has a value of.
SeriesAreForgotten ==
  /\ \A k \in Series, c \in Counters : gone[k] = EvictAfter => age[k][c] = EvictAfter
  /\ windows = DOMAIN derived
  /\ \A h \in history : h[1] \in DOMAIN derived
  /\ \A k \in DOMAIN derived : {k} \X SampleIds(derived[k]) \subseteq history

-----------------------------------------------------------------------------
(* What the documents say, and the code does not do: TLC finds both         *)
(* violated when a configuration lists them.                               *)

\* FAQ.md: "Session peaks are discarded when the monitored server restarts".
\* Once a process has been scraped, no peak of an earlier one is left.
PeakIsOfThisProcess == [][Ingests => peak' \in {NoPeak, ZeroPeak, run}]_vars

\* collector/mod.rs, fetch_health: an answer that leaves the health unknown
\* "must display as N/A, not as a red health flag".
UnknownIsNotUnhealthy == answer = "unknown" => healthy # "no"
=============================================================================
