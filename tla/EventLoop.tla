----------------------------- MODULE EventLoop ------------------------------
(***************************************************************************)
(* The whole process as its threads and tasks see each other: one bounded  *)
(* channel into the main loop (App::run), and around it the collectors,    *)
(* the optional probes, the log tailers, the input thread, the daily-usage *)
(* query on a blocking thread, the recorder's shutdown handshake, and the  *)
(* teardown of the runtime in main.                                        *)
(*                                                                         *)
(* When a collector starts is left open here (Collector models the clock); *)
(* what a scrape does to an endpoint's data is EndpointState; what         *)
(* record() does is Recorder, of which only "shutdown() returns" is kept.  *)
(* One loop iteration is one action: the select! arm, the handler it runs, *)
(* the quit test and the draw at the top of the next round.                *)
(*                                                                         *)
(* Definitions named X_Fault are X with a plausible bug; see Recorder.     *)
(***************************************************************************)
EXTENDS Naturals, Sequences, FiniteSets

CONSTANTS
  Endpoints,        \* configured endpoints
  Authorized,       \* those whose client was built (auth env resolved)
  Tailed,           \* those with a log_file
  ChannelCapacity,  \* 256 in main::run
  Keys,             \* the keys the user may press: a subset of KeyKinds
  Recording         \* the recorder started (App.recorder is Some)

\* help: "?"; close: Esc or Enter, which close the help overlay too.
KeyKinds == {"ctrl_c", "q", "help", "close", "r", "p", "other"}

ASSUME EndpointsAssumption == IsFiniteSet(Endpoints)
ASSUME SubsetsAssumption ==
  Authorized \subseteq Endpoints /\ Tailed \subseteq Endpoints
ASSUME ChannelCapacityAssumption == ChannelCapacity \in Nat \ {0}
ASSUME KeysAssumption == Keys \subseteq KeyKinds
ASSUME RecordingAssumption == Recording \in BOOLEAN

VARIABLES
  app,         \* where run() and main() are
  receiver,    \* the channel's receiving end exists
  channel,     \* the events sent and not yet received
  collector,   \* where each CollectorTask is
  scraping,    \* EndpointState.scraping_since is Some
  optional,    \* where each OptionalTask is
  tailer,      \* each TailerTask runs
  input,       \* the input thread runs
  query,       \* where the usage query's worker is
  inFlight,    \* App.usage_query_in_flight
  lastQuery,   \* App.usage_last_query: None, or its age
  paused,
  help,        \* App.show_help
  dirty,
  frameOld     \* min_frame.elapsed() >= 90 ms

taskVars == <<collector, optional, tailer, input>>
usageVars == <<query, inFlight, lastQuery>>
screenVars == <<paused, help, dirty, frameOld>>
vars == <<app, receiver, channel, scraping, taskVars, usageVars, screenVars>>

\* running: in the select loop; flushing: in Recorder::shutdown or its Drop;
\* returned: run() is back in main, the terminal restored, the runtime being
\* dropped; exited.
AppState == {"running", "flushing", "returned", "exited"}

\* waiting: in wait_for_start; starting: in events.send(MetricsStarted);
\* polling: in poll_once; reporting: in events.send(Scrape).
CollectorState == {"waiting", "starting", "polling", "reporting", "stopped"}

OptionalState == {"sleeping", "reporting", "stopped"}

\* running: in query_daily_usage; reporting: in blocking_send(UsageLoaded).
QueryState == {"none", "running", "reporting"}

\* AppEvent.  Mouse and Resize only set dirty, like Key("other").
Started(e) == [kind |-> "started", ep |-> e]
Scrape(e, ok) == [kind |-> "scrape", ep |-> e, ok |-> ok]
OptionalUpdate(e) == [kind |-> "optional", ep |-> e]
RequestLog(e) == [kind |-> "log", ep |-> e]
UsageLoaded(ok) == [kind |-> "usage", ok |-> ok]
Key(k) == [kind |-> "key", key |-> k]
InputClosed == [kind |-> "closed"]

Event ==
  {Started(e) : e \in Endpoints}
  \cup {Scrape(e, ok) : e \in Endpoints, ok \in BOOLEAN}
  \cup {OptionalUpdate(e) : e \in Authorized}
  \cup {RequestLog(e) : e \in Tailed}
  \cup {UsageLoaded(ok) : ok \in BOOLEAN}
  \cup {Key(k) : k \in Keys}
  \cup {InputClosed}

Init ==
  /\ app = "running"
  /\ receiver = TRUE
  /\ channel = <<>>
  /\ collector = [e \in Endpoints |-> "waiting"]
  /\ scraping = [e \in Endpoints |-> FALSE]
  /\ optional = [e \in Endpoints |-> IF e \in Authorized THEN "sleeping" ELSE "stopped"]
  /\ tailer = [e \in Endpoints |-> e \in Tailed]
  /\ input = TRUE
  /\ query = "none"
  /\ inFlight = FALSE
  /\ lastQuery = "none"
  /\ paused = FALSE
  /\ help = FALSE
  /\ dirty = FALSE        \* the first frame is painted before the first event
  /\ frameOld = FALSE

-----------------------------------------------------------------------------
(* The channel.  send().await and blocking_send park until there is room   *)
(* and fail once the receiver is gone; try_send never parks.               *)

HasRoom_Fault == TRUE                   \* unbounded_channel()
HasRoom == Len(channel) < ChannelCapacity

Put(m) == receiver /\ HasRoom /\ channel' = Append(channel, m)
PutFails == ~ receiver /\ UNCHANGED channel

\* The runtime is alive: tasks run until main drops it.
RuntimeAlive == app \in {"running", "flushing"}

-----------------------------------------------------------------------------
(* CollectorTask::run.                                                     *)

\* wait_for_start returns: the slot is reached, or the user forced a refresh.
StartAttempt(e) ==
  /\ RuntimeAlive
  /\ collector[e] = "waiting"
  /\ collector' = [collector EXCEPT ![e] = "starting"]
  /\ UNCHANGED <<app, receiver, channel, scraping, optional, tailer, input,
                 usageVars, screenVars>>

SendStarted(e) ==
  /\ RuntimeAlive
  /\ collector[e] = "starting"
  /\ \/ Put(Started(e)) /\ collector' = [collector EXCEPT ![e] = "polling"]
     \/ PutFails /\ collector' = [collector EXCEPT ![e] = "stopped"]
  /\ UNCHANGED <<app, receiver, scraping, optional, tailer, input, usageVars,
                 screenVars>>

\* poll_once ends: a body, an error, or the 10 s timeout.
FinishPoll(e) ==
  /\ RuntimeAlive
  /\ collector[e] = "polling"
  /\ collector' = [collector EXCEPT ![e] = "reporting"]
  /\ UNCHANGED <<app, receiver, channel, scraping, optional, tailer, input,
                 usageVars, screenVars>>

\* No client, no success: the outcome is the static auth error.
Outcomes(e) == IF e \in Authorized THEN BOOLEAN ELSE {FALSE}

AfterReport_Fault == "polling"          \* the next poll is not announced
AfterReport == "waiting"

SendScrape(e) ==
  /\ RuntimeAlive
  /\ collector[e] = "reporting"
  /\ \/ /\ \E ok \in Outcomes(e) : Put(Scrape(e, ok))
        /\ collector' = [collector EXCEPT ![e] = AfterReport]
     \/ PutFails /\ collector' = [collector EXCEPT ![e] = "stopped"]
  /\ UNCHANGED <<app, receiver, scraping, optional, tailer, input, usageVars,
                 screenVars>>

-----------------------------------------------------------------------------
(* OptionalTask::run, TailerTask::run, and the input thread.               *)

FinishProbe(e) ==
  /\ RuntimeAlive
  /\ optional[e] = "sleeping"
  /\ optional' = [optional EXCEPT ![e] = "reporting"]
  /\ UNCHANGED <<app, receiver, channel, scraping, collector, tailer, input,
                 usageVars, screenVars>>

SendOptional(e) ==
  /\ RuntimeAlive
  /\ optional[e] = "reporting"
  /\ \/ Put(OptionalUpdate(e)) /\ optional' = [optional EXCEPT ![e] = "sleeping"]
     \/ PutFails /\ optional' = [optional EXCEPT ![e] = "stopped"]
  /\ UNCHANGED <<app, receiver, scraping, collector, tailer, input, usageVars,
                 screenVars>>

\* A tick with something to say: try_send, and a full channel drops it.
TailerTick(e) ==
  /\ RuntimeAlive
  /\ tailer[e]
  /\ \/ Put(RequestLog(e)) /\ UNCHANGED tailer
     \/ receiver /\ ~ HasRoom /\ UNCHANGED <<channel, tailer>>
     \/ PutFails /\ tailer' = [tailer EXCEPT ![e] = FALSE]
  /\ UNCHANGED <<app, receiver, scraping, collector, optional, input,
                 usageVars, screenVars>>

\* A key, mouse or resize event; the thread ends when the channel is closed.
\* It is a plain OS thread: it outlives the runtime.
TypeKey(k) ==
  /\ app # "exited"
  /\ input
  /\ \/ Put(Key(k)) /\ UNCHANGED input
     \/ PutFails /\ input' = FALSE
  /\ UNCHANGED <<app, receiver, scraping, collector, optional, tailer,
                 usageVars, screenVars>>

\* Reading the terminal fails: InputClosed is the thread's last event.
InputFails ==
  /\ app # "exited"
  /\ input
  /\ Put(InputClosed) \/ PutFails
  /\ input' = FALSE
  /\ UNCHANGED <<app, receiver, scraping, collector, optional, tailer,
                 usageVars, screenVars>>

-----------------------------------------------------------------------------
(* The daily-usage query.                                                  *)

QueryDue_Fault(last) == Recording /\ last \in {"none", "old"}
QueryDue(last) == Recording /\ ~ inFlight /\ last \in {"none", "old"}

\* maybe_spawn_usage_query, with usage_last_query = last before the call.
MaybeSpawnQuery(last) ==
  IF QueryDue(last)
    THEN query' = "running" /\ inFlight' = TRUE /\ lastQuery' = "recent"
    ELSE lastQuery' = last /\ UNCHANGED <<query, inFlight>>

FinishQuery ==
  /\ app # "exited"
  /\ query = "running"
  /\ query' = "reporting"
  /\ UNCHANGED <<app, receiver, channel, scraping, taskVars, inFlight,
                 lastQuery, screenVars>>

\* blocking_send: parks while the channel is full, fails once it is closed.
SendUsage ==
  /\ app # "exited"
  /\ query = "reporting"
  /\ (\E ok \in BOOLEAN : Put(UsageLoaded(ok))) \/ PutFails
  /\ query' = "none"
  /\ UNCHANGED <<app, receiver, scraping, taskVars, inFlight, lastQuery,
                 screenVars>>

\* USAGE_REFRESH_EVERY elapses.
QueryAges ==
  /\ app = "running"
  /\ lastQuery = "recent"
  /\ lastQuery' = "old"
  /\ UNCHANGED <<app, receiver, channel, scraping, taskVars, query, inFlight,
                 screenVars>>

-----------------------------------------------------------------------------
(* The main loop: one select! arm, its handler, and what follows.          *)

\* The 90 ms between frames elapse.
FrameAges ==
  /\ app = "running"
  /\ ~ frameOld
  /\ frameOld' = TRUE
  /\ UNCHANGED <<app, receiver, channel, scraping, taskVars, usageVars, paused,
                 help, dirty>>

MayDraw_Fault(d) == d /\ frameOld /\ ~ paused     \* paused screens never drawn
MayDraw(d) == d /\ frameOld

\* After a handler that left dirty = d: leave the loop, or go round it, which
\* draws first.  draw() may fail, and run() then returns the error: receiver
\* and App are dropped, in this order.
EndIteration(quit, d) ==
  \/ /\ quit
     /\ app' = "flushing"
     /\ dirty' = d
     /\ UNCHANGED <<receiver, frameOld>>
  \/ /\ ~ quit
     /\ dirty' = (d /\ ~ MayDraw(d))
     /\ frameOld' = (frameOld /\ ~ MayDraw(d))
     /\ UNCHANGED <<app, receiver>>
  \/ /\ ~ quit
     /\ MayDraw(d)
     /\ app' = "flushing"
     /\ receiver' = FALSE
     /\ UNCHANGED <<dirty, frameOld>>

\* Data events leave a paused display alone.
DataDirty == dirty \/ ~ paused

OnStarted(m) ==
  /\ m.kind = "started"
  /\ scraping' = [scraping EXCEPT ![m.ep] = TRUE]
  /\ EndIteration(FALSE, DataDirty)
  /\ UNCHANGED <<usageVars, paused, help>>

ClearsScraping_Fault(m) == m.ok          \* an early return on Err
ClearsScraping(m) == TRUE

\* EndpointState::apply, then record_samples if the scrape succeeded.
OnScrape(m) ==
  /\ m.kind = "scrape"
  /\ scraping' = [scraping EXCEPT ![m.ep] = @ /\ ~ ClearsScraping(m)]
  /\ EndIteration(FALSE, DataDirty)
  /\ UNCHANGED <<usageVars, paused, help>>

OnOptionalOrLog(m) ==
  /\ m.kind \in {"optional", "log"}
  /\ EndIteration(FALSE, DataDirty)
  /\ UNCHANGED <<scraping, usageVars, paused, help>>

LandsQuery_Fault(m) == m.ok              \* the flag is cleared on Ok only
LandsQuery(m) == TRUE

OnUsage(m) ==
  /\ m.kind = "usage"
  /\ inFlight' = (inFlight /\ ~ LandsQuery(m))
  /\ EndIteration(FALSE, DataDirty)
  /\ UNCHANGED <<scraping, query, lastQuery, paused, help>>

\* q closes the help overlay instead of the program; Ctrl+C never does.
Quits_Fault(m) == ~ help /\ m.key \in {"ctrl_c", "q"}   \* the overlay checked first
Quits(m) == m.key = "ctrl_c" \/ (m.key = "q" /\ ~ help)

\* handle_key.  While the help overlay is open, a few keys close it and all
\* others are swallowed, Ctrl+C excepted.
OnKey(m) ==
  /\ m.kind = "key"
  /\ EndIteration(Quits(m), TRUE)
  /\ help' = CASE m.key = "ctrl_c" -> help
               [] m.key \in {"q", "help", "close"} /\ help -> FALSE
               [] m.key = "help" /\ ~ help -> TRUE
               [] OTHER -> help
  /\ paused' = IF m.key = "p" /\ ~ help THEN ~ paused ELSE paused
  /\ IF m.key = "r" /\ ~ help THEN MaybeSpawnQuery("none") ELSE UNCHANGED usageVars
  /\ UNCHANGED scraping

OnInputClosed(m) ==
  /\ m.kind = "closed"
  /\ EndIteration(TRUE, dirty)
  /\ UNCHANGED <<scraping, usageVars, paused, help>>

\* handle_event on the oldest event of the channel.
Handle ==
  /\ app = "running"
  /\ channel # <<>>
  /\ channel' = Tail(channel)
  /\ LET m == Head(channel) IN
       \/ OnStarted(m)
       \/ OnScrape(m)
       \/ OnOptionalOrLog(m)
       \/ OnUsage(m)
       \/ OnKey(m)
       \/ OnInputClosed(m)
  /\ UNCHANGED taskVars

\* The 500 ms tick: ages advance even without data, unless paused.
Tick ==
  /\ app = "running"
  /\ MaybeSpawnQuery(lastQuery)
  /\ EndIteration(FALSE, DataDirty)
  /\ UNCHANGED <<channel, scraping, taskVars, paused, help>>

Sigterm ==
  /\ app = "running"
  /\ app' = "flushing"
  /\ UNCHANGED <<receiver, channel, scraping, taskVars, usageVars, screenVars>>

-----------------------------------------------------------------------------
(* Teardown: run() returns, main restores the terminal and drops the       *)
(* runtime, which aborts the tasks and waits for the blocking thread.      *)

ClosesReceiver == FALSE

\* The recorder has shut down (Recorder: ShutdownTerminates).
RunReturns ==
  /\ app = "flushing"
  /\ app' = "returned"
  /\ receiver' = ClosesReceiver
  /\ UNCHANGED <<channel, scraping, taskVars, usageVars, screenVars>>

\* The blocking pool is joined first: a query still running holds it up.
RuntimeDropped ==
  /\ app = "returned"
  /\ query = "none"
  /\ app' = "exited"
  /\ collector' = [e \in Endpoints |-> "stopped"]
  /\ optional' = [e \in Endpoints |-> "stopped"]
  /\ tailer' = [e \in Endpoints |-> FALSE]
  /\ input' = FALSE
  /\ UNCHANGED <<receiver, channel, scraping, usageVars, screenVars>>

Exited ==
  /\ app = "exited"
  /\ UNCHANGED vars

-----------------------------------------------------------------------------
Next ==
  \/ \E e \in Endpoints :
       \/ StartAttempt(e)
       \/ SendStarted(e)
       \/ FinishPoll(e)
       \/ SendScrape(e)
       \/ FinishProbe(e)
       \/ SendOptional(e)
       \/ TailerTick(e)
  \/ \E k \in Keys : TypeKey(k)
  \/ InputFails
  \/ FinishQuery
  \/ SendUsage
  \/ QueryAges
  \/ FrameAges
  \/ Handle
  \/ Tick
  \/ Sigterm
  \/ RunReturns
  \/ RuntimeDropped
  \/ Exited

\* Timers fire, requests end (10 s timeout), threads run.  select! picks at
\* random among ready arms, so neither the channel nor the tick is starved.
\* Parked senders are served first come first served (the channel's semaphore
\* is a queue), hence strong fairness of the sends.  The user owes nothing.
Fairness ==
  /\ \A e \in Endpoints :
       /\ WF_vars(StartAttempt(e))
       /\ WF_vars(FinishPoll(e))
       /\ SF_vars(SendStarted(e))
       /\ SF_vars(SendScrape(e))
  /\ WF_vars(FinishQuery)
  /\ SF_vars(SendUsage)
  /\ WF_vars(FrameAges)
  /\ WF_vars(Handle)
  /\ WF_vars(Tick)
  /\ WF_vars(RunReturns)
  /\ WF_vars(RuntimeDropped)

Spec == Init /\ [][Next]_vars /\ Fairness

-----------------------------------------------------------------------------
(* Properties.                                                             *)

\* The types, and backpressure: the channel never holds more than its bound.
TypeOK ==
  /\ app \in AppState
  /\ receiver \in BOOLEAN
  /\ channel \in Seq(Event) /\ Len(channel) <= ChannelCapacity
  /\ collector \in [Endpoints -> CollectorState]
  /\ scraping \in [Endpoints -> BOOLEAN]
  /\ optional \in [Endpoints -> OptionalState]
  /\ tailer \in [Endpoints -> BOOLEAN]
  /\ input \in BOOLEAN
  /\ query \in QueryState
  /\ inFlight \in BOOLEAN
  /\ lastQuery \in {"none", "recent", "old"}
  /\ paused \in BOOLEAN
  /\ help \in BOOLEAN
  /\ dirty \in BOOLEAN
  /\ frameOld \in BOOLEAN

\* The announcements and outcomes of e in ch, by position.
AttemptsIn(ch, e) ==
  {i \in DOMAIN ch : ch[i].kind \in {"started", "scrape"} /\ ch[i].ep = e}

\* No two of the same kind follow each other.
Alternate(ch, e) ==
  \A i, j \in AttemptsIn(ch, e) :
    i < j /\ (\A k \in AttemptsIn(ch, e) : k <= i \/ j <= k) => ch[i].kind # ch[j].kind

\* The next one ends the attempt the main loop knows of, or announces one.
NextFits(ch, e, known) ==
  \A i \in AttemptsIn(ch, e) :
    (\A k \in AttemptsIn(ch, e) : i <= k) => ch[i].kind = IF known THEN "scrape" ELSE "started"

\* The last one, or what the main loop knows, is what the collector said.
LastFits(ch, e, known, announced) ==
  /\ AttemptsIn(ch, e) = {} => announced = known
  /\ \A i \in AttemptsIn(ch, e) :
       (\A k \in AttemptsIn(ch, e) : k <= i) => announced = (ch[i].kind = "started")

Announced(e) == collector[e] \in {"polling", "reporting"}

\* "A non-overlapping /metrics request is about to start": seen from the main
\* loop, announcements and outcomes of an endpoint strictly alternate, and the
\* spinner (scraping_since) is on exactly between the two, whatever else is
\* queued in between.
AttemptsAlternate ==
  \A e \in Endpoints :
    /\ Alternate(channel, e)
    /\ NextFits(channel, e, scraping[e])
    /\ collector[e] # "stopped" => LastFits(channel, e, scraping[e], Announced(e))

\* "At most one in flight": the flag is set exactly while one worker runs or
\* its one result is queued, so no second query ever starts and no stale
\* result overtakes a newer one.
UsageIn(ch) == {i \in DOMAIN ch : ch[i].kind = "usage"}

OneUsageQuery ==
  receiver =>
    /\ inFlight = (query # "none" \/ UsageIn(channel) # {})
    /\ query # "none" => UsageIn(channel) = {}
    /\ \A i, j \in UsageIn(channel) : i = j

\* 'r' while a query is in flight is not lost: usage_last_query = None is
\* remembered until a query that starts after the key press is spawned.
RefreshIsServed ==
  (Recording /\ lastQuery = "none") ~> (lastQuery # "none" \/ app # "running")

\* A change to the screen's contents reaches the screen: the frame limit only
\* delays it, and a pause does not swallow it.
DirtyIsDrawn == dirty ~> (~ dirty \/ app # "running")

\* The spinner of an endpoint does not stay on for ever: every announced
\* attempt ends and its outcome gets through the full channel.
SpinnerClears == \A e \in Endpoints : scraping[e] ~> (~ scraping[e] \/ app # "running")

\* Ctrl+C is obeyed even from the end of a full channel and under the overlay,
\* and leaving the loop ends the process: no sender parked on the full channel,
\* in particular not the blocking usage query, keeps the runtime from stopping.
QuitIsObeyed ==
  (app # "running" \/ \E i \in 1 .. Len(channel) : channel[i] = Key("ctrl_c")) ~> (app = "exited")
=============================================================================
