------------------------------- MODULE Screen -------------------------------
(***************************************************************************)
(* What the user sees and does: the program starts from its settings       *)
(* (Settings), keys and the mouse move through the views, results of the   *)
(* collectors, the log tailers and the usage query change what is known,   *)
(* and a frame is drawn of all that (FleetView, Layout) when something     *)
(* made the screen dirty, it is not paused, and the last frame is 90 ms    *)
(* old.  EventLoop has the queues and the threads; here an event and the   *)
(* redraw that may follow it at the top of App::run's loop are one step.   *)
(*                                                                         *)
(* View 0 is the fleet, view i endpoint i; endpoints are numbered from 1   *)
(* in the order of the configuration.  Time passes in ticks of App::run.   *)
(***************************************************************************)
EXTENDS FleetView, Layout, Settings

CONSTANTS
  CommandLines, Environments,  \* to start with
  Terminals,    \* sizes of a terminal: records of w and h
  Sizes,        \* those the program is started in, or resized to
  Snapshots,    \* what a scrape may report: series by key
  MaxEndpoints, \* bound: endpoints of a configuration
  MaxAge,       \* bound: a success this many ticks old stands for all older ones
  MaxEvents     \* bound: events other than ticks

ASSUME BoundsAssumption == MaxEndpoints \in Nat \ {0} /\ {MaxAge, MaxEvents} \subseteq Nat

ASSUME TerminalsAssumption == \A s \in Terminals : {s.w, s.h} \subseteq Nat

Options(S) == [1 .. 0 -> S] \cup [1 .. 1 -> S]

\* What clap and serde let through.
EndpointSpec ==
  [name : Options(Nat), host : Nat, scheme : STRING, needs : SUBSET STRING,
   max_running : Options(Nat), log_file : BOOLEAN]
HasTypes(settings) ==
  /\ \A f \in Fields : settings.numbers[f] \in Options(Nat)
  /\ settings.endpoints \in Seq(EndpointSpec)
  /\ Len(settings.endpoints) <= MaxEndpoints

ASSUME SettingsAssumption ==
  /\ \A cli \in CommandLines : HasTypes(cli)
  /\ \A env \in Environments : \A file \in {env.files.given, env.files.xdg, env.files.home} :
       HasTypes(file.config)

\* A scrape has finitely many series; tokens are counted.
SeriesType ==
  [loads : [Loads -> Options(Int)], ttft : Options(Int), usage : Options(Int), capacity : Options(Nat)]

ASSUME SnapshotsAssumption ==
  \A s \in Snapshots : IsFiniteSet(DOMAIN s) /\ s \in [DOMAIN s -> SeriesType]

VARIABLES
  phase,      \* "refused", "running" or "ended"
  config,     \* the configuration, as an Option
  access,     \* of each endpoint: could its secrets be resolved?
  endpoints,  \* what is known of each
  ui,         \* view, selected, sort, scroll, mode, paused, help, refresh
  usage,      \* off, data, error: the UsageCache
  size,       \* the terminal
  dirty, recent,     \* is a redraw due; is the last frame less than 90 ms old?
  frame,      \* the frame on screen, and how many ticks it has been there
  events      \* bound

known == <<endpoints, ui, usage, size>>
vars == <<phase, config, access, known, dirty, recent, frame, events>>

n == Len(endpoints)

(***************************************************************************)
(* Rendering: pure functions from App to a frame.                          *)
(***************************************************************************)

\* draw_metric_chart: the latest value of every line, combined.  The code
\* drops a line once all its points have left the history window, half a minute
\* at least, which is beyond what the ages here tell apart.
Headline(es) ==
  LET lines == UNION {{<<i, k>> : k \in DOMAIN es[i].ring} : i \in DOMAIN es}
  IN  [value |-> SumOpt([l \in lines |-> <<es[l[1]].ring[l[2]]>>]),
       note |-> IF Cardinality(lines) > 1 THEN "total" ELSE ""]

\* draw_daily_usage: a section with nothing to show says why.
UsageNote(us) ==
  CASE us.off -> "off"
    [] ~us.off /\ us.data -> "charts"
    [] ~us.off /\ ~us.data /\ us.error -> "failed"
    [] OTHER -> "loading"

FleetPicture(es, u, us, sz) ==
  LET h == BodyHeight(sz.h)
      cards == FleetCardsHeight(sz.w, h, Len(es))
      body == draw_body(h - cards, Len(es))
  IN  [rows |-> SubSeq(sorted_endpoint_indices(es, u.sort), 1, RowsShown(body.table, Len(es))),
       selected |-> u.selected,
       badges |-> [i \in DOMAIN es |-> Badge(es[i], u.refresh)],
       cells |-> [i \in DOMAIN es |-> aggregate(es[i].curated)],
       sections |-> body,
       cards |-> CardsDrawn(sz.w, cards, FleetCards),
       fleet |-> IF cards > 0 THEN <<aggregate_fleet(es, u.refresh)>> ELSE <<>>,
       usage |-> IF body.usage > 0 THEN UsageNote(us) ELSE "hidden",
       charts |-> IF body.grid > 0 THEN ChartsShown(sz.w, body.grid, u.scroll) ELSE {},
       headline |-> IF body.grid > 0 THEN <<Headline(es)>> ELSE <<>>]

\* draw_requests: its empty states, most fundamental first.
RequestsNote(e, log) ==
  CASE ~log -> "no log"
    [] log /\ e.log.missing -> "not found"
    [] log /\ ~e.log.missing /\ ~e.log.rows -> "waiting"
    [] OTHER -> "rows"

EndpointPicture(e, conf, u, sz) ==
  LET h == BodyHeight(sz.h)
      panes == Panes(sz.w, h, u.mode, conf.log_file)
  IN  [badge |-> Badge(e, u.refresh),
       failing |-> e.failing,
       panes |-> panes,
       requests |-> IF "requests" \in panes THEN RequestsNote(e, conf.log_file) ELSE "hidden",
       cards |-> IF EndpointCardsHeight(sz.w, h) = 0 THEN <<>>
                 ELSE <<aggregate(e.curated), kv_absolute(e.curated), conf.max_running>>]

Picture(es, u, us, sz) ==
  [view |-> u.view, paused |-> u.paused, help |-> u.help, refresh |-> u.refresh, size |-> sz,
   content |-> IF u.view = 0 THEN FleetPicture(es, u, us, sz)
               ELSE EndpointPicture(es[u.view], config[1].endpoints[u.view], u, sz)]

(***************************************************************************)
(* Starting: main, and App::new.                                           *)
(***************************************************************************)

NewEndpoint(e) ==
  [name |-> e.name, age |-> <<>>, failing |-> FALSE, healthy |-> "unknown",
   curated |-> <<>>, ring |-> <<>>, log |-> [missing |-> FALSE, rows |-> FALSE]]

FirstUi(refresh) ==
  [view |-> 0, selected |-> 1, sort |-> "name", scroll |-> 0, mode |-> "overview",
   paused |-> FALSE, help |-> FALSE, refresh |-> refresh]

NoFrame == [ticks |-> 0, picture |-> <<>>]

Init ==
  \E cli \in CommandLines, env \in Environments :
    /\ config = load(cli, env)
    /\ phase = IF config = <<>> THEN "refused" ELSE "running"
    /\ access = IF config = <<>> THEN <<>>
                ELSE [i \in DOMAIN config[1].endpoints |-> resolve_auth(config[1].endpoints[i], env)]
    /\ endpoints = IF config = <<>> THEN <<>>
                   ELSE [i \in DOMAIN config[1].endpoints |-> NewEndpoint(config[1].endpoints[i])]
    /\ ui = FirstUi(IF config = <<>> THEN 0 ELSE config[1].numbers.refresh_interval_ms)
    \* Recorder::start may fail: the charts say so, and the program goes on.
    /\ usage = [off |-> config # <<>> /\ (config[1].record # "Enabled" \/ ~env.database),
                data |-> FALSE, error |-> FALSE]
    /\ size \in Sizes
    /\ dirty = TRUE
    /\ recent = FALSE
    /\ frame = NoFrame
    /\ events = 0


(***************************************************************************)
(* The loop: an event, and the redraw it may cause.                        *)
(***************************************************************************)

\* The top of the loop, with what the event left; late is FALSE while the last
\* frame, on screen for so many ticks, is less than 90 ms old.
Redraw(due, late, ticks) ==
  IF due /\ late
  THEN /\ frame' = [ticks |-> 0, picture |-> Picture(endpoints', ui', usage', size')]
       /\ dirty' = FALSE
       /\ recent' = TRUE
  ELSE /\ frame' = [frame EXCEPT !.ticks = ticks]
       /\ dirty' = due
       /\ recent' = ~late

Started == phase = "running" /\ frame # NoFrame

FirstFrame ==
  /\ phase = "running"
  /\ frame = NoFrame
  /\ UNCHANGED <<phase, config, access, known, events>>
  /\ Redraw(dirty, TRUE, 0)

\* 90 ms without an event.
Settle ==
  /\ Started
  /\ recent
  /\ recent' = FALSE
  /\ UNCHANGED <<phase, config, access, known, dirty, frame, events>>

\* Half a second: ages grow, and the screen shows it unless it is paused.  The
\* last frame was drawn more than 90 ms ago if it was there a tick ago.
Older(age) == IF age = <<>> THEN age ELSE <<Least(age[1] + 1, MaxAge)>>

Tick ==
  /\ Started
  /\ endpoints' = [i \in DOMAIN endpoints |-> [endpoints[i] EXCEPT !.age = Older(@)]]
  /\ UNCHANGED <<phase, config, access, ui, usage, size, events>>
  /\ Redraw(dirty \/ ~ui.paused, ~(recent /\ frame.ticks = 0), Least(frame.ticks + 1, 2))

(***************************************************************************)
(* What arrives: state always updates, a pause only freezes the display.   *)
(***************************************************************************)

DueAfterNews_Fault == dirty \/ (~ui.paused /\ ui.view # 0)  \* the fleet forgotten
DueAfterNews == dirty \/ ~ui.paused

Arrives ==
  /\ Started
  /\ events < MaxEvents
  /\ events' = events + 1
  /\ UNCHANGED <<phase, config, access, ui, size>>
  /\ Redraw(DueAfterNews, ~recent, frame.ticks)

\* EndpointState::apply: the last good snapshot outlives failures; a chart's
\* line outlives a value that is missing, not a series that is gone.
RingAfter(ring, s) ==
  [k \in {k \in DOMAIN s : s[k].loads["running"] # <<>> \/ k \in DOMAIN ring} |->
     IF s[k].loads["running"] # <<>> THEN s[k].loads["running"][1] ELSE ring[k]]

ScrapeSucceeds(i, s) ==
  /\ access[i]
  /\ endpoints' = [endpoints EXCEPT ![i] =
                     [@ EXCEPT !.age = <<0>>, !.failing = FALSE, !.curated = s, !.ring = RingAfter(endpoints[i].ring, s)]]
  /\ UNCHANGED usage
  /\ Arrives

ScrapeFails(i) ==
  /\ endpoints' = [endpoints EXCEPT ![i].failing = TRUE]
  /\ UNCHANGED usage
  /\ Arrives

\* apply_optional: an unknown health changes nothing.
ProbeEnds(i, healthy) ==
  /\ access[i]
  /\ endpoints' = [endpoints EXCEPT ![i].healthy = IF healthy = "unknown" THEN @ ELSE healthy]
  /\ UNCHANGED usage
  /\ Arrives

LogArrives(i, missing, rows) ==
  /\ config[1].endpoints[i].log_file
  /\ endpoints' = [endpoints EXCEPT ![i].log = [missing |-> missing, rows |-> @.rows \/ rows]]
  /\ UNCHANGED usage
  /\ Arrives

\* The last good data stay when a later query fails.
UsageLoaded(ok) ==
  /\ ~usage.off
  /\ usage' = [usage EXCEPT !.data = @ \/ ok, !.error = ~ok]
  /\ UNCHANGED endpoints
  /\ Arrives

News ==
  \/ \E i \in 1 .. n : \/ \E s \in Snapshots : ScrapeSucceeds(i, s)
                       \/ ScrapeFails(i)
                       \/ \E healthy \in {"yes", "no", "unknown"} : ProbeEnds(i, healthy)
                       \/ \E missing, rows \in BOOLEAN : LogArrives(i, missing, rows)
  \/ \E ok \in BOOLEAN : UsageLoaded(ok)

(***************************************************************************)
(* Keys and the mouse: every one of them makes the screen dirty.           *)
(***************************************************************************)

Input(new) ==
  /\ Started
  /\ events < MaxEvents
  /\ events' = events + 1
  /\ ui' = new
  /\ UNCHANGED <<phase, config, access, endpoints, usage>>
  /\ Redraw(TRUE, ~recent, frame.ticks)

\* The help overlay swallows every key.
Pressed(new) == ~ui.help /\ UNCHANGED size /\ Input(new)

next_view(v) == IF v < n THEN v + 1 ELSE 0
prev_view(v) == IF v = 0 THEN n ELSE v - 1

TabKey == Pressed([ui EXCEPT !.view = next_view(@)])
BackTabKey == Pressed([ui EXCEPT !.view = prev_view(@)])
FleetKey == Pressed([ui EXCEPT !.view = 0])
NumberKey(i) == Pressed([ui EXCEPT !.view = IF i \in 1 .. n THEN i ELSE @])

EnterKey ==
  /\ ui.view = 0
  /\ ui.selected \in 1 .. n
  /\ Pressed([ui EXCEPT !.view = sorted_endpoint_indices(endpoints, ui.sort)[ui.selected]])

\* Up, down, and to the last row; of the fleet view only.
move_selection(delta) ==
  Pressed(IF ui.view = 0 THEN [ui EXCEPT !.selected = Clamp(@ + delta, 1, Most(n, 1))] ELSE ui)

TopKey == Pressed([ui EXCEPT !.selected = 1, !.scroll = 0])

NextSort == [name |-> "running", running |-> "waiting", waiting |-> "generation_tps", generation_tps |-> "name"]
SortKey == Pressed(IF ui.view = 0 THEN [ui EXCEPT !.sort = NextSort[@]] ELSE ui)

NextMode == [overview |-> "requests", requests |-> "tables", tables |-> "overview"]
PanelKey == Pressed(IF ui.view # 0 THEN [ui EXCEPT !.mode = NextMode[@]] ELSE ui)

PauseKey == Pressed([ui EXCEPT !.paused = ~@])

\* '+' is faster, a shorter interval: direction -1.
Step(ms) == IF ms < 1000 THEN 250 ELSE IF ms < 5000 THEN 500 ELSE 1000
AdjustedInterval(ms, direction) ==
  Clamp(ms + direction * Step(ms), Lowest["refresh_interval_ms"], Highest["refresh_interval_ms"])
adjust_interval(direction) == Pressed([ui EXCEPT !.refresh = AdjustedInterval(@, direction)])

\* A key without an effect on what is shown, 'r' being one.
OtherKey == Pressed(ui)

HelpKey == Pressed([ui EXCEPT !.help = TRUE])
KeyWhileHelp(closes) == ui.help /\ UNCHANGED size /\ Input([ui EXCEPT !.help = ~closes])

\* 'q' outside the overlay, Ctrl+C anywhere, or the end of the input.
Quit ==
  /\ Started
  /\ phase' = "ended"
  /\ UNCHANGED <<config, access, known, dirty, recent, frame, events>>

\* Page keys and the wheel; the overlay does not stop the wheel.
MaxScroll == 16
Scrolled(delta) == IF ui.view = 0 THEN [ui EXCEPT !.scroll = Clamp(@ + delta, 0, MaxScroll)] ELSE ui
PageKey(delta) == Pressed(Scrolled(delta))
Wheel(delta) == UNCHANGED size /\ Input(Scrolled(delta))

Resize(s) == size' = s /\ Input(ui)

User ==
  \/ TabKey \/ BackTabKey \/ FleetKey \/ EnterKey \/ TopKey \/ SortKey \/ PanelKey
  \/ PauseKey \/ OtherKey \/ HelpKey \/ Quit
  \/ \E i \in 1 .. 8 : NumberKey(i)
  \/ \E delta \in {-1, 1, n} : move_selection(delta)
  \/ \E direction \in {-1, 1} : adjust_interval(direction)
  \/ \E closes \in BOOLEAN : KeyWhileHelp(closes)
  \/ \E delta \in {-1, 1} : PageKey(delta) \/ Wheel(delta)
  \/ \E s \in Sizes : Resize(s)

Next == FirstFrame \/ Settle \/ Tick \/ News \/ User

Spec == Init /\ [][Next]_vars

(***************************************************************************)
(* Properties.                                                             *)
(***************************************************************************)

\* Every variable keeps its type.  A program that runs has settings in their
\* ranges and endpoints with names of their own, whatever it was started with;
\* no keys lead to a view, a row or an interval that does not exist.
TypeOK ==
  /\ phase \in {"refused", "running", "ended"}
  /\ dirty \in BOOLEAN /\ recent \in BOOLEAN
  /\ size \in Sizes
  /\ frame.ticks \in 0 .. 2
  /\ events \in 0 .. MaxEvents
  /\ phase # "refused" =>
       /\ \A f \in Fields : config[1].numbers[f] \in Lowest[f] .. Highest[f]
       /\ n > 0 /\ n = Len(config[1].endpoints) /\ n = Len(access)
       /\ \A i, j \in 1 .. n : i # j => endpoints[i].name # endpoints[j].name
       /\ \A i \in 1 .. n : endpoints[i].age \in {<<>>} \cup {<<a>> : a \in 0 .. MaxAge}
       /\ ui.view \in 0 .. n /\ ui.selected \in 1 .. n /\ ui.scroll \in 0 .. MaxScroll
       /\ ui.refresh \in Lowest["refresh_interval_ms"] .. Highest["refresh_interval_ms"]

\* Unless a redraw is due, the frame on screen is the one of the present state:
\* of all of it when the display is not paused, of what keys changed always.
\* A display that is not paused is never older than a tick.  Otherwise Enter
\* would open another row than the one that is marked, or a stale endpoint
\* would stay on screen as up.
FrameIsCurrent ==
  Started =>
    /\ ~dirty /\ ~ui.paused => frame.picture = Picture(endpoints, ui, usage, size)
    /\ ~dirty => /\ frame.picture.view = ui.view /\ frame.picture.paused = ui.paused
                 /\ frame.picture.help = ui.help /\ frame.picture.refresh = ui.refresh
    /\ ~ui.paused => frame.ticks <= 1

\* What the display says of the fleet, when it is current and not paused.
Shown == IF Started /\ ~dirty /\ ~ui.paused /\ ui.view = 0 THEN frame.picture.content.fleet ELSE <<>>

Silent(i) == freshness(endpoints[i], ui.refresh) # "Fresh"

\* Nothing that an endpoint said before it fell silent has a say in the totals.
SilentHaveNoSay(fleet) ==
  \A i \in 1 .. n, s \in Snapshots :
    Silent(i) => aggregate_fleet([endpoints EXCEPT ![i].curated = s], ui.refresh) = fleet

\* The KV figure lies between the least and the most loaded series, and is only
\* called weighted when every one of them has told its capacity.
KvIsAMean(kv) ==
  LET Of(x) == endpoints[x[1]].curated[x[2]]
      reporting == {x \in (1 .. n) \X UNION {DOMAIN s : s \in Snapshots} :
                      /\ ~Silent(x[1]) /\ x[2] \in DOMAIN endpoints[x[1]].curated
                      /\ Of(x).usage # <<>>}
  IN  /\ \E x \in reporting : Of(x).usage[1] * kv.over <= kv.sum
      /\ \E x \in reporting : Of(x).usage[1] * kv.over >= kv.sum
      /\ kv.weighted => \A x \in reporting : Of(x).capacity # <<>>

\* The fleet's numbers are of the endpoints that answer: each is counted once,
\* the silent ones have no say in any sum, the KV figure is a mean of what was
\* told, the worst latency is of the endpoint it names, and an endpoint whose
\* secrets could not be resolved is never up.
FleetIsHonest ==
  \A x \in DOMAIN Shown :
    LET fleet == Shown[x]
    IN  /\ fleet.up + fleet.stale + fleet.down = n /\ fleet.total = n
        /\ SilentHaveNoSay(fleet)
        /\ \A y \in DOMAIN fleet.kv : KvIsAMean(fleet.kv[y])
        /\ \A y \in DOMAIN fleet.worst :
             /\ ~Silent(fleet.worst[y])
             /\ aggregate(endpoints[fleet.worst[y]].curated).ttft = fleet.ttft
        /\ \A i \in 1 .. n : ~access[i] => frame.picture.content.badges[i] = "INIT"

\* Some scroll position that keys can reach shows each chart, in a row that
\* lies inside the section.
EveryChartIsReachable(w, grid) ==
  /\ UNION {ChartsShown(w, grid, scroll) : scroll \in 0 .. MaxScroll} = 0 .. ChartCount - 1
  /\ \A row \in 0 .. VisibleRows(grid) - 1 : RowHeight(grid, row) > 0

\* The bars of a usage chart and the ticks below them fit side by side.
BarsFit(inner, days) ==
  LET tape == Tape(inner, days)
  IN  /\ tape.fit * tape.step - tape.gap <= inner
      /\ \A i \in 1 .. tape.fit - 1 : Cursor(tape, inner)[i] < Most(TodayStart(tape, inner), 1)

SizeIsSound(s, m) ==
  LET h == BodyHeight(s.h)
      grid == FleetSections(s.w, h, m).grid
      cell == UsageCell(s.w, h, 1).w
  IN  /\ CardsAreAdditive(s.w, h, m)
      /\ SectionsComeInOrder(s.w, h, m)
      /\ DetailIsFree(s.w, h)
      /\ grid > 0 => EveryChartIsReachable(s.w, grid)
      /\ \A width \in {cell, cell + 1} :
           Less(width, 2) > 0 => \A days \in {1, 7, USAGE_WINDOW_DAYS} : BarsFit(Less(width, 2), days)

\* As a constant, so that TLC works it out once.
LayoutIsSound == [m \in 0 .. MaxEndpoints |-> \A s \in Terminals : SizeIsSound(s, m)]

\* With the present endpoints, in a terminal of any size and at any scroll
\* position: the sections fit and come in their order, the cards and the detail
\* band cost none (of the table the cards take two rows at most), every chart can be brought on screen, and the bars and
\* the axis of a usage chart fit side by side.
SectionsSurvive == LayoutIsSound[n]

\* The comment of MIN_USAGE_ROWS: with at least that many rows the section of
\* the daily usage can be read.  It does not hold: stacked in a narrow terminal
\* its charts find no room for a bar, and the section stays empty.
UsageIsReadable ==
  Started /\ ui.view = 0 /\ frame.picture.view = 0 /\ frame.picture.content.usage = "charts" =>
    \E c \in 1 .. 3 : UsageChartDrawn(UsageCell(frame.picture.size.w, frame.picture.content.sections.usage, c))

\* docs/ARCHITECTURE.md: fleet totals exclude stale endpoints rather than
\* silently counting frozen numbers.  It does not hold for the total in the
\* title of a chart of the grid, which counts the last value of every line.
TotalsExcludeStale ==
  Started /\ ~dirty /\ ~ui.paused /\ ui.view = 0 =>
    \A x \in DOMAIN frame.picture.content.headline :
      LET fresh == [i \in 1 .. n |-> [endpoints[i] EXCEPT !.ring = IF Silent(i) THEN <<>> ELSE @]]
      IN  frame.picture.content.headline[x].note = "total" =>
            frame.picture.content.headline[x].value = Headline(fresh).value
=============================================================================
