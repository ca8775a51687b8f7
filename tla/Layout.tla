------------------------------- MODULE Layout -------------------------------
(***************************************************************************)
(* How the views divide the terminal: ui/fleet.rs, ui/endpoint.rs, and the *)
(* grids of ui/charts.rs and ui/cards.rs.  Sizes are in cells, a section   *)
(* of height 0 is not drawn, and all of it is integer arithmetic with      *)
(* saturating subtraction, as in the code.  The colours, the words and the *)
(* widths of table columns are left out.                                   *)
(***************************************************************************)
EXTENDS Integers, FiniteSets

CARD_H == 4
FleetCards == 6      \* and as many of an endpoint
MIN_CHART_ROWS == 8
MIN_USAGE_ROWS == 7
MIN_CHART_H == 7
MIN_LOWER_H == 8
MAX_LOWER_H == 12
ChartCount == 11     \* CHARTS
SpecCount == 6       \* chart_specs
USAGE_WINDOW_DAYS == 30

Least(a, b) == IF a < b THEN a ELSE b
Most(a, b) == IF a > b THEN a ELSE b
Clamp(v, low, high) == Least(Most(v, low), high)
Less(a, b) == IF a > b THEN a - b ELSE 0
DivCeil(a, b) == (a + b - 1) \div b

\* draw: a header line, a footer line, and the body between them.
BodyHeight(h) == Less(h, 2)

(***************************************************************************)
(* Cards.                                                                  *)
(***************************************************************************)

columns(w) == CASE w >= 150 -> 6
                [] 100 <= w /\ w < 150 -> 3
                [] 36 <= w /\ w < 100 -> 2
                [] OTHER -> 0

card_grid_height(w, n) == IF columns(w) = 0 THEN 0 ELSE CARD_H * DivCeil(n, columns(w))

\* draw_card_row: the first cards, as many as fit.
CardsDrawn(w, h, n) == Least(n, columns(w) * (h \div CARD_H))

(***************************************************************************)
(* The fleet view: cards, table of n endpoints, usage bars, chart grid.    *)
(***************************************************************************)

TableHeight(h, n) == Least(n + 1, Most(h \div 2, 1))
Rest(h, n) == Less(h, TableHeight(h, n))
UsageHeight(rest) == Clamp(rest \div 3, MIN_USAGE_ROWS, 12)

FitsGrid(rest) == rest >= UsageHeight(rest) + MIN_CHART_ROWS

\* draw_body: the grid goes first, then the bars, the table last.
draw_body(h, n) ==
  LET rest == Rest(h, n)
  IN  IF FitsGrid(rest)
      THEN [table |-> TableHeight(h, n), usage |-> UsageHeight(rest), grid |-> rest - UsageHeight(rest)]
      ELSE IF rest >= MIN_USAGE_ROWS
      THEN [table |-> TableHeight(h, n), usage |-> rest, grid |-> 0]
      ELSE [table |-> h, usage |-> 0, grid |-> 0]

FleetCardsHeight_Fault(w, h, n) ==            \* the chart row forgotten
  IF columns(w) > 0 /\ Rest(h, n) >= UsageHeight(Rest(h, n)) + CARD_H
  THEN CARD_H ELSE 0
\* draw: cards only where the rest is drawn in full below them.
FleetCardsHeight(w, h, n) ==
  IF columns(w) > 0 /\ Rest(h, n) >= UsageHeight(Rest(h, n)) + MIN_CHART_ROWS + CARD_H
  THEN CARD_H ELSE 0

\* The endpoints whose row is in a table of that height, below its heading.
RowsShown(table, n) == Least(n, Less(table, 1))

(***************************************************************************)
(* The usage section: three charts, beside each other or stacked.          *)
(***************************************************************************)

\* The layout may round a third up: a cell is then one column wider.
UsageCell(w, h, c) ==
  IF w >= 100 THEN [w |-> w \div 3, h |-> h]
  ELSE [w |-> w, h |-> IF c < 3 THEN Most(h \div 3, 3) ELSE Less(h, 2 * Most(h \div 3, 3))]

\* draw_usage_chart returns without drawing where there is no room for a bar.
UsageChartDrawn(cell) == Less(cell.w, 2) > 0 /\ Less(cell.h, 2) >= 2

\* Its bars: one per day, the most recent days only where not all fit.
Tape(inner, days) ==
  LET per == Most(inner \div USAGE_WINDOW_DAYS, 1)
      bar == IF per >= 3 THEN per - 1 ELSE per
      gap == IF per >= 3 THEN 1 ELSE 0
  IN  [bar |-> bar, gap |-> gap, step |-> bar + gap,
       fit |-> Least(Clamp(inner \div (bar + gap), 1, USAGE_WINDOW_DAYS), days)]

\* The axis below: "today" first, at the right, then a tick every five days
\* where it collides neither with its neighbour nor with "today".
TodayStart(tape, inner) == Less(Least((tape.fit - 1) * tape.step + tape.bar, inner), 5)

TickLength(ago) == IF ago < 10 THEN 3 ELSE 4

TickStart(tape, inner, ago) ==
  Least((tape.fit - 1 - ago) * tape.step, Less(inner, TickLength(ago)))

\* cursor[i]: where the axis is free after the ticks of the first i days.
Cursor(tape, inner) ==
  LET Placed(i, free) ==
        LET ago == tape.fit - i
            start == TickStart(tape, inner, ago)
        IN  /\ ago % 5 = 0
            /\ start >= free
            /\ start + TickLength(ago) + 1 <= TodayStart(tape, inner)
      cursor[i \in 0 .. tape.fit - 1] ==
        IF i = 0 THEN 0
        ELSE IF Placed(i, cursor[i - 1])
        THEN TickStart(tape, inner, tape.fit - i) + TickLength(tape.fit - i)
        ELSE cursor[i - 1]
  IN  cursor

(***************************************************************************)
(* The chart grid below the fleet table, scrolled by rows.                 *)
(***************************************************************************)

GridColumns(w) == IF w >= 100 THEN 2 ELSE 1
VisibleRows(h) == Most(h \div MIN_CHART_ROWS, 1)
TotalRows(w) == DivCeil(ChartCount, GridColumns(w))
ScrollShown(w, h, scroll) == Least(scroll, Less(TotalRows(w), VisibleRows(h)))

\* draw_grid: the charts on screen, by their place in CHARTS.
ChartsShown(w, h, scroll) ==
  LET first == ScrollShown(w, h, scroll)
  IN  {c \in 0 .. ChartCount - 1 : c \div GridColumns(w) \in first .. first + VisibleRows(h) - 1}

\* The height of a row of the grid, cut off where the area ends.
RowHeight(h, row) == Least(MIN_CHART_ROWS, h - row * MIN_CHART_ROWS)

(***************************************************************************)
(* An endpoint's view: heading, cards, lifetime line, and by panel mode.   *)
(***************************************************************************)

HeadHeight(h) == Least(3, h)
EndpointCardsHeight(w, h) ==
  Least(card_grid_height(w, FleetCards), ((Less(h, HeadHeight(h)) \div 3) \div CARD_H) * CARD_H)
LifeHeight(w, h) ==
  LET cards == EndpointCardsHeight(w, h)
  IN  IF cards > 0 /\ Less(h, HeadHeight(h)) > cards + 1 THEN 1 ELSE 0
PanelHeight(w, h) == h - HeadHeight(h) - EndpointCardsHeight(w, h) - LifeHeight(w, h)

ChartColumns(w) == CASE w >= 150 -> 3
                     [] 100 <= w /\ w < 150 -> 2
                     [] OTHER -> 1

\* grid_cells: rows of charts, each at least MIN_CHART_H high.
GridRows(h, cols, n) == Least(h \div MIN_CHART_H, DivCeil(n, cols))

\* draw_chart_band: the detail band has only what the charts leave.
LowerHeight(w, h) ==
  LET needed == DivCeil(SpecCount, ChartColumns(w)) * MIN_CHART_H
  IN  IF h >= needed + MIN_LOWER_H THEN Clamp(h - needed, MIN_LOWER_H, MAX_LOWER_H) ELSE 0

\* draw_lower: percentiles, server info, and the log or the events.
LowerPanes(w, log) ==
  {"percentiles"} \cup (IF w >= 110 THEN {"info"} ELSE {})
                  \cup (IF w < 150 THEN {} ELSE IF log THEN {"requests"} ELSE {"events"})

\* The panes of an endpoint's view, for its panel mode.
Panes(w, h, mode, log) ==
  LET body == PanelHeight(w, h)
  IN  CASE mode = "overview" ->
             {"charts"} \cup (IF LowerHeight(w, body) > 0 THEN LowerPanes(w, log) ELSE {})
        [] mode = "requests" -> {"requests"} \cup (IF w >= 100 THEN {"rates"} ELSE {})
        [] OTHER -> {"tables"} \cup (IF body >= 14 THEN {"trends"} ELSE {})

(***************************************************************************)
(* The layout at one size w x h of the body, with m endpoints.             *)
(***************************************************************************)

FleetSections(w, h, m) == draw_body(h - FleetCardsHeight(w, h, m), m)

\* The sections fit, and the cards cost none of them.  Of the table they take
\* rows only where it is longer than half of the body below them, and at most
\* half of their own height.
CardsAreAdditive(w, h, m) ==
  LET with == FleetSections(w, h, m)
      without == draw_body(h, m)
  IN  /\ FleetCardsHeight(w, h, m) + with.table + with.usage + with.grid = h
      /\ without.grid > 0 => with.grid >= MIN_CHART_ROWS
      /\ without.usage > 0 => with.usage >= MIN_USAGE_ROWS
      /\ without.table - with.table <= CARD_H \div 2
      /\ with.table < without.table => without.table > (h - CARD_H) \div 2

\* A line more never takes a section away.
SectionsComeInOrder(w, h, m) ==
  LET small == FleetSections(w, h, m)
      large == FleetSections(w, h + 1, m)
  IN  /\ small.grid > 0 => small.usage > 0
      /\ small.grid > 0 => large.grid > 0
      /\ small.usage > 0 => large.usage > 0
      /\ FleetCardsHeight(w, h, m) <= FleetCardsHeight(w, h + 1, m)

\* The detail band of an endpoint costs no row of charts, and all fits.
DetailIsFree(w, h) ==
  LET body == PanelHeight(w, h)
      charts == body - LowerHeight(w, body)
  IN  /\ HeadHeight(h) + EndpointCardsHeight(w, h) + LifeHeight(w, h) <= h
      /\ GridRows(charts, ChartColumns(w), SpecCount) = GridRows(body, ChartColumns(w), SpecCount)
=============================================================================
