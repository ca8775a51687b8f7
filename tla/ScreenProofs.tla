---------------------------- MODULE ScreenProofs ----------------------------
(***************************************************************************)
(* What the screen shows, for every configuration, terminal and fleet, and *)
(* any number of events: the layout of a terminal of any size, the frame   *)
(* that is the one of the present state.                                   *)
(*                                                                         *)
(* The layout: each height is a function of the one above it that never    *)
(* falls, and never grows by more than its argument does, as a line is     *)
(* added; so what is left grows too, and a test that it passed it still    *)
(* passes.                                                                 *)
(*                                                                         *)
(* FrameIsCurrent is not inductive: when a pause ends within 90 ms of a    *)
(* frame, nothing is drawn, and it has to be known that the frame is young.*)
(***************************************************************************)
EXTENDS Screen, FoldTheorems, SequenceTheorems

-----------------------------------------------------------------------------
(* The fleet view.                                                         *)

LEMMA TableFits ==
  ASSUME NEW h \in Nat, NEW m \in Nat
  PROVE  /\ TableHeight(h, m) \in Nat
         /\ Rest(h, m) \in Nat /\ Rest(h, m) <= h
         /\ h > 0 => TableHeight(h, m) <= h /\ Rest(h, m) = h - TableHeight(h, m)
  BY SMT DEF TableHeight, Rest, Least, Most, Less

\* A line more goes to the table or to the rest; of four, the table takes at
\* most two.
LEMMA RestGrows ==
  ASSUME NEW h \in Nat, NEW m \in Nat, NEW k \in {1, 4}
  PROVE  /\ Rest(h, m) <= Rest(h + k, m)
         /\ Rest(h + k, m) <= Rest(h, m) + k
  BY SMT DEF TableHeight, Rest, Least, Most, Less

\* Of four lines more the table takes two at most, and none if it has a row for
\* everyone in half of the others.
LEMMA TableGrows ==
  ASSUME NEW h \in Nat, NEW m \in Nat
  PROVE  /\ TableHeight(h + 4, m) - TableHeight(h, m) <= 2
         /\ TableHeight(h, m) < TableHeight(h + 4, m) => TableHeight(h + 4, m) > h \div 2
  BY SMT DEF TableHeight, Least, Most

LEMMA UsageBounds ==
  ASSUME NEW r \in Nat
  PROVE  UsageHeight(r) \in Nat /\ MIN_USAGE_ROWS <= UsageHeight(r)
  BY SMT DEF UsageHeight, Clamp, Least, Most, MIN_USAGE_ROWS

\* The usage bars take at most every third line.
LEMMA UsageGrows ==
  ASSUME NEW r \in Nat, NEW s \in Nat, r <= s
  PROVE  /\ UsageHeight(r) <= UsageHeight(s)
         /\ r - UsageHeight(r) <= s - UsageHeight(s)
  BY SMT DEF UsageHeight, Clamp, Least, Most, MIN_USAGE_ROWS

\* Where cards are drawn, the body below them is still that of a full stack.
LEMMA CardsLeaveRoom ==
  ASSUME NEW w \in Nat, NEW h \in Nat, NEW m \in Nat, FleetCardsHeight(w, h, m) # 0
  PROVE  /\ FleetCardsHeight(w, h, m) = CARD_H
         /\ h - CARD_H \in Nat
         /\ FitsGrid(Rest(h - CARD_H, m))
<1>1. /\ FleetCardsHeight(w, h, m) = CARD_H
      /\ Rest(h, m) >= UsageHeight(Rest(h, m)) + MIN_CHART_ROWS + CARD_H
  BY SMT DEF FleetCardsHeight, CARD_H
<1>2. Rest(h, m) \in Nat /\ Rest(h, m) <= h
  BY TableFits
<1>3. h - CARD_H \in Nat
  BY <1>1, <1>2, UsageBounds, SMT DEF CARD_H, MIN_CHART_ROWS, MIN_USAGE_ROWS
<1> DEFINE low == h - CARD_H
<1>4. /\ Rest(low, m) \in Nat
      /\ Rest(low, m) <= Rest(h, m)
      /\ Rest(h, m) <= Rest(low, m) + CARD_H
  <2>1. low + 4 = h /\ low \in Nat
    BY <1>3, SMT DEF CARD_H
  <2>2. Rest(low, m) <= Rest(low + 4, m) /\ Rest(low + 4, m) <= Rest(low, m) + 4
    BY <2>1, RestGrows
  <2> QED BY <2>1, <2>2, TableFits DEF CARD_H
<1>5. UsageHeight(Rest(low, m)) <= UsageHeight(Rest(h, m))
  BY <1>2, <1>4, UsageGrows
<1>6. UsageHeight(Rest(low, m)) \in Nat /\ UsageHeight(Rest(h, m)) \in Nat
  BY <1>2, <1>4, UsageBounds
<1>7. FitsGrid(Rest(low, m))
  BY <1>1, <1>2, <1>4, <1>5, <1>6, SMT DEF FitsGrid, CARD_H, MIN_CHART_ROWS
<1> QED BY <1>1, <1>3, <1>7


LEMMA BodySections ==
  ASSUME NEW h \in Nat, NEW m \in Nat
  PROVE  LET body == draw_body(h, m) IN
         /\ {body.table, body.usage, body.grid} \subseteq Nat
         /\ body.table + body.usage + body.grid = h
         /\ body.grid > 0 <=> FitsGrid(Rest(h, m))
         /\ body.usage > 0 <=> Rest(h, m) >= MIN_USAGE_ROWS
         /\ body.grid > 0 => body.grid >= MIN_CHART_ROWS
         /\ body.usage > 0 => body.usage >= MIN_USAGE_ROWS
<1> DEFINE rest == Rest(h, m)
<1>1. rest \in Nat /\ rest <= h /\ TableHeight(h, m) \in Nat /\ (h > 0 => h = TableHeight(h, m) + rest)
  BY TableFits
<1>2. UsageHeight(rest) \in Nat /\ MIN_USAGE_ROWS <= UsageHeight(rest)
  BY <1>1, UsageBounds
<1> HIDE DEF rest
<1>3. CASE FitsGrid(rest)
  <2>1. draw_body(h, m) = [table |-> TableHeight(h, m), usage |-> UsageHeight(rest), grid |-> rest - UsageHeight(rest)]
    BY <1>3 DEF draw_body, rest
  <2>2. rest >= UsageHeight(rest) + MIN_CHART_ROWS
    BY <1>3 DEF FitsGrid
  <2> QED BY <1>1, <1>2, <1>3, <2>1, <2>2, SMT DEF MIN_USAGE_ROWS, MIN_CHART_ROWS, rest
<1>4. CASE ~ FitsGrid(rest) /\ rest >= MIN_USAGE_ROWS
  <2>1. draw_body(h, m) = [table |-> TableHeight(h, m), usage |-> rest, grid |-> 0]
    BY <1>4 DEF draw_body, rest
  <2> QED BY <1>1, <1>2, <1>4, <2>1, SMT DEF MIN_USAGE_ROWS, MIN_CHART_ROWS, rest
<1>5. CASE ~ FitsGrid(rest) /\ ~ (rest >= MIN_USAGE_ROWS)
  <2>1. draw_body(h, m) = [table |-> h, usage |-> 0, grid |-> 0]
    BY <1>5 DEF draw_body, rest
  <2> QED BY <1>1, <1>2, <1>5, <2>1, SMT DEF MIN_USAGE_ROWS, MIN_CHART_ROWS, rest
<1> QED BY <1>3, <1>4, <1>5


\* Whatever the width: the sections are those of draw_body, at the same height
\* or at one where the whole stack is drawn.
LEMMA NoCards ==
  ASSUME NEW w \in Nat, NEW h \in Nat, NEW m \in Nat, FleetCardsHeight(w, h, m) = 0
  PROVE  FleetSections(w, h, m) = draw_body(h, m)
<1>1. h - 0 = h
  BY SMT
<1> QED BY <1>1 DEF FleetSections

LEMMA WithCards ==
  ASSUME NEW w \in Nat, NEW h \in Nat, NEW m \in Nat, FleetCardsHeight(w, h, m) # 0
  PROVE  LET body == FleetSections(w, h, m) IN
         /\ FleetCardsHeight(w, h, m) = CARD_H
         /\ body = draw_body(h - CARD_H, m)
         /\ h - CARD_H \in Nat
         /\ body.grid >= MIN_CHART_ROWS
         /\ body.usage >= MIN_USAGE_ROWS
<1>1. /\ FleetCardsHeight(w, h, m) = CARD_H
      /\ h - CARD_H \in Nat
      /\ FitsGrid(Rest(h - CARD_H, m))
  BY CardsLeaveRoom
<1> DEFINE rest == Rest(h - CARD_H, m)
<1>2. rest \in Nat
  BY <1>1, TableFits
<1>3. rest >= MIN_USAGE_ROWS
  BY <1>1, <1>2, UsageBounds, SMT DEF FitsGrid, MIN_CHART_ROWS, MIN_USAGE_ROWS
<1>4. FleetSections(w, h, m) = draw_body(h - CARD_H, m)
  BY <1>1 DEF FleetSections
<1> QED BY <1>1, <1>3, <1>4, BodySections

\* How far the card tier is additive (ui/fleet.rs:22): at any size the sections
\* fill the body exactly, cards take neither the usage bars nor the chart grid
\* away and leave each of them its least height, and of the table they take two
\* rows at most, which it lacks only if it is longer than half of what the cards
\* leave.
THEOREM CardsCostNothing ==
  \A w, h, m \in Nat : CardsAreAdditive(w, h, m)
<1> SUFFICES ASSUME NEW w \in Nat, NEW h \in Nat, NEW m \in Nat
             PROVE  CardsAreAdditive(w, h, m)
  OBVIOUS
<1>1. CASE FleetCardsHeight(w, h, m) = 0
  <2>1. FleetSections(w, h, m) = draw_body(h, m)
    BY <1>1, NoCards
  <2>2. LET body == draw_body(h, m) IN 0 + body.table + body.usage + body.grid = h
    BY BodySections, SMT
  <2>3. draw_body(h, m).table \in Nat
    BY BodySections
  <2> DEFINE table == draw_body(h, m).table
  <2>4. table - table <= CARD_H \div 2 /\ ~ (table < table)
    <3> HIDE DEF table
    <3> QED BY <2>3, SMT DEF CARD_H, table
  <2> QED BY <1>1, <2>1, <2>2, <2>4, BodySections DEF CardsAreAdditive
<1>2. CASE FleetCardsHeight(w, h, m) # 0
  <2>1. /\ FleetSections(w, h, m) = draw_body(h - CARD_H, m)
        /\ FleetCardsHeight(w, h, m) = CARD_H
        /\ h - CARD_H \in Nat
        /\ FleetSections(w, h, m).grid >= MIN_CHART_ROWS
        /\ FleetSections(w, h, m).usage >= MIN_USAGE_ROWS
    BY <1>2, WithCards
  <2>2. LET body == draw_body(h - CARD_H, m) IN
          /\ {body.table, body.usage, body.grid} \subseteq Nat
          /\ body.table + body.usage + body.grid = h - CARD_H
    BY <2>1, BodySections
  <2>3. LET body == draw_body(h - CARD_H, m) IN
          CARD_H + body.table + body.usage + body.grid = h
    BY <2>2, SMT DEF CARD_H
  <2>4. /\ FleetSections(w, h, m).table = TableHeight(h - CARD_H, m)
        /\ draw_body(h, m).table = TableHeight(h, m)
    <3>1. FitsGrid(Rest(h - CARD_H, m))
      BY <1>2, CardsLeaveRoom
    <3>2. FitsGrid(Rest(h, m))
      <4>1. UsageHeight(Rest(h, m)) \in Nat /\ Rest(h, m) \in Nat
        BY TableFits, UsageBounds
      <4> QED BY <1>2, <4>1, SMT DEF FleetCardsHeight, FitsGrid, CARD_H, MIN_CHART_ROWS
    <3> QED BY <2>1, <3>1, <3>2 DEF draw_body
  <2>5. /\ TableHeight(h, m) - TableHeight(h - CARD_H, m) <= CARD_H \div 2
        /\ TableHeight(h - CARD_H, m) < TableHeight(h, m) => TableHeight(h, m) > (h - CARD_H) \div 2
    <3>1. PICK low \in Nat : low = h - CARD_H /\ h = low + 4
      BY <2>1, SMT DEF CARD_H
    <3>2. /\ TableHeight(low + 4, m) - TableHeight(low, m) <= 2
          /\ TableHeight(low, m) < TableHeight(low + 4, m) => TableHeight(low + 4, m) > low \div 2
      BY TableGrows
    <3>3. CARD_H \div 2 = 2
      BY SMT DEF CARD_H
    <3> QED BY <3>1, <3>2, <3>3
  <2> QED BY <2>1, <2>3, <2>4, <2>5 DEF CardsAreAdditive
<1> QED BY <1>1, <1>2

\* With cards or without, what is drawn depends on what the table leaves.
LEMMA SectionsDrawn ==
  ASSUME NEW w \in Nat, NEW h \in Nat, NEW m \in Nat
  PROVE  /\ FleetSections(w, h, m).grid > 0 <=> FitsGrid(Rest(h, m))
         /\ FleetSections(w, h, m).usage > 0 <=> Rest(h, m) >= MIN_USAGE_ROWS
<1> DEFINE body == FleetSections(w, h, m)
<1>1. CASE FleetCardsHeight(w, h, m) = 0
  BY <1>1, NoCards, BodySections
<1>2. CASE FleetCardsHeight(w, h, m) # 0
  <2>1. /\ body.usage >= MIN_USAGE_ROWS /\ body.grid >= MIN_CHART_ROWS
        /\ body = draw_body(h - CARD_H, m) /\ h - CARD_H \in Nat
    BY <1>2, WithCards
  <2>2. body.usage \in Nat /\ body.grid \in Nat
    BY <2>1, BodySections
  <2>3. Rest(h, m) \in Nat /\ UsageHeight(Rest(h, m)) \in Nat /\ UsageHeight(Rest(h, m)) >= MIN_USAGE_ROWS
    BY TableFits, UsageBounds
  <2>4. FitsGrid(Rest(h, m)) /\ Rest(h, m) >= MIN_USAGE_ROWS
    BY <1>2, <2>3, SMT DEF FleetCardsHeight, FitsGrid, CARD_H, MIN_CHART_ROWS, MIN_USAGE_ROWS
  <2> HIDE DEF body
  <2>5. body.usage > 0 /\ body.grid > 0
    BY <2>1, <2>2, SMT DEF MIN_USAGE_ROWS, MIN_CHART_ROWS
  <2> QED BY <2>4, <2>5 DEF body
<1> QED BY <1>1, <1>2

\* A terminal one line higher shows every section it showed before, and the
\* chart grid never comes without the usage bars.
THEOREM SectionsStay ==
  \A w, h, m \in Nat : SectionsComeInOrder(w, h, m)
<1> SUFFICES ASSUME NEW w \in Nat, NEW h \in Nat, NEW m \in Nat
             PROVE  SectionsComeInOrder(w, h, m)
  OBVIOUS
<1>1. /\ Rest(h, m) \in Nat /\ Rest(h + 1, m) \in Nat
      /\ Rest(h, m) <= Rest(h + 1, m)
  BY TableFits, RestGrows
<1>2. /\ UsageHeight(Rest(h, m)) \in Nat /\ UsageHeight(Rest(h + 1, m)) \in Nat
      /\ UsageHeight(Rest(h, m)) >= MIN_USAGE_ROWS
      /\ Rest(h, m) - UsageHeight(Rest(h, m)) <= Rest(h + 1, m) - UsageHeight(Rest(h + 1, m))
  BY <1>1, UsageBounds, UsageGrows
<1>3. /\ FitsGrid(Rest(h, m)) => FitsGrid(Rest(h + 1, m))
      /\ FitsGrid(Rest(h, m)) => Rest(h, m) >= MIN_USAGE_ROWS
  BY <1>1, <1>2, SMT DEF FitsGrid, MIN_CHART_ROWS, MIN_USAGE_ROWS
<1>4. Rest(h, m) >= MIN_USAGE_ROWS => Rest(h + 1, m) >= MIN_USAGE_ROWS
  BY <1>1, SMT DEF MIN_USAGE_ROWS
<1>5. FleetCardsHeight(w, h, m) <= FleetCardsHeight(w, h + 1, m)
  BY <1>1, <1>2, SMT DEF FleetCardsHeight, CARD_H, MIN_CHART_ROWS
<1>6. h + 1 \in Nat
  BY SMT
<1> QED BY <1>3, <1>4, <1>5, <1>6, SectionsDrawn DEF SectionsComeInOrder

-----------------------------------------------------------------------------
(* An endpoint's view.                                                     *)

LEMMA GridHeight ==
  ASSUME NEW w \in Nat
  PROVE  card_grid_height(w, FleetCards) \in Nat
  BY SMT DEF card_grid_height, columns, DivCeil, CARD_H, FleetCards

LEMMA HeadAndCardsFit ==
  ASSUME NEW w \in Nat, NEW h \in Nat
  PROVE  /\ EndpointCardsHeight(w, h) \in Nat
         /\ LifeHeight(w, h) \in Nat
         /\ HeadHeight(h) + EndpointCardsHeight(w, h) + LifeHeight(w, h) <= h
<1>1. HeadHeight(h) \in Nat /\ HeadHeight(h) <= h /\ Less(h, HeadHeight(h)) = h - HeadHeight(h)
  BY SMT DEF HeadHeight, Least, Less
<1>2. PICK rest \in Nat : rest = Less(h, HeadHeight(h)) /\ h = HeadHeight(h) + rest
  BY <1>1, SMT
<1>3. PICK most \in Nat : most = ((rest \div 3) \div CARD_H) * CARD_H /\ most <= rest
  BY SMT DEF CARD_H
<1>4. EndpointCardsHeight(w, h) = Least(card_grid_height(w, FleetCards), most)
  BY <1>2, <1>3 DEF EndpointCardsHeight
<1>5. EndpointCardsHeight(w, h) \in Nat /\ EndpointCardsHeight(w, h) <= rest
  BY <1>3, <1>4, GridHeight, SMT DEF Least
<1>6. LifeHeight(w, h) \in {0, 1} /\ (LifeHeight(w, h) = 1 => rest > EndpointCardsHeight(w, h) + 1)
  BY <1>2, <1>5, SMT DEF LifeHeight
<1> QED BY <1>1, <1>2, <1>5, <1>6, SMT

\* The detail band of an endpoint's view costs no row of charts (the comment
\* in draw_chart_band, ui/endpoint.rs), and heading, cards and lifetime line
\* leave what is below them a height that is not negative.
THEOREM DetailCostsNothing ==
  \A w, h \in Nat : DetailIsFree(w, h)
<1> SUFFICES ASSUME NEW w \in Nat, NEW h \in Nat
             PROVE  DetailIsFree(w, h)
  OBVIOUS
<1>1. HeadHeight(h) + EndpointCardsHeight(w, h) + LifeHeight(w, h) <= h
  BY HeadAndCardsFit
<1>2. PanelHeight(w, h) \in Nat
  <2>1. HeadHeight(h) \in Nat
    BY SMT DEF HeadHeight, Least
  <2>2. EndpointCardsHeight(w, h) \in Nat /\ LifeHeight(w, h) \in Nat
    BY HeadAndCardsFit
  <2> QED BY <1>1, <2>1, <2>2, SMT DEF PanelHeight
<1> DEFINE body == PanelHeight(w, h)
           rows == DivCeil(SpecCount, ChartColumns(w))
<1>3. rows \in 1 .. 6
  BY SMT DEF DivCeil, SpecCount, ChartColumns
<1> HIDE DEF body, rows
<1>4. GridRows(body - LowerHeight(w, body), ChartColumns(w), SpecCount) = GridRows(body, ChartColumns(w), SpecCount)
  <2>1. CASE body < rows * MIN_CHART_H + MIN_LOWER_H
    <3>1. LowerHeight(w, body) = 0
      BY <2>1, <1>2, <1>3, SMT DEF LowerHeight, body, rows, MIN_CHART_H, MIN_LOWER_H
    <3>2. body - 0 = body
      BY <1>2, SMT DEF body
    <3> QED BY <3>1, <3>2
  <2>2. CASE body >= rows * MIN_CHART_H + MIN_LOWER_H
    <3>1. /\ body - LowerHeight(w, body) \in Nat
          /\ body - LowerHeight(w, body) >= rows * MIN_CHART_H
          /\ body >= rows * MIN_CHART_H
      BY <2>2, <1>2, <1>3, SMT DEF LowerHeight, body, rows, Clamp, Least, Most, MIN_CHART_H, MIN_LOWER_H, MAX_LOWER_H
    <3>2. ASSUME NEW x \in Nat, x >= rows * MIN_CHART_H
          PROVE  GridRows(x, ChartColumns(w), SpecCount) = rows
      BY <3>2, <1>3, SMT DEF GridRows, Least, rows, MIN_CHART_H
    <3> QED BY <1>2, <3>1, <3>2 DEF body
  <2> QED BY <1>2, <1>3, <2>1, <2>2, SMT DEF body, MIN_CHART_H, MIN_LOWER_H
<1> QED BY <1>1, <1>4 DEF DetailIsFree, body

-----------------------------------------------------------------------------
(* The grid of charts, and the tape of a usage chart.                      *)

\* The first row that is shown when the scroll position is a row: that row is
\* among those below it.
LEMMA RowIsReachable ==
  ASSUME NEW total \in Nat, NEW visible \in Nat \ {0}, NEW row \in Nat, row < total
  PROVE  LET first == Least(row, Less(total, visible))
         IN  /\ first \in Nat
             /\ row \in first .. first + visible - 1
  BY SMT DEF Least, Less

LEMMA GridReachable ==
  ASSUME NEW w \in Nat, NEW h \in Nat, h > 0
  PROVE  EveryChartIsReachable(w, h)
<1> DEFINE cols == GridColumns(w)
           rows == VisibleRows(h)
<1>1. cols \in {1, 2} /\ TotalRows(w) = DivCeil(ChartCount, cols)
  BY SMT DEF GridColumns, TotalRows
<1>2. rows \in Nat \ {0}
  BY SMT DEF VisibleRows, Most, MIN_CHART_ROWS
<1>3. \A c \in 0 .. ChartCount - 1 : /\ c \div cols \in Nat /\ c \div cols < TotalRows(w)
                                     /\ c \div cols \in 0 .. MaxScroll
  <2>1. CASE cols = 1
    BY <1>1, <2>1, SMT DEF ChartCount, DivCeil, MaxScroll
  <2>2. CASE cols = 2
    BY <1>1, <2>2, SMT DEF ChartCount, DivCeil, MaxScroll
  <2> QED BY <1>1, <2>1, <2>2
<1>4. TotalRows(w) \in Nat
  <2>1. CASE cols = 1
    BY <1>1, <2>1, SMT DEF ChartCount, DivCeil
  <2>2. CASE cols = 2
    BY <1>1, <2>2, SMT DEF ChartCount, DivCeil
  <2> QED BY <1>1, <2>1, <2>2
<1>5. \A c \in 0 .. ChartCount - 1 : c \in ChartsShown(w, h, c \div cols)
  <2> SUFFICES ASSUME NEW c \in 0 .. ChartCount - 1
               PROVE  c \in ChartsShown(w, h, c \div cols)
    OBVIOUS
  <2> DEFINE row == c \div cols
             first == ScrollShown(w, h, row)
  <2>1. row \in Nat /\ row < TotalRows(w)
    BY <1>3
  <2>2. row \in first .. first + rows - 1
    <3> HIDE DEF row, rows
    <3>1. row \in Least(row, Less(TotalRows(w), rows)) .. Least(row, Less(TotalRows(w), rows)) + rows - 1
      BY <1>2, <1>4, <2>1, RowIsReachable
    <3> QED BY <3>1 DEF ScrollShown, rows
  <2> QED BY <2>2 DEF ChartsShown
<1>6. UNION {ChartsShown(w, h, scroll) : scroll \in 0 .. MaxScroll} = 0 .. ChartCount - 1
  <2>1. \A scroll : ChartsShown(w, h, scroll) \subseteq 0 .. ChartCount - 1
    BY DEF ChartsShown
  <2>2. \A c \in 0 .. ChartCount - 1 : c \div cols \in 0 .. MaxScroll
    BY <1>3
  <2> HIDE DEF cols
  <2> QED BY <1>5, <2>1, <2>2
<1>7. \A row \in 0 .. VisibleRows(h) - 1 : RowHeight(h, row) > 0
  BY SMT DEF VisibleRows, RowHeight, Most, Least, MIN_CHART_ROWS
<1> QED BY <1>6, <1>7 DEF EveryChartIsReachable

\* The bars of a tape, a cell or more apart, fit side by side.
LEMMA TapeFits ==
  ASSUME NEW inner \in Nat \ {0}, NEW days \in Nat \ {0}
  PROVE  LET tape == Tape(inner, days)
         IN  /\ tape.fit \in 1 .. USAGE_WINDOW_DAYS
             /\ tape.bar \in Nat /\ tape.gap \in Nat /\ tape.step \in Nat
             /\ tape.fit * tape.step - tape.gap <= inner
<1> DEFINE per == Most(inner \div USAGE_WINDOW_DAYS, 1)
           bar == IF per >= 3 THEN per - 1 ELSE per
           gap == IF per >= 3 THEN 1 ELSE 0
           fit == Least(Clamp(inner \div per, 1, USAGE_WINDOW_DAYS), days)
           tape == Tape(inner, days)
<1>1. per \in Nat \ {0}
  BY SMT DEF Most, USAGE_WINDOW_DAYS
<1>2. bar \in Nat /\ gap \in Nat /\ bar + gap = per
  <2> HIDE DEF per
  <2> QED BY <1>1, SMT
<1>3. tape = [bar |-> bar, gap |-> gap, step |-> per, fit |-> fit]
  <2>1. tape = [bar |-> bar, gap |-> gap, step |-> bar + gap,
                fit |-> Least(Clamp(inner \div (bar + gap), 1, USAGE_WINDOW_DAYS), days)]
    BY DEF Tape
  <2> HIDE DEF tape, per, bar, gap
  <2> QED BY <1>2, <2>1
<1>4. fit \in 1 .. 30 /\ fit * per <= inner
  <2>1. CASE inner < 60
    <3>1. per = 1
      BY <2>1, SMT DEF Most, USAGE_WINDOW_DAYS
    <3>2. inner \div per = inner
      BY <3>1, SMT
    <3> HIDE DEF per
    <3> QED BY <3>1, <3>2, SMT DEF Least, Clamp, Most, USAGE_WINDOW_DAYS
  <2>2. CASE inner >= 60
    <3>1. per = inner \div 30
      BY <2>2, SMT DEF Most, USAGE_WINDOW_DAYS
    <3>2. inner \div per \in Int
      <4> HIDE DEF per
      <4> QED BY <1>1, SMT
    <3>3. fit \in 1 .. 30
      <4> DEFINE q == inner \div per
      <4> HIDE DEF q
      <4> QED BY <3>2, SMT DEF Least, Clamp, Most, USAGE_WINDOW_DAYS, q
    <3>4. 30 * per <= inner
      BY <3>1, SMT
    <3>5. ASSUME NEW f \in 1 .. 30 PROVE f * per <= 30 * per
      <4> HIDE DEF per
      <4> QED BY <1>1, SMT
    <3>6. fit * per \in Nat
      <4> HIDE DEF per, fit
      <4> QED BY <1>1, <3>3, SMT
    <3> HIDE DEF per, fit
    <3> QED BY <1>1, <3>3, <3>4, <3>5, <3>6, SMT
  <2> QED BY <2>1, <2>2
<1>5. fit * per - gap <= inner
  <2>1. fit * per \in Nat
    <3> HIDE DEF fit, per
    <3> QED BY <1>1, <1>4, SMT
  <2> DEFINE p == fit * per
  <2> HIDE DEF p, per, gap
  <2> QED BY <1>2, <1>4, <2>1, SMT DEF p
<1> HIDE DEF tape, fit, per, bar, gap
<1> QED BY <1>1, <1>2, <1>3, <1>4, <1>5 DEF USAGE_WINDOW_DAYS, tape

\* What is placed on the axis, from the left, always ends before "today": a tick
\* is placed only if it does.
LEMMA CursorBeforeToday ==
  ASSUME NEW inner \in Nat \ {0}, NEW days \in Nat \ {0}
  PROVE  LET tape == Tape(inner, days)
         IN  \A i \in 1 .. tape.fit - 1 : Cursor(tape, inner)[i] < Most(TodayStart(tape, inner), 1)
<1> DEFINE tape == Tape(inner, days)
           last == tape.fit - 1
           D == 0 .. last
           Placed(i, free) ==
             /\ (tape.fit - i) % 5 = 0
             /\ TickStart(tape, inner, tape.fit - i) >= free
             /\ TickStart(tape, inner, tape.fit - i) + TickLength(tape.fit - i) + 1 <= TodayStart(tape, inner)
           After(i, free) ==
             IF Placed(i, free) THEN TickStart(tape, inner, tape.fit - i) + TickLength(tape.fit - i) ELSE free
           top == Most(TodayStart(tape, inner), 1)
           V == {v \in Int : v < top}
           step == [p \in (1 .. last) \X V |-> After(p[1], p[2])]
           P(c) == c = [i \in D |-> IF i = 0 THEN 0
                                    ELSE IF Placed(i, c[i - 1])
                                    THEN TickStart(tape, inner, tape.fit - i) + TickLength(tape.fit - i)
                                    ELSE c[i - 1]]
           C == CHOOSE c : P(c)
<1>1. tape.fit \in 1 .. USAGE_WINDOW_DAYS /\ tape.bar \in Nat /\ tape.step \in Nat
  BY TapeFits
<1>2. last \in Nat
  <2> HIDE DEF tape
  <2> QED BY <1>1 DEF USAGE_WINDOW_DAYS
<1>3. top \in Nat /\ top > 0 /\ TodayStart(tape, inner) <= top /\ TodayStart(tape, inner) \in Int
  <2>1. (tape.fit - 1) * tape.step \in Int
    <3> HIDE DEF tape
    <3> QED BY <1>1, SMT DEF USAGE_WINDOW_DAYS
  <2> DEFINE product == (tape.fit - 1) * tape.step
  <2>2. TodayStart(tape, inner) = Less(Least(product + tape.bar, inner), 5)
    BY DEF TodayStart
  <2> HIDE DEF product, tape
  <2> QED BY <1>1, <2>1, <2>2, SMT DEF Less, Least, Most, product
<1>4. 0 \in V
  <2> HIDE DEF top
  <2> QED BY <1>3
<1>5. \A i \in 1 .. last : TickStart(tape, inner, tape.fit - i) \in Int
  <2> SUFFICES ASSUME NEW i \in 1 .. last PROVE TickStart(tape, inner, tape.fit - i) \in Int
    OBVIOUS
  <2> DEFINE ago == tape.fit - i
             product == (tape.fit - 1 - ago) * tape.step
  <2> HIDE DEF tape
  <2>1. ago \in Int /\ tape.fit - 1 - ago \in Int
    BY <1>1 DEF USAGE_WINDOW_DAYS
  <2>2. product \in Int
    <3> HIDE DEF ago
    <3> QED BY <1>1, <2>1, SMT
  <2>3. TickStart(tape, inner, ago) = Least(product, Less(inner, TickLength(ago)))
    BY DEF TickStart
  <2> HIDE DEF product, ago
  <2>4. TickStart(tape, inner, ago) \in Int
    BY <2>2, <2>3, SMT DEF Least, Less, TickLength
  <2> QED BY <2>4 DEF ago
<1>6. \A i \in 1 .. last, v \in V : After(i, v) \in V
  <2> SUFFICES ASSUME NEW i \in 1 .. last, NEW v \in V PROVE After(i, v) \in V
    OBVIOUS
  <2>1. CASE Placed(i, v)
    <3> DEFINE start == TickStart(tape, inner, tape.fit - i)
               length == TickLength(tape.fit - i)
               today == TodayStart(tape, inner)
    <3>1. start \in Int /\ length \in Int /\ start + length + 1 <= today
      BY <1>5, <2>1 DEF TickLength
    <3>2. After(i, v) = start + length
      BY <2>1
    <3>3. start + length \in Int /\ start + length < top
      <4> HIDE DEF start, length, today, top
      <4> QED BY <1>3, <3>1 DEF today
    <3> HIDE DEF start, length, top, After
    <3> QED BY <3>2, <3>3
  <2>2. CASE ~ Placed(i, v)
    <3>1. After(i, v) = v
      BY <2>2
    <3> HIDE DEF After, V
    <3> QED BY <3>1
  <2> QED BY <2>1, <2>2
<1>7. step \in [(1 .. last) \X V -> V]
  <2> HIDE DEF After, V, last
  <2> QED BY <1>6
<1>8. PICK c \in [D -> V] : IsChain(c, step, 0, last)
  <2> HIDE DEF step, V, last
  <2> QED BY <1>2, <1>4, <1>7, ChainExists DEF D
<1>9. P(c)
  <2>1. \A i \in 1 .. last : c[i - 1] \in V
    <3> HIDE DEF V, last
    <3> QED BY <1>2, <1>8 DEF D
  <2>2. \A i \in 1 .. last : step[<<i, c[i - 1]>>] = After(i, c[i - 1])
    <3> HIDE DEF V, last, After
    <3> QED BY <2>1
  <2>3. \A i \in D : c[i] = IF i = 0 THEN 0 ELSE After(i, c[i - 1])
    <3> SUFFICES ASSUME NEW i \in D PROVE c[i] = IF i = 0 THEN 0 ELSE After(i, c[i - 1])
      OBVIOUS
    <3>1. c[i] = IF i = 0 THEN 0 ELSE step[<<i, c[i - 1]>>]
      <4> HIDE DEF step, last
      <4> QED BY <1>8 DEF IsChain
    <3>2. i = 0 \/ i \in 1 .. last
      <4> HIDE DEF last
      <4> QED BY <1>2
    <3> HIDE DEF step, last, After
    <3> QED BY <2>2, <3>1, <3>2
  <2>4. c = [i \in D |-> c[i]]
    BY <1>8
  <2>5. c = [i \in D |-> IF i = 0 THEN 0 ELSE After(i, c[i - 1])]
    <3> HIDE DEF After, D
    <3> QED BY <2>3, <2>4
  <2> HIDE DEF Placed
  <2> QED BY <2>5
<1>10. P(C)
  <2> HIDE DEF P
  <2> QED BY <1>9
<1>11. Cursor(tape, inner) = C
  BY DEF Cursor
<1>12. C[0] = 0 /\ \A i \in 1 .. last : C[i] = After(i, C[i - 1])
  <2> HIDE DEF Placed, C
  <2>1. 0 \in D /\ \A i \in 1 .. last : i \in D /\ i # 0
    <3> HIDE DEF last
    <3> QED BY <1>2
  <2> HIDE DEF D
  <2> QED BY <1>10, <2>1
<1> HIDE DEF C, P, step, After
<1>13. \A i \in 1 .. last : C[i] \in V
  <2> DEFINE T == {i \in 0 .. last : C[i] \notin V}
  <2>1. ASSUME T # {} PROVE FALSE
    <3>1. PICK i \in T : \A m \in T : i <= m
      <4>1. T \in SUBSET Nat
        OBVIOUS
      <4> HIDE DEF T
      <4> QED BY <2>1, <4>1, LeastNatural
    <3>2. i # 0
      BY <1>4, <1>12
    <3>3. i \in 1 .. last /\ i - 1 \in 0 .. last /\ ~ (i <= i - 1)
      <4> HIDE DEF last, V
      <4> QED BY <1>2, <3>2
    <3>4. C[i - 1] \in V
      <4> HIDE DEF last, V
      <4> QED BY <3>1, <3>3
    <3>5. C[i] = After(i, C[i - 1])
      BY <1>12, <3>3
    <3> HIDE DEF V, last
    <3> QED BY <1>6, <3>1, <3>3, <3>4, <3>5
  <2>2. \A i \in 1 .. last : i \in 0 .. last
    <3> HIDE DEF last
    <3> QED BY <1>2
  <2> HIDE DEF V, last
  <2> QED BY <2>1, <2>2
<1> QED BY <1>11, <1>13

\* At any size and with any number of endpoints.
LEMMA SizesAreSound ==
  ASSUME NEW m \in Nat, NEW s, {s.w, s.h} \subseteq Nat
  PROVE  SizeIsSound(s, m)
<1> DEFINE h == BodyHeight(s.h)
           grid == FleetSections(s.w, h, m).grid
           cell == UsageCell(s.w, h, 1).w
<1>1. s.w \in Nat /\ s.h \in Nat
  OBVIOUS
<1>2. h \in Nat
  BY <1>1, SMT DEF BodyHeight, Less
<1>3. grid \in Nat
  <2>1. FleetCardsHeight(s.w, h, m) = 0 \/ FleetCardsHeight(s.w, h, m) # 0
    OBVIOUS
  <2>2. CASE FleetCardsHeight(s.w, h, m) = 0
    BY <1>1, <1>2, <2>2, NoCards, BodySections
  <2>3. CASE FleetCardsHeight(s.w, h, m) # 0
    <3>1. FleetSections(s.w, h, m) = draw_body(h - CARD_H, m) /\ h - CARD_H \in Nat
      BY <1>1, <1>2, <2>3, WithCards
    <3> QED BY <3>1, BodySections
  <2> QED BY <2>1, <2>2, <2>3
<1>4. cell \in Nat
  <2>1. CASE s.w >= 100
    BY <1>1, <2>1, SMT DEF UsageCell
  <2>2. CASE ~ (s.w >= 100)
    BY <1>1, <2>2, SMT DEF UsageCell
  <2> QED BY <2>1, <2>2
<1>5. CardsAreAdditive(s.w, h, m) /\ SectionsComeInOrder(s.w, h, m) /\ DetailIsFree(s.w, h)
  <2> HIDE DEF h
  <2> QED BY <1>1, <1>2, CardsCostNothing, SectionsStay, DetailCostsNothing
<1>6. grid > 0 => EveryChartIsReachable(s.w, grid)
  <2> HIDE DEF grid
  <2> QED BY <1>1, <1>3, GridReachable
<1>7. \A width \in {cell, cell + 1} :
        Less(width, 2) > 0 => \A days \in {1, 7, USAGE_WINDOW_DAYS} : BarsFit(Less(width, 2), days)
  <2> HIDE DEF cell
  <2> SUFFICES ASSUME NEW width \in {cell, cell + 1}, Less(width, 2) > 0,
                      NEW days \in {1, 7, USAGE_WINDOW_DAYS}
               PROVE  BarsFit(Less(width, 2), days)
    OBVIOUS
  <2> DEFINE inner == Less(width, 2)
  <2>1. inner \in Nat \ {0}
    BY <1>4, SMT DEF Less
  <2>2. days \in Nat \ {0}
    BY DEF USAGE_WINDOW_DAYS
  <2> HIDE DEF inner
  <2>3. /\ Tape(inner, days).fit * Tape(inner, days).step - Tape(inner, days).gap <= inner
        /\ \A i \in 1 .. Tape(inner, days).fit - 1 :
             Cursor(Tape(inner, days), inner)[i] < Most(TodayStart(Tape(inner, days), inner), 1)
    BY <2>1, <2>2, TapeFits, CursorBeforeToday
  <2>4. BarsFit(inner, days)
    BY <2>3 DEF BarsFit
  <2> QED BY <2>4 DEF inner
<1> QED BY <1>5, <1>6, <1>7 DEF SizeIsSound

-----------------------------------------------------------------------------
(* Options and lists, and the settings a program starts from.              *)

LEMMA OptionHas ==
  ASSUME NEW S, NEW o \in Options(S), o # <<>>
  PROVE  o[1] \in S /\ o = <<o[1]>> /\ Len(o) = 1
<1>1. PICK m \in 0 .. 1 : o \in [1 .. m -> S]
  BY DEF Options
<1>2. o \in Seq(S)
  BY <1>1, SeqDef
<1>3. m # 0
  <2>1. ASSUME m = 0 PROVE o = <<>>
    <3>1. DOMAIN o = {} /\ o = [i \in {} |-> o[i]]
      BY <1>1, <2>1
    <3>2. o \in Seq({})
      BY <3>1, SeqDef
    <3> QED BY <1>2, <3>1, EmptySeq, LenProperties
  <2> QED BY <2>1
<1>4. m = 1 /\ 1 .. m = {1}
  BY <1>3
<1>5. DOMAIN o = {1} /\ o[1] \in S /\ o = [i \in 1 .. 1 |-> o[i]]
  BY <1>1, <1>4
<1> QED BY <1>2, <1>5, LenProperties

LEMMA NoneIsOption ==
  ASSUME NEW S
  PROVE  <<>> \in Options(S)
BY DEF Options

LEMMA SomeIsOption ==
  ASSUME NEW S, NEW x \in S
  PROVE  <<x>> \in Options(S) /\ <<x>> # <<>>
BY DEF Options

IsList(s) == s \in Seq(Range(s))

LEMMA ListIs ==
  ASSUME NEW s, NEW m \in Nat, DOMAIN s = 1 .. m, s = [i \in DOMAIN s |-> s[i]]
  PROVE  IsList(s) /\ Len(s) = m
<1>1. s \in [1 .. m -> Range(s)]
  BY DEF Range
<1>2. IsList(s)
  BY <1>1, SeqDef DEF IsList
<1>3. Len(s) \in Nat /\ DOMAIN s = 1 .. Len(s)
  BY <1>2, LenProperties DEF IsList
<1>4. ASSUME NEW k \in Nat, 1 .. k = 1 .. m PROVE k = m
  <2>1. k > m => k \in 1 .. k /\ k \notin 1 .. m
    OBVIOUS
  <2>2. m > k => m \in 1 .. m /\ m \notin 1 .. k
    OBVIOUS
  <2> QED BY <1>4, <2>1, <2>2
<1> QED BY <1>2, <1>3, <1>4

LEMMA ListHas ==
  ASSUME NEW s, IsList(s)
  PROVE  Len(s) \in Nat /\ DOMAIN s = 1 .. Len(s) /\ s = [i \in DOMAIN s |-> s[i]]
<1>1. s \in Seq(Range(s))
  BY DEF IsList
<1> HIDE DEF IsList
<1>2. Len(s) \in Nat /\ s \in [1 .. Len(s) -> Range(s)]
  BY <1>1, LenProperties
<1> QED BY <1>2

LEMMA Typed ==
  ASSUME NEW T, NEW s \in Seq(T)
  PROVE  IsList(s) /\ \A i \in DOMAIN s : s[i] \in T
<1>1. Len(s) \in Nat /\ s \in [1 .. Len(s) -> T]
  BY LenProperties
<1>2. DOMAIN s = 1 .. Len(s) /\ s = [i \in DOMAIN s |-> s[i]] /\ \A i \in DOMAIN s : s[i] \in T
  BY <1>1
<1> QED BY <1>1, <1>2, ListIs

\* A list, with each of its members changed.
LEMMA ListMapped ==
  ASSUME NEW s, IsList(s), NEW t, t = [i \in DOMAIN s |-> t[i]]
  PROVE  IsList(t) /\ Len(t) = Len(s) /\ DOMAIN t = 1 .. Len(s)
<1>1. Len(s) \in Nat /\ DOMAIN t = 1 .. Len(s) /\ DOMAIN t = DOMAIN s
  BY ListHas
<1> QED BY <1>1, ListIs

\* Whatever it was started with, a program that starts has settings in their
\* ranges, and at least one endpoint, each with a name of its own.
LEMMA Loaded ==
  ASSUME NEW cli \in CommandLines, NEW env \in Environments, load(cli, env) # <<>>
  PROVE  LET c == load(cli, env)[1]
         IN  /\ IsList(c.endpoints) /\ Len(c.endpoints) \in 1 .. MaxEndpoints
             /\ \A i \in DOMAIN c.endpoints : c.endpoints[i].name \in Nat
             /\ \A i, j \in DOMAIN c.endpoints : i # j => c.endpoints[i].name # c.endpoints[j].name
             /\ \A f \in Fields : c.numbers[f] \in Lowest[f] .. Highest[f]
<1> DEFINE chosen == ChosenFile(cli, env)
           file == IF chosen # <<>> /\ Readable(chosen[1]) THEN chosen[1].config ELSE EmptyFile
           specs == Specs(cli, file)
           built == [i \in DOMAIN specs |-> build_endpoint(specs[i])]
           numbers == [f \in Fields |-> Number(cli, file, f)]
           c == load(cli, env)[1]
<1>1. /\ c = [endpoints |-> built, numbers |-> numbers, record |-> RecordSetting(cli, file, env)]
      /\ \A f \in Fields : check_range(f, Number(cli, file, f))
      /\ ~ HasDuplicates(built)
  BY DEF load
<1>2. HasTypes(cli)
  BY SettingsAssumption
<1>3. IsList(<<>>) /\ Len(<<>>) = 0 /\ DOMAIN <<>> = {}
  <2>1. <<>> \in Seq(Range(<<>>)) /\ Len(<<>>) = 0 /\ DOMAIN <<>> = {}
    BY EmptySeq
  <2> QED BY <2>1 DEF IsList
<1>4. HasTypes(EmptyFile)
  <2>1. /\ EmptyFile.endpoints = <<>> /\ \A f \in Fields : EmptyFile.numbers[f] = <<>>
    BY DEF EmptyFile, NoNumbers
  <2>2. <<>> \in Seq(EndpointSpec) /\ <<>> \in Options(Nat)
    BY EmptySeq, NoneIsOption
  <2> QED BY <1>3, <2>1, <2>2, BoundsAssumption DEF HasTypes
<1>5. HasTypes(file)
  <2>1. CASE ~ (chosen # <<>> /\ Readable(chosen[1]))
    BY <1>4, <2>1
  <2>2. CASE chosen # <<>> /\ Readable(chosen[1])
    <3>1. chosen[1] \in {env.files.given, env.files.xdg, env.files.home}
      BY <2>2 DEF ChosenFile, DefaultFile
    <3>2. HasTypes(chosen[1].config)
      BY <3>1, SettingsAssumption
    <3> HIDE DEF chosen
    <3> QED BY <2>2, <3>2
  <2> QED BY <2>1, <2>2
<1> HIDE DEF c, chosen, file
<1>6. /\ IsList(specs) /\ Len(specs) \in 1 .. MaxEndpoints
      /\ \A i \in DOMAIN specs : specs[i].name \in Options(Nat) /\ specs[i].host \in Nat
  <2>1. ASSUME NEW list, IsList(list), list # <<>>, Len(list) <= MaxEndpoints
        PROVE  Len(list) \in 1 .. MaxEndpoints
    <3>1. Len(list) \in Nat /\ Len(list) # 0
      BY <2>1, ListHas, EmptySeq DEF IsList
    <3> QED BY <2>1, <3>1, BoundsAssumption
  <2>2. CASE cli.endpoints # <<>>
    <3> DEFINE list == cli.endpoints
    <3>1. /\ IsList(list) /\ Len(list) \in 1 .. MaxEndpoints
          /\ \A i \in DOMAIN list : list[i] \in EndpointSpec
      BY <1>2, <2>1, <2>2, Typed DEF HasTypes
    <3>2. specs = [i \in DOMAIN list |-> parse_endpoint_arg(list[i])]
      BY <2>2 DEF Specs
    <3> HIDE DEF specs, list
    <3>3. IsList(specs) /\ Len(specs) = Len(list) /\ DOMAIN specs = DOMAIN list
      BY <3>1, <3>2, ListMapped
    <3>4. \A i \in DOMAIN list : specs[i].name \in Options(Nat) /\ specs[i].host \in Nat
      BY <3>1, <3>2 DEF parse_endpoint_arg, EndpointSpec
    <3> QED BY <3>1, <3>3, <3>4
  <2>3. CASE cli.endpoints = <<>> /\ file.endpoints # <<>>
    <3>1. specs = file.endpoints
      BY <2>3 DEF Specs
    <3> HIDE DEF specs
    <3>2. IsList(specs) /\ \A i \in DOMAIN specs : specs[i] \in EndpointSpec
      BY <1>5, <3>1, Typed DEF HasTypes
    <3> QED BY <1>5, <2>1, <2>3, <3>1, <3>2 DEF HasTypes, EndpointSpec
  <2>4. CASE cli.endpoints = <<>> /\ file.endpoints = <<>>
    <3>1. specs = <<default_endpoint>>
      BY <2>4 DEF Specs
    <3> HIDE DEF specs
    <3>2. DOMAIN specs = 1 .. 1 /\ specs = [i \in DOMAIN specs |-> specs[i]]
      BY <3>1
    <3>3. IsList(specs) /\ Len(specs) = 1
      BY <3>2, ListIs
    <3>4. \A i \in DOMAIN specs : specs[i] = default_endpoint
      BY <3>1, <3>2
    <3>5. default_endpoint.name \in Options(Nat) /\ default_endpoint.host \in Nat
      BY SomeIsOption DEF default_endpoint, Local
    <3> QED BY <3>3, <3>4, <3>5, BoundsAssumption
  <2> QED BY <2>2, <2>3, <2>4
<1>7. IsList(built) /\ Len(built) = Len(specs) /\ DOMAIN built = DOMAIN specs
  <2> HIDE DEF specs
  <2> QED BY <1>6, ListMapped, ListHas
<1>8. \A i \in DOMAIN built : built[i].name \in Nat
  <2> HIDE DEF specs
  <2> SUFFICES ASSUME NEW i \in DOMAIN specs PROVE build_endpoint(specs[i]).name \in Nat
    BY <1>7
  <2>1. /\ specs[i].host \in Nat
        /\ specs[i].name # <<>> => specs[i].name[1] \in Nat
    BY <1>6, OptionHas
  <2> QED BY <2>1 DEF build_endpoint, derive_name
<1>9. \A f \in Fields : numbers[f] \in Lowest[f] .. Highest[f]
  <2> SUFFICES ASSUME NEW f \in Fields PROVE Number(cli, file, f) \in Lowest[f] .. Highest[f]
    OBVIOUS
  <2>1. /\ cli.numbers[f] # <<>> => cli.numbers[f][1] \in Nat
        /\ file.numbers[f] # <<>> => file.numbers[f][1] \in Nat
    BY <1>2, <1>5, OptionHas DEF HasTypes
  <2>2. Number(cli, file, f) \in Nat
    BY <2>1 DEF Number, UnwrapOr, Or, Default, Fields
  <2>3. Lowest[f] \in Nat /\ Highest[f] \in Nat
    BY DEF Lowest, Highest, Fields
  <2>4. Lowest[f] <= Number(cli, file, f) /\ Number(cli, file, f) <= Highest[f]
    BY <1>1 DEF check_range
  <2> QED BY <2>2, <2>3, <2>4
<1>10. c.endpoints = built /\ c.numbers = numbers
  BY <1>1
<1>11. \A i, j \in DOMAIN built : i # j => built[i].name # built[j].name
  BY <1>1 DEF HasDuplicates
<1> HIDE DEF built, numbers, specs
<1> QED BY <1>6, <1>7, <1>8, <1>9, <1>10, <1>11 DEF c

-----------------------------------------------------------------------------
(* The frame on screen.                                                    *)

IsFrame == frame = [ticks |-> frame.ticks, picture |-> frame.picture]

\* The frame of the last 90 ms has not seen two ticks.
RecentIsYoung == Started /\ recent => frame.ticks <= 1

Inv ==
  /\ dirty \in BOOLEAN /\ recent \in BOOLEAN
  /\ IsFrame
  /\ RecentIsYoung
  /\ FrameIsCurrent

\* What a frame shows depends on the configuration too, which never changes.
LEMMA SamePicture ==
  ASSUME UNCHANGED config
  PROVE  Picture(endpoints, ui, usage, size)' = Picture(endpoints', ui', usage', size')
  BY DEF Picture, EndpointPicture

\* A redraw that is due and late enough makes the frame current.
LEMMA Drawn ==
  ASSUME NEW ticks, Redraw(TRUE, TRUE, ticks), UNCHANGED config
  PROVE  Inv'
<1>1. /\ frame' = [ticks |-> 0, picture |-> Picture(endpoints', ui', usage', size')]
      /\ dirty' = FALSE /\ recent' = TRUE
  BY DEF Redraw
<1>2. frame'.ticks = 0 /\ frame'.picture = Picture(endpoints, ui, usage, size)'
  BY <1>1, SamePicture
<1>3. /\ Picture(endpoints, ui, usage, size)'.view = ui'.view
      /\ Picture(endpoints, ui, usage, size)'.paused = ui'.paused
      /\ Picture(endpoints, ui, usage, size)'.help = ui'.help
      /\ Picture(endpoints, ui, usage, size)'.refresh = ui'.refresh
  BY SamePicture DEF Picture
<1>4. frame'.ticks <= 1
  BY <1>2, SMT
<1> QED BY <1>1, <1>2, <1>3, <1>4 DEF Inv, IsFrame, RecentIsYoung, FrameIsCurrent

\* Without one, the frame only grows older.
LEMMA NotDrawn ==
  ASSUME NEW due \in BOOLEAN, NEW late \in BOOLEAN, NEW ticks,
         Redraw(due, late, ticks), ~ (due /\ late), IsFrame
  PROVE  /\ frame' = [ticks |-> ticks, picture |-> frame.picture]
         /\ frame'.ticks = ticks /\ frame'.picture = frame.picture
         /\ dirty' = due /\ recent' = ~ late
         /\ IsFrame'
  BY DEF Redraw, IsFrame

\* What every event has in common: nothing is left undrawn without need, and a
\* frame that is not drawn again is young unless the display is paused.
LEMMA Redrawn ==
  ASSUME Inv, Started, UNCHANGED config,
         NEW due \in BOOLEAN, NEW late \in BOOLEAN, NEW ticks,
         Redraw(due, late, ticks),
         ~ due => ~ dirty /\ ui.paused /\ UNCHANGED ui,
         ~ late => ticks <= 1
  PROVE  Inv'
<1>1. CASE due /\ late
  <2>1. Redraw(TRUE, TRUE, ticks)
    BY <1>1 DEF Redraw
  <2> QED BY <2>1, Drawn
<1>2. CASE ~ (due /\ late)
  <2>1. /\ frame'.ticks = ticks /\ frame'.picture = frame.picture
        /\ dirty' = due /\ recent' = ~ late
        /\ IsFrame'
    BY <1>2, NotDrawn DEF Inv
  <2>2. RecentIsYoung'
    BY <2>1 DEF RecentIsYoung
  <2>3. ~ dirty' => /\ ui' = ui /\ ui.paused /\ ~ dirty
    BY <2>1
  <2>4. ~ ui'.paused => frame'.ticks <= 1
    BY <1>2, <2>1, <2>3
  <2>5. FrameIsCurrent'
    <3>1. FrameIsCurrent
      BY DEF Inv
    <3> QED BY <2>1, <2>3, <2>4, <3>1 DEF FrameIsCurrent
  <2> QED BY <2>1, <2>2, <2>5 DEF Inv
<1> QED BY <1>1, <1>2

LEMMA First == Init => Inv
<1> SUFFICES ASSUME Init PROVE Inv
  OBVIOUS
<1>1. dirty = TRUE /\ recent = FALSE /\ frame = NoFrame
  BY DEF Init
<1>2. IsFrame /\ ~ Started
  BY <1>1 DEF IsFrame, NoFrame, Started
<1> QED BY <1>1, <1>2 DEF Inv, RecentIsYoung, FrameIsCurrent

\* A step of the user, or of what arrives.
LEMMA AfterInput ==
  ASSUME Inv, NEW new, Input(new)
  PROVE  Inv'
<1>1. Started /\ UNCHANGED config /\ Redraw(TRUE, ~ recent, frame.ticks)
  BY DEF Input
<1>2. (~ recent) \in BOOLEAN /\ TRUE \in BOOLEAN
  BY DEF Inv
<1>3. ~ ~ recent => frame.ticks <= 1
  BY <1>1 DEF Inv, RecentIsYoung
<1> QED BY <1>1, <1>2, <1>3, Redrawn

LEMMA AfterNews ==
  ASSUME Inv, Arrives
  PROVE  Inv'
<1>1. Started /\ UNCHANGED <<config, ui>> /\ Redraw(DueAfterNews, ~ recent, frame.ticks)
  BY DEF Arrives
<1>2. (~ recent) \in BOOLEAN /\ DueAfterNews \in BOOLEAN
  BY DEF Inv, DueAfterNews
<1>3. ~ ~ recent => frame.ticks <= 1
  BY <1>1 DEF Inv, RecentIsYoung
<1>4. ~ DueAfterNews => ~ dirty /\ ui.paused
  BY DEF DueAfterNews
<1> QED BY <1>1, <1>2, <1>3, <1>4, Redrawn

LEMMA AfterTick ==
  ASSUME Inv, Tick
  PROVE  Inv'
<1> DEFINE due == dirty \/ ~ ui.paused
           late == ~ (recent /\ frame.ticks = 0)
           ticks == Least(frame.ticks + 1, 2)
<1>1. Started /\ UNCHANGED <<config, ui>> /\ Redraw(due, late, ticks)
  BY DEF Tick
<1>2. late \in BOOLEAN /\ due \in BOOLEAN
  OBVIOUS
<1>3. ~ late => ticks <= 1
  BY SMT DEF Least
<1>4. ~ due => ~ dirty /\ ui.paused
  OBVIOUS
<1> HIDE DEF due, late, ticks
<1> QED BY <1>1, <1>2, <1>3, <1>4, Redrawn

LEMMA AfterFirstFrame ==
  ASSUME Inv, FirstFrame
  PROVE  Inv'
<1>1. UNCHANGED <<phase, config, ui>> /\ Redraw(dirty, TRUE, 0) /\ frame = NoFrame
  BY DEF FirstFrame, known
<1>2. CASE dirty
  <2>1. Redraw(TRUE, TRUE, 0)
    BY <1>1, <1>2 DEF Inv
  <2> QED BY <1>1, <2>1, Drawn
<1>3. CASE ~ dirty
  <2>1. dirty \in BOOLEAN /\ TRUE \in BOOLEAN /\ IsFrame
    BY DEF Inv
  <2>2. /\ frame' = [ticks |-> 0, picture |-> frame.picture]
        /\ dirty' = dirty /\ recent' = FALSE /\ IsFrame'
    BY <1>1, <1>3, <2>1, NotDrawn
  <2>3. frame' = NoFrame
    BY <1>1, <2>2 DEF NoFrame
  <2>4. ~ Started'
    BY <2>3 DEF Started, NoFrame
  <2> QED BY <2>1, <2>2, <2>4 DEF Inv, RecentIsYoung, FrameIsCurrent
<1> QED BY <1>2, <1>3

\* Nothing that FrameIsCurrent speaks of changes but the frame's youth.
LEMMA AfterSettle ==
  ASSUME Inv, Settle
  PROVE  Inv'
<1>1. /\ UNCHANGED <<phase, config, endpoints, ui, usage, size, dirty, frame>>
      /\ recent' = FALSE
  BY DEF Settle, known
<1>2. Picture(endpoints, ui, usage, size)' = Picture(endpoints, ui, usage, size)
  BY <1>1, SamePicture
<1> QED BY <1>1, <1>2 DEF Inv, IsFrame, RecentIsYoung, FrameIsCurrent, Started

LEMMA AfterQuit ==
  ASSUME Inv, Quit
  PROVE  Inv'
<1>1. phase' = "ended" /\ UNCHANGED <<dirty, recent, frame>>
  BY DEF Quit
<1> QED BY <1>1 DEF Inv, IsFrame, RecentIsYoung, FrameIsCurrent, Started

LEMMA AfterUser ==
  ASSUME Inv, User
  PROVE  Inv'
<1>1. CASE Quit
  BY <1>1, AfterQuit
<1>2. CASE ~ Quit
  <2>1. PICK new : Input(new)
    BY <1>2 DEF User, TabKey, BackTabKey, FleetKey, EnterKey, TopKey, SortKey, PanelKey,
                PauseKey, OtherKey, HelpKey, NumberKey, move_selection, adjust_interval,
                KeyWhileHelp, PageKey, Wheel, Resize, Pressed
  <2> QED BY <2>1, AfterInput
<1> QED BY <1>1, <1>2

LEMMA Preserved ==
  Inv /\ [Next]_vars => Inv'
<1> SUFFICES ASSUME Inv, [Next]_vars PROVE Inv'
  OBVIOUS
<1>1. CASE FirstFrame
  BY <1>1, AfterFirstFrame
<1>2. CASE Settle
  BY <1>2, AfterSettle
<1>3. CASE Tick
  BY <1>3, AfterTick
<1>4. CASE News
  <2>1. Arrives
    BY <1>4 DEF News, ScrapeSucceeds, ScrapeFails, ProbeEnds, LogArrives, UsageLoaded
  <2> QED BY <2>1, AfterNews
<1>5. CASE User
  BY <1>5, AfterUser
<1>6. CASE UNCHANGED vars
  <2>1. UNCHANGED <<phase, config, endpoints, ui, usage, size, dirty, recent, frame>>
    BY <1>6 DEF vars, known
  <2>2. Picture(endpoints, ui, usage, size)' = Picture(endpoints, ui, usage, size)
    BY <2>1, SamePicture
  <2> QED BY <2>1, <2>2 DEF Inv, IsFrame, RecentIsYoung, FrameIsCurrent, Started
<1> QED BY <1>1, <1>2, <1>3, <1>4, <1>5, <1>6 DEF Next

\* Unless a redraw is due, what is on screen is the present state (App::run,
\* handle_event): no order of keys, news, ticks and pauses leaves an old frame.
THEOREM FrameStaysCurrent == Spec => []FrameIsCurrent
<1>1. Inv => FrameIsCurrent
  BY DEF Inv
<1> QED BY <1>1, First, Preserved, PTL DEF Spec

-----------------------------------------------------------------------------
(* Sums and maxima of Options, the roll-up of an endpoint.                 *)

LEMMA SumIsTotal ==
  ASSUME NEW f, IsFiniteSet(DOMAIN f), \A x \in DOMAIN f : f[x] \in Int
  PROVE  Sum(f) = Total(f, DOMAIN f) /\ Sum(f) \in Int
<1>1. Sum(f) = Total(f, DOMAIN f)
  BY SumSetIsTotal DEF Sum
<1> QED BY <1>1, TotalType

LEMMA ToldHas ==
  ASSUME NEW f, IsFiniteSet(DOMAIN f), NEW T, \A x \in DOMAIN f : f[x] \in Options(T)
  PROVE  /\ Told(f) \subseteq DOMAIN f /\ IsFiniteSet(Told(f))
         /\ \A x \in Told(f) : f[x][1] \in T /\ f[x] = <<f[x][1]>>
<1>1. Told(f) \subseteq DOMAIN f /\ \A x \in Told(f) : f[x] # <<>>
  BY DEF Told
<1> QED BY <1>1, OptionHas, FS_Subset

LEMMA SumOptIs ==
  ASSUME NEW f, IsFiniteSet(DOMAIN f), \A x \in DOMAIN f : f[x] \in Options(Int), Told(f) # {}
  PROVE  LET told == [x \in Told(f) |-> f[x][1]]
         IN  Total(told, Told(f)) \in Int /\ SumOpt(f) = <<Total(told, Told(f))>> /\ SumOpt(f) # <<>>
<1> DEFINE told == [x \in Told(f) |-> f[x][1]]
<1>1. IsFiniteSet(DOMAIN told) /\ DOMAIN told = Told(f) /\ \A x \in DOMAIN told : told[x] \in Int
  BY ToldHas
<1>2. SumOpt(f) = <<Sum(told)>>
  BY DEF SumOpt
<1> HIDE DEF told
<1>3. Sum(told) = Total(told, Told(f)) /\ Sum(told) \in Int
  BY <1>1, SumIsTotal
<1>4. <<Sum(told)>> # <<>>
  OBVIOUS
<1> QED BY <1>2, <1>3, <1>4 DEF told

LEMMA SumOptType ==
  ASSUME NEW f, IsFiniteSet(DOMAIN f), \A x \in DOMAIN f : f[x] \in Options(Int)
  PROVE  SumOpt(f) \in Options(Int)
<1>1. CASE Told(f) = {}
  <2>1. SumOpt(f) = <<>>
    BY <1>1 DEF SumOpt
  <2> QED BY <2>1, NoneIsOption
<1>2. CASE Told(f) # {}
  BY <1>2, SumOptIs, SomeIsOption
<1> QED BY <1>1, <1>2

LEMMA WorstOptIs ==
  ASSUME NEW f, IsFiniteSet(DOMAIN f), \A x \in DOMAIN f : f[x] \in Options(Int)
  PROVE  /\ WorstOpt(f) \in Options(Int)
         /\ WorstOpt(f) # <<>> => \E x \in DOMAIN f : f[x] = WorstOpt(f)
<1> DEFINE V == {f[x][1] : x \in Told(f)}
<1>1. CASE Told(f) = {}
  <2>1. WorstOpt(f) = <<>>
    BY <1>1 DEF WorstOpt
  <2> QED BY <2>1, NoneIsOption
<1>2. CASE Told(f) # {}
  <2>1. WorstOpt(f) = <<Max(V)>>
    BY <1>2 DEF WorstOpt
  <2>2. V \in SUBSET Int /\ V # {}
    BY <1>2, ToldHas
  <2>3. IsFiniteSet(V)
    <3>1. [x \in Told(f) |-> f[x][1]] \in Surjection(Told(f), V)
      BY DEF Surjection
    <3> HIDE DEF V
    <3> QED BY <3>1, ToldHas, FS_Surjection
  <2>4. Max(V) \in V
    <3> HIDE DEF V
    <3> QED BY <2>2, <2>3, MaxIs
  <2>5. PICK x \in Told(f) : Max(V) = f[x][1]
    BY <2>4
  <2>6. f[x] = <<f[x][1]>> /\ x \in DOMAIN f /\ f[x][1] \in Int
    BY ToldHas
  <2> HIDE DEF V
  <2> QED BY <2>1, <2>5, <2>6, SomeIsOption
<1> QED BY <1>1, <1>2

\* What is known of an endpoint: nothing, or what a scrape reported.
LEMMA CuratedHas ==
  ASSUME NEW c \in Snapshots \cup {<<>>}
  PROVE  IsFiniteSet(DOMAIN c) /\ \A k \in DOMAIN c : c[k] \in SeriesType
<1>1. CASE c \in Snapshots
  BY <1>1, SnapshotsAssumption
<1>2. CASE c = <<>>
  BY <1>2, FS_EmptySet
<1> QED BY <1>1, <1>2

LEMMA AggregateType ==
  ASSUME NEW c \in Snapshots \cup {<<>>}
  PROVE  /\ \A l \in Loads : aggregate(c).loads[l] \in Options(Int)
         /\ aggregate(c).ttft \in Options(Int)
<1>1. IsFiniteSet(DOMAIN c) /\ \A k \in DOMAIN c : c[k] \in SeriesType
  BY CuratedHas
<1>2. ASSUME NEW l \in Loads PROVE aggregate(c).loads[l] \in Options(Int)
  <2> DEFINE f == [k \in DOMAIN c |-> c[k].loads[l]]
  <2>1. aggregate(c).loads[l] = SumOpt(f)
    BY DEF aggregate
  <2>2. IsFiniteSet(DOMAIN f) /\ \A x \in DOMAIN f : f[x] \in Options(Int)
    BY <1>1 DEF SeriesType
  <2> HIDE DEF f
  <2> QED BY <2>1, <2>2, SumOptType
<1>3. aggregate(c).ttft \in Options(Int)
  <2> DEFINE f == [k \in DOMAIN c |-> c[k].ttft]
  <2>1. aggregate(c).ttft = WorstOpt(f)
    BY DEF aggregate
  <2>2. IsFiniteSet(DOMAIN f) /\ \A x \in DOMAIN f : f[x] \in Options(Int)
    BY <1>1 DEF SeriesType
  <2> HIDE DEF f
  <2> QED BY <2>1, <2>2, WorstOptIs
<1> QED BY <1>2, <1>3

-----------------------------------------------------------------------------
(* The order of the fleet table.                                           *)

\* What the table and its order rest on.
Fleet(es) ==
  /\ IsList(es)
  /\ \A i \in DOMAIN es : es[i].name \in Nat /\ es[i].curated \in Snapshots \cup {<<>>}
  /\ \A i, j \in DOMAIN es : i # j => es[i].name # es[j].name

Sorts == {"name"} \cup Loads

\* The order is strict and total: names settle what the values do not.
LEMMA OrderIsTotal ==
  ASSUME NEW es, Fleet(es), NEW sort \in Sorts
  PROVE  /\ \A i \in DOMAIN es : ~ Precedes(es, sort, i, i)
         /\ \A i, j \in DOMAIN es : i # j => Precedes(es, sort, i, j) \/ Precedes(es, sort, j, i)
         /\ \A i, j, k \in DOMAIN es : Precedes(es, sort, i, j) /\ Precedes(es, sort, j, k) => Precedes(es, sort, i, k)
<1> DEFINE name == [i \in DOMAIN es |-> es[i].name]
<1>1. /\ \A i \in DOMAIN es : name[i] \in Nat
      /\ \A i, j \in DOMAIN es : i # j => name[i] # name[j]
  BY DEF Fleet
<1>2. CASE sort = "name"
  <2>1. \A i, j \in DOMAIN es : Precedes(es, sort, i, j) <=> name[i] < name[j]
    BY <1>2 DEF Precedes
  <2> HIDE DEF name
  <2> QED BY <1>1, <2>1
<1>3. CASE sort \in Loads
  <2> DEFINE v == [i \in DOMAIN es |-> aggregate(es[i].curated).loads[sort]]
             val == [i \in DOMAIN es |-> v[i][1]]
             told == {i \in DOMAIN es : v[i] # <<>>}
  <2>1. \A i \in DOMAIN es : v[i] \in Options(Int)
    BY <1>3, AggregateType DEF Fleet
  <2>2. \A i \in told : val[i] \in Int
    <3> HIDE DEF v
    <3> QED BY <2>1, OptionHas
  <2>3. sort # "name"
    BY <1>3 DEF Loads
  <2>4. \A i, j \in DOMAIN es :
          Busier(es, sort, i, j) <=> \/ i \in told /\ j \notin told
                                     \/ i \in told /\ j \in told /\ val[i] > val[j]
    BY DEF Busier
  <2>5. \A i, j \in DOMAIN es :
          Precedes(es, sort, i, j) <=> \/ Busier(es, sort, i, j)
                                       \/ ~ Busier(es, sort, j, i) /\ name[i] < name[j]
    BY <2>3 DEF Precedes
  <2>6. told \subseteq DOMAIN es
    OBVIOUS
  <2> HIDE DEF name, v, val, told
  <2>7. \A i \in DOMAIN es : ~ Precedes(es, sort, i, i)
    BY <1>1, <2>2, <2>4, <2>5
  <2>8. \A i, j \in DOMAIN es : i # j => Precedes(es, sort, i, j) \/ Precedes(es, sort, j, i)
    BY <1>1, <2>2, <2>4, <2>5
  <2>9. \A i, j, k \in DOMAIN es : Precedes(es, sort, i, j) /\ Precedes(es, sort, j, k) => Precedes(es, sort, i, k)
    BY <1>1, <2>2, <2>4, <2>5
  <2> QED BY <2>7, <2>8, <2>9
<1> QED BY <1>2, <1>3 DEF Sorts

\* The table shows each endpoint once: a row that is selected is one of them.
LEMMA TableHasAll ==
  ASSUME NEW es, Fleet(es), NEW sort \in Sorts
  PROVE  LET table == sorted_endpoint_indices(es, sort)
         IN  /\ table \in [DOMAIN es -> DOMAIN es]
             /\ \A i, j \in DOMAIN es : table[i] = table[j] => i = j
<1> DEFINE D == DOMAIN es
           R == {p \in D \X D : Precedes(es, sort, p[1], p[2])}
           rank == [i \in D |-> Rank(es, sort, i)]
           table == sorted_endpoint_indices(es, sort)
<1>1. D = 1 .. Len(es) /\ Len(es) \in Nat
  BY ListHas DEF Fleet
<1>2. IsFiniteSet(D) /\ Cardinality(D) = Len(es)
  <2>1. IsFiniteSet(1 .. Len(es)) /\ Cardinality(1 .. Len(es)) = IF 1 > Len(es) THEN 0 ELSE Len(es) - 1 + 1
    BY <1>1, FS_Interval
  <2> HIDE DEF D
  <2> QED BY <1>1, <2>1
<1> HIDE DEF D
<1>3. \A i, j \in D : <<i, j>> \in R <=> Precedes(es, sort, i, j)
  OBVIOUS
<1> HIDE DEF R
<1>4. IsTotalOrder(R, D)
  BY <1>3, OrderIsTotal DEF D, IsTotalOrder
<1>5. IsRank(rank, R, D)
  <2> SUFFICES ASSUME NEW i \in D PROVE rank[i] = Cardinality({j \in D : <<j, i>> \in R})
    BY DEF IsRank
  <2>1. {j \in D : <<j, i>> \in R} = {j \in D : Precedes(es, sort, j, i)}
    BY <1>3
  <2> QED BY <2>1 DEF Rank, D
<1> HIDE DEF rank
<1>6. \A k \in 0 .. Cardinality(D) - 1 : \E i \in D : rank[i] = k
  BY <1>2, <1>4, <1>5, RanksCover
<1>7. \A k \in D : \E i \in D : rank[i] = k - 1
  <2> SUFFICES ASSUME NEW k \in D PROVE k - 1 \in 0 .. Cardinality(D) - 1
    BY <1>6
  <2> QED BY <1>1, <1>2
<1>8. table = [k \in D |-> CHOOSE i \in D : rank[i] = k - 1]
  <2>1. \A i \in D : rank[i] = Rank(es, sort, i)
    BY DEF rank
  <2>2. \A k \in D : (CHOOSE i \in D : rank[i] = k - 1) = CHOOSE i \in D : Rank(es, sort, i) = k - 1
    BY <2>1
  <2> QED BY <2>2 DEF sorted_endpoint_indices, D
<1> HIDE DEF table
<1>9. \A k \in D : table[k] \in D /\ rank[table[k]] = k - 1
  BY <1>7, <1>8
<1>10. \A i, j \in D : table[i] = table[j] => i = j
  BY <1>1, <1>9
<1> QED BY <1>8, <1>9, <1>10 DEF D, table

-----------------------------------------------------------------------------
(* What every state has: the type invariant, and what it rests on.         *)

Ages == {<<>>} \cup {<<a>> : a \in 0 .. MaxAge}

IsEndpoint(e) ==
  /\ e = [name |-> e.name, age |-> e.age, failing |-> e.failing, healthy |-> e.healthy,
          curated |-> e.curated, ring |-> e.ring, log |-> e.log]
  /\ e.name \in Nat /\ e.age \in Ages /\ e.curated \in Snapshots \cup {<<>>}

Names(es) == \A i, j \in DOMAIN es : i # j => es[i].name # es[j].name

\* The endpoints and who may be asked: a refused one was never heard of.
Heard(es, may) ==
  /\ IsList(es)
  /\ \A i \in DOMAIN es : IsEndpoint(es[i]) /\ (~ may[i] => es[i].age = <<>>)
  /\ Names(es)

UiType(m) ==
  [view : 0 .. m, selected : 1 .. m, sort : Sorts, scroll : 0 .. MaxScroll,
   mode : {"overview", "requests", "tables"}, paused : BOOLEAN, help : BOOLEAN,
   refresh : Lowest["refresh_interval_ms"] .. Highest["refresh_interval_ms"]]

Settled ==
  /\ \A f \in Fields : config[1].numbers[f] \in Lowest[f] .. Highest[f]
  /\ n \in 1 .. MaxEndpoints /\ n = Len(config[1].endpoints) /\ n = Len(access)
  /\ Heard(endpoints, access)
  /\ ui \in UiType(n)

Shape ==
  /\ phase \in {"refused", "running", "ended"}
  /\ size \in Sizes
  /\ frame.ticks \in 0 .. 2
  /\ events \in 0 .. MaxEvents
  /\ phase = "refused" => n = 0
  /\ phase # "refused" => Settled

StateInv == Inv /\ Shape

LEMMA ShapeTyped == StateInv => TypeOK
<1> SUFFICES ASSUME StateInv PROVE TypeOK
  OBVIOUS
<1>1. /\ phase \in {"refused", "running", "ended"} /\ dirty \in BOOLEAN /\ recent \in BOOLEAN
      /\ size \in Sizes /\ frame.ticks \in 0 .. 2 /\ events \in 0 .. MaxEvents
  BY DEF StateInv, Inv, Shape
<1>2. ASSUME phase # "refused"
      PROVE  /\ \A f \in Fields : config[1].numbers[f] \in Lowest[f] .. Highest[f]
             /\ n > 0 /\ n = Len(config[1].endpoints) /\ n = Len(access)
             /\ \A i, j \in 1 .. n : i # j => endpoints[i].name # endpoints[j].name
             /\ \A i \in 1 .. n : endpoints[i].age \in Ages
             /\ ui.view \in 0 .. n /\ ui.selected \in 1 .. n /\ ui.scroll \in 0 .. MaxScroll
             /\ ui.refresh \in Lowest["refresh_interval_ms"] .. Highest["refresh_interval_ms"]
  <2>1. Settled
    BY <1>2 DEF StateInv, Shape
  <2>2. DOMAIN endpoints = 1 .. n
    BY <2>1, ListHas DEF Settled, Heard, n
  <2>3. n > 0
    BY <2>1 DEF Settled
  <2>4. ui \in UiType(n)
    BY <2>1 DEF Settled
  <2> QED BY <2>1, <2>2, <2>3, <2>4 DEF Settled, Heard, Names, IsEndpoint, UiType
<1> QED BY <1>1, <1>2 DEF TypeOK, Ages

\* A frame is on screen for at most two ticks, as far as they are counted.
LEMMA TicksType ==
  ASSUME Inv, frame.ticks \in 0 .. 2, NEW due, NEW late, NEW ticks \in 0 .. 2, Redraw(due, late, ticks)
  PROVE  frame'.ticks \in 0 .. 2
<1>1. CASE due /\ late
  <2>1. frame' = [ticks |-> 0, picture |-> Picture(endpoints', ui', usage', size')]
    BY <1>1 DEF Redraw
  <2>2. frame'.ticks = 0
    BY <2>1
  <2> QED BY <2>2
<1>2. CASE ~ (due /\ late)
  BY <1>2 DEF Redraw, Inv, IsFrame
<1> QED BY <1>1, <1>2

LEMMA ShapeFirst == Init => Shape
<1> SUFFICES ASSUME Init PROVE Shape
  OBVIOUS
<1>1. PICK cli \in CommandLines, env \in Environments :
        /\ config = load(cli, env)
        /\ phase = IF config = <<>> THEN "refused" ELSE "running"
        /\ access = IF config = <<>> THEN <<>>
                    ELSE [i \in DOMAIN config[1].endpoints |-> resolve_auth(config[1].endpoints[i], env)]
        /\ endpoints = IF config = <<>> THEN <<>>
                       ELSE [i \in DOMAIN config[1].endpoints |-> NewEndpoint(config[1].endpoints[i])]
        /\ ui = FirstUi(IF config = <<>> THEN 0 ELSE config[1].numbers.refresh_interval_ms)
        /\ size \in Sizes /\ frame = NoFrame /\ events = 0
  BY DEF Init
<1>2. frame.ticks \in 0 .. 2 /\ events \in 0 .. MaxEvents
  BY <1>1, BoundsAssumption DEF NoFrame
<1>3. CASE config = <<>>
  <2>1. phase = "refused" /\ endpoints = <<>>
    BY <1>1, <1>3
  <2>2. n = 0
    BY <2>1, EmptySeq DEF n
  <2> QED BY <1>1, <1>2, <2>1, <2>2 DEF Shape
<1>4. CASE config # <<>>
  <2> DEFINE list == config[1].endpoints
  <2>1. /\ IsList(list) /\ Len(list) \in 1 .. MaxEndpoints
        /\ \A i \in DOMAIN list : list[i].name \in Nat
        /\ \A i, j \in DOMAIN list : i # j => list[i].name # list[j].name
        /\ \A f \in Fields : config[1].numbers[f] \in Lowest[f] .. Highest[f]
    BY <1>1, <1>4, Loaded
  <2>2. /\ phase = "running"
        /\ access = [i \in DOMAIN list |-> resolve_auth(list[i], env)]
        /\ endpoints = [i \in DOMAIN list |-> NewEndpoint(list[i])]
        /\ ui = FirstUi(config[1].numbers.refresh_interval_ms)
    BY <1>1, <1>4
  <2> HIDE DEF list
  <2>3. IsList(endpoints) /\ Len(endpoints) = Len(list) /\ DOMAIN endpoints = DOMAIN list
    BY <2>1, <2>2, ListMapped, ListHas
  <2>4. Len(access) = Len(list)
    BY <2>1, <2>2, ListMapped
  <2>5. \A i \in DOMAIN endpoints : endpoints[i] = NewEndpoint(list[i])
    BY <2>2
  <2>6. \A i \in DOMAIN endpoints : IsEndpoint(endpoints[i]) /\ endpoints[i].age = <<>> /\ endpoints[i].name = list[i].name
    BY <2>1, <2>3, <2>5 DEF IsEndpoint, NewEndpoint, Ages
  <2>7. Heard(endpoints, access)
    BY <2>1, <2>3, <2>6 DEF Heard, Names
  <2>8. n \in 1 .. MaxEndpoints /\ n = Len(list)
    BY <2>1, <2>3 DEF n
  <2>9. ui \in UiType(n)
    <3>1. "refresh_interval_ms" \in Fields
      BY DEF Fields
    <3>2. config[1].numbers.refresh_interval_ms \in Lowest["refresh_interval_ms"] .. Highest["refresh_interval_ms"]
      BY <2>1, <3>1
    <3>3. 0 \in 0 .. n /\ 1 \in 1 .. n /\ 0 \in 0 .. MaxScroll
      BY <2>8, BoundsAssumption DEF MaxScroll
    <3> HIDE DEF n
    <3> QED BY <2>2, <3>2, <3>3 DEF FirstUi, UiType, Sorts
  <2>10. Settled
    BY <2>1, <2>4, <2>7, <2>8, <2>9 DEF Settled, list
  <2> QED BY <1>1, <1>2, <2>2, <2>10 DEF Shape
<1> QED BY <1>3, <1>4

LEMMA ShapeStep ==
  ASSUME StateInv, Started, UNCHANGED <<phase, config, access>>,
         events' \in 0 .. MaxEvents, size' \in Sizes,
         NEW due, NEW late, NEW ticks \in 0 .. 2, Redraw(due, late, ticks),
         Heard(endpoints', access), Len(endpoints') = n, ui' \in UiType(n)
  PROVE  Shape'
<1>1. phase = "running" /\ Settled /\ frame.ticks \in 0 .. 2 /\ Inv
  BY DEF StateInv, Shape, Started
<1>2. frame'.ticks \in 0 .. 2
  BY <1>1, TicksType
<1>3. n' = n
  BY DEF n
<1>4. Settled'
  BY <1>1, <1>3 DEF Settled
<1> QED BY <1>1, <1>2, <1>4 DEF Shape

LEMMA ShapeInput ==
  ASSUME StateInv, NEW new, Input(new), new \in UiType(n), size' \in Sizes
  PROVE  Shape'
<1>1. /\ Started /\ UNCHANGED <<phase, config, access, endpoints>> /\ ui' = new
      /\ events < MaxEvents /\ events' = events + 1
      /\ Redraw(TRUE, ~ recent, frame.ticks)
  BY DEF Input
<1>2. Settled /\ events \in 0 .. MaxEvents /\ frame.ticks \in 0 .. 2
  BY <1>1 DEF StateInv, Shape, Started
<1>3. events' \in 0 .. MaxEvents
  BY <1>1, <1>2, BoundsAssumption
<1>4. Heard(endpoints', access) /\ Len(endpoints') = n
  BY <1>1, <1>2 DEF Settled, n
<1> QED BY <1>1, <1>2, <1>3, <1>4, ShapeStep

\* One endpoint is heard of.
Replaced(es, i, e) == [es EXCEPT ![i] = e]

LEMMA HeardOne ==
  ASSUME NEW es, NEW may, Heard(es, may), NEW i \in DOMAIN es,
         NEW e, IsEndpoint(e), e.name = es[i].name, ~ may[i] => e.age = <<>>
  PROVE  Heard(Replaced(es, i, e), may) /\ Len(Replaced(es, i, e)) = Len(es)
<1> DEFINE t == Replaced(es, i, e)
<1>1. IsList(es) /\ es = [j \in DOMAIN es |-> es[j]]
  BY ListHas DEF Heard
<1>2. t = [j \in DOMAIN es |-> t[j]] /\ DOMAIN t = DOMAIN es
  BY <1>1 DEF Replaced
<1>3. \A j \in DOMAIN es : t[j] = IF j = i THEN e ELSE es[j]
  BY <1>1 DEF Replaced
<1> HIDE DEF t
<1>4. IsList(t) /\ Len(t) = Len(es)
  BY <1>1, <1>2, ListMapped
<1>5. \A j \in DOMAIN t : IsEndpoint(t[j]) /\ (~ may[j] => t[j].age = <<>>) /\ t[j].name = es[j].name
  BY <1>2, <1>3 DEF Heard
<1>6. Heard(t, may)
  BY <1>2, <1>4, <1>5 DEF Heard, Names
<1> QED BY <1>4, <1>6 DEF t

\* Of an endpoint, what is heard changes neither its name nor its type.
Scraped(e, s) ==
  [e EXCEPT !.age = <<0>>, !.failing = FALSE, !.curated = s, !.ring = RingAfter(e.ring, s)]
Failed(e) == [e EXCEPT !.failing = TRUE]
Probed(e, healthy) == [e EXCEPT !.healthy = healthy]
Logged(e, log) == [e EXCEPT !.log = log]

LEMMA HeardIsTyped ==
  ASSUME NEW e, IsEndpoint(e)
  PROVE  /\ \A s \in Snapshots : IsEndpoint(Scraped(e, s)) /\ Scraped(e, s).name = e.name
         /\ IsEndpoint(Failed(e)) /\ Failed(e).name = e.name /\ Failed(e).age = e.age
         /\ \A x : IsEndpoint(Probed(e, x)) /\ Probed(e, x).name = e.name /\ Probed(e, x).age = e.age
         /\ \A x : IsEndpoint(Logged(e, x)) /\ Logged(e, x).name = e.name /\ Logged(e, x).age = e.age
<1>1. <<0>> \in Ages
  BY BoundsAssumption DEF Ages
<1>2. ASSUME NEW s \in Snapshots PROVE IsEndpoint(Scraped(e, s)) /\ Scraped(e, s).name = e.name
  <2> DEFINE f == Scraped(e, s)
             ring == RingAfter(e.ring, s)
  <2>1. f = [e EXCEPT !.age = <<0>>, !.failing = FALSE, !.curated = s, !.ring = ring]
    BY DEF Scraped
  <2> HIDE DEF f, ring
  <2>2. IsEndpoint(f) /\ f.name = e.name
    BY <1>1, <2>1 DEF IsEndpoint
  <2> QED BY <2>2 DEF f
<1>3. IsEndpoint(Failed(e)) /\ Failed(e).name = e.name /\ Failed(e).age = e.age
  <2> DEFINE f == Failed(e)
  <2>1. f = [e EXCEPT !.failing = TRUE]
    BY DEF Failed
  <2> HIDE DEF f
  <2>2. IsEndpoint(f) /\ f.name = e.name /\ f.age = e.age
    BY <2>1 DEF IsEndpoint
  <2> QED BY <2>2 DEF f
<1>4. ASSUME NEW x PROVE IsEndpoint(Probed(e, x)) /\ Probed(e, x).name = e.name /\ Probed(e, x).age = e.age
  <2> DEFINE f == Probed(e, x)
  <2>1. f = [e EXCEPT !.healthy = x]
    BY DEF Probed
  <2> HIDE DEF f
  <2>2. IsEndpoint(f) /\ f.name = e.name /\ f.age = e.age
    BY <2>1 DEF IsEndpoint
  <2> QED BY <2>2 DEF f
<1>5. ASSUME NEW x PROVE IsEndpoint(Logged(e, x)) /\ Logged(e, x).name = e.name /\ Logged(e, x).age = e.age
  <2> DEFINE f == Logged(e, x)
  <2>1. f = [e EXCEPT !.log = x]
    BY DEF Logged
  <2> HIDE DEF f
  <2>2. IsEndpoint(f) /\ f.name = e.name /\ f.age = e.age
    BY <2>1 DEF IsEndpoint
  <2> QED BY <2>2 DEF f
<1> QED BY <1>2, <1>3, <1>4, <1>5

LEMMA ShapeArrives ==
  ASSUME StateInv, Arrives, Heard(endpoints', access), Len(endpoints') = n
  PROVE  Shape'
<1>1. /\ Started /\ UNCHANGED <<phase, config, access, ui, size>>
      /\ events < MaxEvents /\ events' = events + 1
      /\ Redraw(DueAfterNews, ~ recent, frame.ticks)
  BY DEF Arrives
<1>2. Settled /\ events \in 0 .. MaxEvents /\ frame.ticks \in 0 .. 2 /\ size' \in Sizes
  BY <1>1 DEF StateInv, Shape, Started
<1>3. events' \in 0 .. MaxEvents
  BY <1>1, <1>2, BoundsAssumption
<1>4. ui' \in UiType(n)
  BY <1>1, <1>2 DEF Settled
<1> QED BY <1>1, <1>2, <1>3, <1>4, ShapeStep

LEMMA ShapeNews ==
  ASSUME StateInv, News
  PROVE  Shape'
<1>1. Arrives
  BY DEF News, ScrapeSucceeds, ScrapeFails, ProbeEnds, LogArrives, UsageLoaded
<1>2. Settled
  BY <1>1 DEF StateInv, Shape, Started, Arrives
<1>3. Heard(endpoints, access) /\ DOMAIN endpoints = 1 .. n /\ endpoints = [j \in DOMAIN endpoints |-> endpoints[j]]
  BY <1>2, ListHas DEF Settled, Heard, n
<1>4. SUFFICES Heard(endpoints', access) /\ Len(endpoints') = n
  BY <1>1, ShapeArrives
<1>5. CASE \E ok \in BOOLEAN : UsageLoaded(ok)
  <2>1. PICK ok \in BOOLEAN : UsageLoaded(ok)
    BY <1>5
  <2>2. UNCHANGED endpoints
    BY <2>1, Zenon DEF UsageLoaded
  <2> QED BY <1>3, <2>2 DEF n
<1>6. ASSUME NEW i \in 1 .. n,
             NEW e, IsEndpoint(e), e.name = endpoints[i].name, ~ access[i] => e.age = <<>>,
             endpoints' = Replaced(endpoints, i, e)
      PROVE  Heard(endpoints', access) /\ Len(endpoints') = n
  BY <1>3, <1>6, HeardOne DEF n
<1>7. ASSUME NEW i \in 1 .. n PROVE IsEndpoint(endpoints[i]) /\ (~ access[i] => endpoints[i].age = <<>>)
  BY <1>3 DEF Heard
<1>8. ASSUME NEW i \in 1 .. n, NEW s \in Snapshots, ScrapeSucceeds(i, s)
      PROVE  Heard(endpoints', access) /\ Len(endpoints') = n
  <2> DEFINE e == Scraped(endpoints[i], s)
  <2>1. endpoints' = Replaced(endpoints, i, e) /\ access[i]
    BY <1>3, <1>8 DEF ScrapeSucceeds, Replaced, Scraped
  <2>2. IsEndpoint(e) /\ e.name = endpoints[i].name
    BY <1>7, HeardIsTyped
  <2> HIDE DEF e
  <2> QED BY <1>6, <1>7, <2>1, <2>2
<1>9. ASSUME NEW i \in 1 .. n, ScrapeFails(i)
      PROVE  Heard(endpoints', access) /\ Len(endpoints') = n
  <2> DEFINE e == Failed(endpoints[i])
  <2>1. endpoints' = Replaced(endpoints, i, e)
    BY <1>3, <1>9 DEF ScrapeFails, Replaced, Failed
  <2>2. IsEndpoint(e) /\ e.name = endpoints[i].name /\ e.age = endpoints[i].age
    BY <1>7, HeardIsTyped
  <2> HIDE DEF e
  <2> QED BY <1>6, <1>7, <2>1, <2>2
<1>10. ASSUME NEW i \in 1 .. n, NEW healthy, ProbeEnds(i, healthy)
      PROVE  Heard(endpoints', access) /\ Len(endpoints') = n
  <2> DEFINE e == Probed(endpoints[i], IF healthy = "unknown" THEN endpoints[i].healthy ELSE healthy)
  <2>1. endpoints' = Replaced(endpoints, i, e)
    BY <1>3, <1>10 DEF ProbeEnds, Replaced, Probed
  <2>2. IsEndpoint(e) /\ e.name = endpoints[i].name /\ e.age = endpoints[i].age
    BY <1>7, HeardIsTyped
  <2> HIDE DEF e
  <2> QED BY <1>6, <1>7, <2>1, <2>2
<1>11. ASSUME NEW i \in 1 .. n, NEW missing, NEW lines, LogArrives(i, missing, lines)
      PROVE  Heard(endpoints', access) /\ Len(endpoints') = n
  <2> DEFINE e == Logged(endpoints[i], [missing |-> missing, rows |-> endpoints[i].log.rows \/ lines])
  <2>1. endpoints' = Replaced(endpoints, i, e)
    BY <1>3, <1>11 DEF LogArrives, Replaced, Logged
  <2>2. IsEndpoint(e) /\ e.name = endpoints[i].name /\ e.age = endpoints[i].age
    BY <1>7, HeardIsTyped
  <2> HIDE DEF e
  <2> QED BY <1>6, <1>7, <2>1, <2>2
<1> QED BY <1>5, <1>8, <1>9, <1>10, <1>11 DEF News

\* Ages grow, up to the bound.
LEMMA ShapeTick ==
  ASSUME StateInv, Tick
  PROVE  Shape'
<1>1. /\ Started /\ UNCHANGED <<phase, config, access, ui, size, events>>
      /\ endpoints' = [i \in DOMAIN endpoints |-> [endpoints[i] EXCEPT !.age = Older(@)]]
      /\ Redraw(dirty \/ ~ ui.paused, ~ (recent /\ frame.ticks = 0), Least(frame.ticks + 1, 2))
  BY DEF Tick
<1>2. Settled /\ events' \in 0 .. MaxEvents /\ frame.ticks \in 0 .. 2 /\ size' \in Sizes
  BY <1>1 DEF StateInv, Shape, Started
<1>3. Least(frame.ticks + 1, 2) \in 0 .. 2
  BY <1>2 DEF Least
<1>4. IsList(endpoints) /\ IsList(endpoints') /\ Len(endpoints') = n /\ DOMAIN endpoints' = DOMAIN endpoints
  BY <1>1, <1>2, ListMapped, ListHas DEF Settled, Heard, n
<1>5. ASSUME NEW i \in DOMAIN endpoints
      PROVE  /\ IsEndpoint(endpoints'[i]) /\ endpoints'[i].name = endpoints[i].name
             /\ endpoints[i].age = <<>> => endpoints'[i].age = <<>>
  <2>1. IsEndpoint(endpoints[i])
    BY <1>2 DEF Settled, Heard
  <2> DEFINE age == Older(endpoints[i].age)
  <2>2. endpoints'[i] = [endpoints[i] EXCEPT !.age = age]
    BY <1>1
  <2>3. age \in Ages /\ (endpoints[i].age = <<>> => age = <<>>)
    BY <2>1, BoundsAssumption DEF IsEndpoint, Ages, Older, Least
  <2> HIDE DEF age
  <2> QED BY <2>1, <2>2, <2>3 DEF IsEndpoint
<1>6. Heard(endpoints', access)
  BY <1>2, <1>4, <1>5 DEF Settled, Heard, Names
<1>7. ui' \in UiType(n)
  BY <1>1, <1>2 DEF Settled
<1> QED BY <1>1, <1>2, <1>3, <1>4, <1>6, <1>7, ShapeStep

LEMMA HeardIsFleet ==
  ASSUME NEW es, NEW may, Heard(es, may)
  PROVE  Fleet(es)
BY DEF Heard, Names, Fleet, IsEndpoint

\* No key leads to a view, a row, a scroll position or an interval that does
\* not exist.
LEMMA ViewKeys ==
  ASSUME Settled
  PROVE  /\ [ui EXCEPT !.view = next_view(@)] \in UiType(n)
         /\ [ui EXCEPT !.view = prev_view(@)] \in UiType(n)
         /\ [ui EXCEPT !.view = 0] \in UiType(n)
         /\ \A i \in 1 .. 8 : [ui EXCEPT !.view = IF i \in 1 .. n THEN i ELSE @] \in UiType(n)
<1>1. n \in 1 .. MaxEndpoints /\ ui \in UiType(n) /\ MaxEndpoints \in Nat
  BY BoundsAssumption DEF Settled
<1>2. ui.view \in 0 .. n
  BY <1>1 DEF UiType
<1>3. next_view(ui.view) \in 0 .. n /\ prev_view(ui.view) \in 0 .. n /\ 0 \in 0 .. n
      /\ \A i \in 1 .. 8 : (IF i \in 1 .. n THEN i ELSE ui.view) \in 0 .. n
  BY <1>1, <1>2 DEF next_view, prev_view
<1> QED BY <1>1, <1>3 DEF UiType

LEMMA SelectionKeys ==
  ASSUME Settled
  PROVE  /\ \A delta \in {-1, 1, n} :
              [ui EXCEPT !.selected = Clamp(@ + delta, 1, Most(n, 1))] \in UiType(n)
         /\ [ui EXCEPT !.selected = 1, !.scroll = 0] \in UiType(n)
         /\ ui.selected \in 1 .. n =>
              [ui EXCEPT !.view = sorted_endpoint_indices(endpoints, ui.sort)[ui.selected]] \in UiType(n)
<1>1. n \in 1 .. MaxEndpoints /\ ui \in UiType(n) /\ MaxEndpoints \in Nat
  BY BoundsAssumption DEF Settled
<1>2. ui.selected \in 1 .. n /\ ui.sort \in Sorts
  BY <1>1 DEF UiType
<1>3. \A delta \in {-1, 1, n} : Clamp(ui.selected + delta, 1, Most(n, 1)) \in 1 .. n
  BY <1>1, <1>2 DEF Clamp, Least, Most
<1>4. 1 \in 1 .. n /\ 0 \in 0 .. MaxScroll
  BY <1>1 DEF MaxScroll
<1>5. sorted_endpoint_indices(endpoints, ui.sort)[ui.selected] \in 0 .. n
  <2>1. Fleet(endpoints) /\ DOMAIN endpoints = 1 .. n
    BY HeardIsFleet, ListHas DEF Settled, Heard, n
  <2>2. sorted_endpoint_indices(endpoints, ui.sort) \in [1 .. n -> 1 .. n]
    BY <1>2, <2>1, TableHasAll
  <2> QED BY <1>1, <1>2, <2>2
<1>6. [ui EXCEPT !.selected = 1, !.scroll = 0] \in UiType(n)
  BY <1>1, <1>4 DEF UiType
<1> QED BY <1>1, <1>3, <1>5, <1>6 DEF UiType

LEMMA DisplayKeys ==
  ASSUME Settled
  PROVE  /\ (IF ui.view = 0 THEN [ui EXCEPT !.sort = NextSort[@]] ELSE ui) \in UiType(n)
         /\ (IF ui.view # 0 THEN [ui EXCEPT !.mode = NextMode[@]] ELSE ui) \in UiType(n)
         /\ [ui EXCEPT !.paused = ~@] \in UiType(n)
         /\ [ui EXCEPT !.help = TRUE] \in UiType(n)
         /\ \A closes \in BOOLEAN : [ui EXCEPT !.help = ~closes] \in UiType(n)
<1>1. ui \in UiType(n)
  BY DEF Settled
<1>2. ui.sort \in Sorts /\ ui.mode \in {"overview", "requests", "tables"} /\ ui.paused \in BOOLEAN
  BY <1>1 DEF UiType
<1>3. NextSort[ui.sort] \in Sorts /\ NextMode[ui.mode] \in {"overview", "requests", "tables"}
  BY <1>2 DEF NextSort, NextMode, Sorts, Loads
<1>4. (~ ui.paused) \in BOOLEAN /\ TRUE \in BOOLEAN /\ \A closes \in BOOLEAN : (~ closes) \in BOOLEAN
  OBVIOUS
<1> DEFINE sort == NextSort[ui.sort]
           mode == NextMode[ui.mode]
           paused == ~ ui.paused
<1>5. sort \in Sorts /\ mode \in {"overview", "requests", "tables"} /\ paused \in BOOLEAN
  BY <1>3
<1>6. /\ [ui EXCEPT !.sort = sort] \in UiType(n)
      /\ [ui EXCEPT !.mode = mode] \in UiType(n)
      /\ [ui EXCEPT !.paused = paused] \in UiType(n)
      /\ \A b \in BOOLEAN : [ui EXCEPT !.help = b] \in UiType(n)
  <2> HIDE DEF sort, mode, paused
  <2> QED BY <1>1, <1>5 DEF UiType
<1> QED BY <1>1, <1>4, <1>6

LEMMA Clamped ==
  ASSUME NEW x \in Int, NEW low \in Int, NEW high \in Int, low <= high
  PROVE  Clamp(x, low, high) \in low .. high
  BY SMT DEF Clamp, Least, Most

LEMMA NumberKeys ==
  ASSUME Settled
  PROVE  /\ \A direction \in {-1, 1} : [ui EXCEPT !.refresh = AdjustedInterval(@, direction)] \in UiType(n)
         /\ \A delta \in {-1, 1} : Scrolled(delta) \in UiType(n)
<1>1. ui \in UiType(n)
  BY DEF Settled
<1>2. /\ ui.refresh \in Lowest["refresh_interval_ms"] .. Highest["refresh_interval_ms"]
      /\ ui.scroll \in 0 .. MaxScroll
  BY <1>1 DEF UiType
<1> DEFINE low == Lowest["refresh_interval_ms"]
           high == Highest["refresh_interval_ms"]
<1>3. low \in Int /\ high \in Int /\ low <= high
  BY DEF Lowest, Highest
<1> HIDE DEF low, high
<1>4. \A direction \in {-1, 1} : AdjustedInterval(ui.refresh, direction) \in low .. high
  <2> TAKE direction \in {-1, 1}
  <2>1. ui.refresh \in Int
    BY <1>2, <1>3 DEF low, high
  <2>2. ui.refresh + direction * Step(ui.refresh) \in Int
    BY <2>1, SMT DEF Step
  <2> QED BY <1>3, <2>2, Clamped DEF AdjustedInterval, low, high
<1>5. \A delta \in {-1, 1} : Clamp(ui.scroll + delta, 0, MaxScroll) \in 0 .. MaxScroll
  <2> TAKE delta \in {-1, 1}
  <2>1. ui.scroll + delta \in Int /\ 0 \in Int /\ MaxScroll \in Int /\ 0 <= MaxScroll
    BY <1>2 DEF MaxScroll
  <2> QED BY <2>1, Clamped
<1>6. \A direction \in {-1, 1} : [ui EXCEPT !.refresh = AdjustedInterval(@, direction)] \in UiType(n)
  BY <1>1, <1>4 DEF UiType, low, high
<1>7. \A delta \in {-1, 1} : Scrolled(delta) \in UiType(n)
  <2> SUFFICES ASSUME NEW delta \in {-1, 1} PROVE Scrolled(delta) \in UiType(n)
    OBVIOUS
  <2>1. PICK s \in 0 .. MaxScroll : s = Clamp(ui.scroll + delta, 0, MaxScroll)
    BY <1>5
  <2>2. Scrolled(delta) = IF ui.view = 0 THEN [ui EXCEPT !.scroll = s] ELSE ui
    BY <2>1 DEF Scrolled
  <2>3. [ui EXCEPT !.scroll = s] \in UiType(n)
    BY <1>1 DEF UiType
  <2> QED BY <1>1, <2>2, <2>3
<1> QED BY <1>6, <1>7

LEMMA ShapeUser ==
  ASSUME StateInv, User
  PROVE  Shape'
<1>1. CASE Quit
  <2>1. Started /\ phase' = "ended" /\ UNCHANGED <<config, access, endpoints, ui, size, frame, events>>
    BY <1>1 DEF Quit, known
  <2>2. Settled
    BY <2>1 DEF StateInv, Shape, Started
  <2>3. Settled'
    BY <2>1, <2>2 DEF Settled, n
  <2> QED BY <2>1, <2>3 DEF StateInv, Shape
<1>2. CASE ~ Quit
  <2>1. Started
    BY <1>2 DEF User, TabKey, BackTabKey, FleetKey, EnterKey, TopKey, SortKey, PanelKey,
                PauseKey, OtherKey, HelpKey, NumberKey, move_selection, adjust_interval,
                KeyWhileHelp, PageKey, Wheel, Resize, Pressed, Input
  <2>2. Settled /\ size \in Sizes
    BY <2>1 DEF StateInv, Shape, Started
  <2>3. ASSUME NEW new \in UiType(n), Pressed(new) PROVE Shape'
    BY <2>2, <2>3, ShapeInput DEF Pressed
  <2>4. ASSUME NEW new \in UiType(n), Input(new), UNCHANGED size PROVE Shape'
    BY <2>2, <2>4, ShapeInput
  <2>5. ui \in UiType(n)
    BY <2>2 DEF Settled
  <2>6. CASE TabKey \/ BackTabKey \/ FleetKey \/ \E i \in 1 .. 8 : NumberKey(i)
    BY <2>2, <2>3, <2>6, ViewKeys DEF TabKey, BackTabKey, FleetKey, NumberKey
  <2>7. CASE EnterKey \/ TopKey \/ \E delta \in {-1, 1, n} : move_selection(delta)
    BY <2>2, <2>3, <2>5, <2>7, SelectionKeys DEF EnterKey, TopKey, move_selection
  <2>8. CASE SortKey \/ PanelKey \/ PauseKey \/ OtherKey \/ HelpKey
    BY <2>2, <2>3, <2>5, <2>8, DisplayKeys DEF SortKey, PanelKey, PauseKey, OtherKey, HelpKey
  <2>9. CASE \E closes \in BOOLEAN : KeyWhileHelp(closes)
    BY <2>2, <2>4, <2>9, DisplayKeys DEF KeyWhileHelp
  <2>10. CASE \E direction \in {-1, 1} : adjust_interval(direction)
    BY <2>2, <2>3, <2>10, NumberKeys DEF adjust_interval
  <2>11. CASE \E delta \in {-1, 1} : PageKey(delta) \/ Wheel(delta)
    BY <2>2, <2>3, <2>4, <2>11, NumberKeys DEF PageKey, Wheel
  <2>12. CASE \E s \in Sizes : Resize(s)
    BY <2>5, <2>12, ShapeInput DEF Resize
  <2> QED BY <1>2, <2>6, <2>7, <2>8, <2>9, <2>10, <2>11, <2>12 DEF User
<1> QED BY <1>1, <1>2

LEMMA ShapeFirstFrame ==
  ASSUME StateInv, FirstFrame
  PROVE  Shape'
<1>1. /\ phase = "running" /\ UNCHANGED <<phase, config, access, endpoints, ui, usage, size, events>>
      /\ Redraw(dirty, TRUE, 0)
  BY DEF FirstFrame, known
<1>2. Settled /\ Inv /\ frame.ticks \in 0 .. 2 /\ size' \in Sizes /\ events' \in 0 .. MaxEvents
  BY <1>1 DEF StateInv, Shape
<1>3. frame'.ticks \in 0 .. 2
  <2>1. 0 \in 0 .. 2
    OBVIOUS
  <2> QED BY <1>1, <1>2, <2>1, TicksType
<1>4. Settled'
  BY <1>1, <1>2 DEF Settled, n
<1> QED BY <1>1, <1>2, <1>3, <1>4 DEF Shape

LEMMA ShapeUnchanged ==
  ASSUME StateInv, UNCHANGED <<phase, config, access, endpoints, ui, size, frame, events>>
  PROVE  Shape'
<1>1. n' = n
  BY DEF n
<1>2. Settled => Settled'
  BY <1>1 DEF Settled
<1> QED BY <1>1, <1>2 DEF StateInv, Shape

LEMMA StateInvPreserved ==
  StateInv /\ [Next]_vars => StateInv'
<1> SUFFICES ASSUME StateInv, [Next]_vars PROVE StateInv'
  OBVIOUS
<1>1. Inv'
  BY Preserved DEF StateInv
<1>2. Shape'
  <2>1. CASE FirstFrame
    BY <2>1, ShapeFirstFrame
  <2>2. CASE Settle
    BY <2>2, ShapeUnchanged DEF Settle, known
  <2>3. CASE Tick
    BY <2>3, ShapeTick
  <2>4. CASE News
    BY <2>4, ShapeNews
  <2>5. CASE User
    BY <2>5, ShapeUser
  <2>6. CASE UNCHANGED vars
    BY <2>6, ShapeUnchanged DEF vars, known
  <2> QED BY <2>1, <2>2, <2>3, <2>4, <2>5, <2>6 DEF Next
<1> QED BY <1>1, <1>2 DEF StateInv

\* What every reachable state has.
THEOREM ScreenInvariant == Spec => []StateInv
<1>1. Init => StateInv
  BY First, ShapeFirst DEF StateInv
<1> QED BY <1>1, StateInvPreserved, PTL DEF Spec

\* Whatever it is started with, the program runs with settings in their ranges
\* and endpoints with names of their own, and no keys lead to a view, a row, a
\* scroll position or an interval that does not exist.
THEOREM ScreenTypeCorrect == Spec => []TypeOK
BY ScreenInvariant, ShapeTyped, PTL

\* In a terminal of any size, with as many endpoints as there are: no section
\* costs another one its place, every chart can be scrolled to, and the bars
\* and the axis of a usage chart fit (ui/fleet.rs, ui/endpoint.rs).
THEOREM SectionsSurviveAlways == Spec => []SectionsSurvive
<1>1. StateInv => n \in 0 .. MaxEndpoints
  BY BoundsAssumption DEF StateInv, Shape, Settled
<1>2. \A m \in 0 .. MaxEndpoints : LayoutIsSound[m]
  <2> TAKE m \in 0 .. MaxEndpoints
  <2>1. m \in Nat
    BY BoundsAssumption
  <2>2. \A s \in Terminals : SizeIsSound(s, m)
    BY <2>1, TerminalsAssumption, SizesAreSound
  <2> QED BY <2>2 DEF LayoutIsSound
<1>3. StateInv => SectionsSurvive
  BY <1>1, <1>2 DEF SectionsSurvive
<1> QED BY <1>3, ScreenInvariant, PTL

-----------------------------------------------------------------------------
(* What is said of the fleet.                                              *)

LEMMA PlainMean ==
  ASSUME NEW S, IsFiniteSet(S), S # {}, NEW u, \A x \in S : u[x] \in Int
  PROVE  /\ \E x \in S : u[x] * Cardinality(S) <= Total(u, S)
         /\ \E x \in S : u[x] * Cardinality(S) >= Total(u, S)
<1> DEFINE c == [x \in S |-> 1]
<1>1. Total(c, S) = Cardinality(S)
  BY TotalOfOnes
<1>2. \A x \in S : c[x] \in Nat /\ u[x] = u[x] * c[x]
  OBVIOUS
<1> HIDE DEF c
<1> QED BY <1>1, <1>2, MeanIsBetween

\* The KV figure of any finite set of series is a mean of what they report.
LEMMA KvMean ==
  ASSUME NEW series, IsFiniteSet(DOMAIN series), \A x \in DOMAIN series : series[x] \in SeriesType
  PROVE  LET rep == Told([x \in DOMAIN series |-> series[x].usage])
             kv == aggregate_kv(series)
         IN  kv # <<>> =>
               /\ kv = <<kv[1]>>
               /\ \E x \in rep : series[x].usage[1] * kv[1].over <= kv[1].sum
               /\ \E x \in rep : series[x].usage[1] * kv[1].over >= kv[1].sum
               /\ kv[1].weighted => \A x \in rep : series[x].capacity # <<>>
<1> DEFINE usages == [x \in DOMAIN series |-> series[x].usage]
           rep == Told(usages)
           capacity == [x \in rep |-> series[x].capacity]
           used == [x \in rep |-> series[x].usage[1]]
           held == [x \in rep |-> series[x].capacity[1]]
           product == [x \in rep |-> series[x].usage[1] * series[x].capacity[1]]
           total == SumOpt(capacity)
           weighted == Told(capacity) = rep /\ total # <<>> /\ total[1] > 0
           kv == aggregate_kv(series)
<1>1. IsFiniteSet(DOMAIN usages) /\ \A x \in DOMAIN usages : usages[x] \in Options(Int)
  BY DEF SeriesType
<1>2. rep \subseteq DOMAIN series /\ IsFiniteSet(rep) /\ \A x \in rep : used[x] \in Int
  <2> HIDE DEF usages
  <2>1. rep \subseteq DOMAIN usages /\ IsFiniteSet(rep) /\ \A x \in rep : usages[x][1] \in Int
    BY <1>1, ToldHas
  <2> QED BY <2>1 DEF usages
<1>3. IsFiniteSet(DOMAIN capacity) /\ \A x \in DOMAIN capacity : capacity[x] \in Options(Nat)
  BY <1>2 DEF SeriesType
<1> HIDE DEF rep
<1>4. kv = IF rep = {} THEN <<>>
           ELSE IF weighted THEN <<[weighted |-> TRUE, over |-> total[1], sum |-> Sum(product)]>>
           ELSE <<[weighted |-> FALSE, over |-> Cardinality(rep), sum |-> Sum(used)]>>
  BY DEF aggregate_kv, rep
<1>5. SUFFICES ASSUME kv # <<>>
               PROVE  /\ kv = <<kv[1]>>
                      /\ \E x \in rep : used[x] * kv[1].over <= kv[1].sum
                      /\ \E x \in rep : used[x] * kv[1].over >= kv[1].sum
                      /\ kv[1].weighted => \A x \in rep : capacity[x] # <<>>
  BY DEF rep
<1>6. rep # {}
  BY <1>4, <1>5
<1>7. CASE weighted
  <2>1. Told(capacity) = rep /\ \A x \in rep : held[x] \in Nat /\ capacity[x] # <<>>
    <3>1. Told(capacity) = rep /\ \A x \in Told(capacity) : capacity[x][1] \in Nat /\ capacity[x] # <<>>
      <4> HIDE DEF capacity
      <4> QED BY <1>3, <1>7, ToldHas DEF Told
    <3> QED BY <3>1
  <2>2. DOMAIN capacity = rep /\ \A x \in DOMAIN capacity : capacity[x] \in Options(Int)
    <3>1. Options(Nat) \subseteq Options(Int)
      BY DEF Options
    <3> QED BY <1>3, <3>1
  <2>3. total = <<Total(held, rep)>>
    <3> DEFINE told == [x \in Told(capacity) |-> capacity[x][1]]
    <3>1. told = held
      BY <2>1
    <3>2. total = <<Total(told, Told(capacity))>>
      <4> HIDE DEF capacity
      <4> QED BY <1>3, <1>6, <2>1, <2>2, SumOptIs
    <3> HIDE DEF told, held
    <3> QED BY <2>1, <3>1, <3>2
  <2>4. DOMAIN product = rep /\ \A x \in rep : product[x] = used[x] * held[x]
    OBVIOUS
  <2> HIDE DEF product, used, held, capacity
  <2>5. \A x \in rep : product[x] \in Int
    BY <1>2, <2>1, <2>4
  <2>6. Sum(product) = Total(product, rep)
    BY <1>2, <2>4, <2>5, SumIsTotal
  <2>7. kv = <<[weighted |-> TRUE, over |-> Total(held, rep), sum |-> Total(product, rep)]>>
    <3> HIDE DEF weighted
    <3>1. total[1] = Total(held, rep)
      BY <2>3
    <3> QED BY <1>4, <1>6, <1>7, <2>6, <3>1
  <2>8. /\ \E x \in rep : used[x] * Total(held, rep) <= Total(product, rep)
        /\ \E x \in rep : used[x] * Total(held, rep) >= Total(product, rep)
    BY <1>2, <1>6, <2>1, <2>4, MeanIsBetween
  <2> HIDE DEF kv
  <2> QED BY <2>1, <2>7, <2>8
<1>8. CASE ~ weighted
  <2>1. DOMAIN used = rep
    OBVIOUS
  <2> HIDE DEF used
  <2>2. Sum(used) = Total(used, rep)
    BY <1>2, <2>1, SumIsTotal
  <2>3. kv = <<[weighted |-> FALSE, over |-> Cardinality(rep), sum |-> Total(used, rep)]>>
    <3> HIDE DEF weighted
    <3> QED BY <1>4, <1>6, <1>8, <2>2
  <2>4. /\ \E x \in rep : used[x] * Cardinality(rep) <= Total(used, rep)
        /\ \E x \in rep : used[x] * Cardinality(rep) >= Total(used, rep)
    BY <1>2, <1>6, PlainMean
  <2> HIDE DEF kv
  <2> QED BY <2>3, <2>4
<1> QED BY <1>7, <1>8

LEMMA MinIs ==
  ASSUME NEW S \in SUBSET Nat, S # {}
  PROVE  Min(S) \in S
<1>1. \E x \in S : \A y \in S : x <= y
  BY LeastNatural
<1> QED BY <1>1 DEF Min

\* What the totals are worked out from: how many are in which state, what the
\* fresh ones said, and their series.
UpIn(es, r) == {i \in DOMAIN es : freshness(es[i], r) = "Fresh" /\ es[i].healthy # "no"}
StaleIn(es, r) == {i \in DOMAIN es : freshness(es[i], r) = "Stale"}
DownIn(es, r) ==
  {i \in DOMAIN es : \/ freshness(es[i], r) = "Never"
                     \/ freshness(es[i], r) = "Fresh" /\ es[i].healthy = "no"}
Said(es, r) == [i \in Contributors(es, r) |-> aggregate(es[i].curated)]
SeriesOf(es, r) == UNION {{<<i, k>> : k \in DOMAIN es[i].curated} : i \in Contributors(es, r)}
SeriesIn(es, r) == [s \in SeriesOf(es, r) |-> es[s[1]].curated[s[2]]]

Worst(said) == WorstOpt([i \in DOMAIN said |-> said[i].ttft])
Totals(total, up, stale, down, said, series) ==
  [total |-> total, up |-> Cardinality(up), stale |-> Cardinality(stale), down |-> Cardinality(down),
   loads |-> [l \in Loads |-> SumOpt([i \in DOMAIN said |-> said[i].loads[l]])],
   kv |-> aggregate_kv(series),
   ttft |-> Worst(said),
   worst |-> IF Worst(said) = <<>> THEN <<>> ELSE <<Min({i \in DOMAIN said : said[i].ttft = Worst(said)})>>]

LEMMA FleetIsTotals ==
  ASSUME NEW es, NEW r
  PROVE  aggregate_fleet(es, r) =
           Totals(Len(es), UpIn(es, r), StaleIn(es, r), DownIn(es, r), Said(es, r), SeriesIn(es, r))
<1> DEFINE fresh == Contributors(es, r)
           said == Said(es, r)
<1>1. DOMAIN said = fresh /\ said = [i \in fresh |-> aggregate(es[i].curated)]
  BY DEF Said
<1> QED
  BY <1>1, Zenon DEF aggregate_fleet, Totals, Worst, Tally, UpIn, StaleIn, DownIn, SeriesIn, SeriesOf, Said

\* An endpoint is up, stale or down.
LEMMA TallyIsTotal ==
  ASSUME NEW es, IsList(es), NEW r
  PROVE  LET f == aggregate_fleet(es, r)
         IN  f.up + f.stale + f.down = Len(es) /\ f.total = Len(es)
<1> DEFINE up == UpIn(es, r)
           stale == StaleIn(es, r)
           down == DownIn(es, r)
           f == aggregate_fleet(es, r)
<1>1. /\ f.up = Cardinality(up) /\ f.stale = Cardinality(stale) /\ f.down = Cardinality(down)
      /\ f.total = Len(es)
  BY FleetIsTotals DEF Totals
<1>2. DOMAIN es = 1 .. Len(es) /\ Len(es) \in Nat
  BY ListHas
<1>3. IsFiniteSet(DOMAIN es) /\ Cardinality(DOMAIN es) = Len(es)
  <2> DEFINE m == Len(es)
  <2> HIDE DEF m
  <2>1. IsFiniteSet(1 .. m) /\ Cardinality(1 .. m) = m
    <3>1. m \in Nat /\ m \in Int /\ 1 \in Int
      BY <1>2 DEF m
    <3>2. IsFiniteSet(1 .. m) /\ Cardinality(1 .. m) = IF 1 > m THEN 0 ELSE m - 1 + 1
      BY <3>1, FS_Interval
    <3> QED BY <3>1, <3>2
  <2> QED BY <1>2, <2>1 DEF m
<1>4. /\ up \cup stale \cup down = DOMAIN es
      /\ up \cap stale = {} /\ (up \cup stale) \cap down = {}
  <2>1. \A i \in DOMAIN es : freshness(es[i], r) \in {"Never", "Stale", "Fresh"}
    BY DEF freshness
  <2> QED BY <2>1 DEF UpIn, StaleIn, DownIn
<1>5. up \subseteq DOMAIN es /\ stale \subseteq DOMAIN es /\ down \subseteq DOMAIN es
  BY DEF UpIn, StaleIn, DownIn
<1> HIDE DEF up, stale, down, f
<1>6. IsFiniteSet(up) /\ IsFiniteSet(stale) /\ IsFiniteSet(down)
  BY <1>3, <1>5, FS_Subset
<1>7. IsFiniteSet(up \cup stale) /\ Cardinality(up \cup stale) = Cardinality(up) + Cardinality(stale)
  <2>1. Cardinality(up \cup stale) = Cardinality(up) + Cardinality(stale) - Cardinality(up \cap stale)
    BY <1>6, FS_Union
  <2>2. Cardinality(up \cap stale) = 0 /\ Cardinality(up) \in Nat /\ Cardinality(stale) \in Nat
    BY <1>4, <1>6, FS_EmptySet, FS_CardinalityType
  <2>3. IsFiniteSet(up \cup stale)
    BY <1>6, FS_Union
  <2> QED BY <2>1, <2>2, <2>3
<1>8. Len(es) = Cardinality(up) + Cardinality(stale) + Cardinality(down)
  <2>1. Cardinality((up \cup stale) \cup down)
          = Cardinality(up \cup stale) + Cardinality(down) - Cardinality((up \cup stale) \cap down)
    BY <1>6, <1>7, FS_Union
  <2>2. Cardinality((up \cup stale) \cap down) = 0
    BY <1>4, FS_EmptySet
  <2>3. Cardinality(up) \in Nat /\ Cardinality(stale) \in Nat /\ Cardinality(down) \in Nat
    BY <1>6, FS_CardinalityType
  <2> QED BY <1>3, <1>4, <1>7, <2>1, <2>2, <2>3
<1> QED BY <1>1, <1>8 DEF f

\* The totals are the same whatever was said by one that fell silent.
LEMMA SilentLeftOut ==
  ASSUME NEW es, IsList(es), NEW r, NEW i \in DOMAIN es, NEW s, freshness(es[i], r) # "Fresh", IsEndpoint(es[i])
  PROVE  aggregate_fleet([es EXCEPT ![i].curated = s], r) = aggregate_fleet(es, r)
<1> DEFINE t == [es EXCEPT ![i].curated = s]
<1>1. DOMAIN t = DOMAIN es /\ Len(t) = Len(es)
  <2>1. es = [j \in DOMAIN es |-> es[j]]
    BY ListHas
  <2>2. t = [j \in DOMAIN t |-> t[j]] /\ DOMAIN t = DOMAIN es
    BY <2>1
  <2>3. t = [j \in DOMAIN es |-> t[j]]
    BY <2>2
  <2> HIDE DEF t
  <2> QED BY <2>2, <2>3, ListMapped
<1>2. ASSUME NEW j \in DOMAIN es
      PROVE  /\ t[j].age = es[j].age /\ t[j].healthy = es[j].healthy
             /\ freshness(es[j], r) = "Fresh" => t[j].curated = es[j].curated
  <2>1. CASE j = i
    <3>1. t[j] = [es[i] EXCEPT !.curated = s]
      BY <2>1
    <3>2. t[j].age = es[i].age /\ t[j].healthy = es[i].healthy
      BY <3>1 DEF IsEndpoint
    <3> HIDE DEF t
    <3> QED BY <2>1, <3>2
  <2>2. CASE j # i
    BY <2>2
  <2> QED BY <2>1, <2>2
<1> HIDE DEF t
<1>3. \A j \in DOMAIN es : freshness(t[j], r) = freshness(es[j], r)
  BY <1>2, Zenon DEF freshness
<1> DEFINE fresh == Contributors(es, r)
<1>4. Contributors(t, r) = fresh
  BY <1>1, <1>3 DEF Contributors
<1>5. \A j \in fresh : t[j].curated = es[j].curated
  BY <1>2, Zenon DEF Contributors
<1>6. UpIn(t, r) = UpIn(es, r) /\ StaleIn(t, r) = StaleIn(es, r) /\ DownIn(t, r) = DownIn(es, r)
  BY <1>1, <1>2, <1>3 DEF UpIn, StaleIn, DownIn
<1>7. Said(t, r) = Said(es, r)
  BY <1>4, <1>5 DEF Said
<1>8. SeriesOf(t, r) = SeriesOf(es, r)
  BY <1>4, <1>5 DEF SeriesOf
<1>9. SeriesIn(t, r) = SeriesIn(es, r)
  <2>1. \A x \in SeriesOf(es, r) : x[1] \in fresh
    BY DEF SeriesOf
  <2> QED BY <1>5, <1>8, <2>1 DEF SeriesIn
<1>10. aggregate_fleet(t, r) = aggregate_fleet(es, r)
  BY <1>1, <1>6, <1>7, <1>9, FleetIsTotals
<1> QED BY <1>10 DEF t

\* The worst latency is of the endpoint that it names, which is fresh.
LEMMA WorstIsOfOne ==
  ASSUME NEW es, IsList(es), \A i \in DOMAIN es : IsEndpoint(es[i]), NEW r
  PROVE  LET f == aggregate_fleet(es, r)
         IN  \A y \in DOMAIN f.worst :
               /\ f.worst[y] \in Contributors(es, r)
               /\ aggregate(es[f.worst[y]].curated).ttft = f.ttft
<1> DEFINE f == aggregate_fleet(es, r)
           said == Said(es, r)
           fresh == Contributors(es, r)
           worst == Worst(said)
           Those == {i \in fresh : said[i].ttft = worst}
<1>1. DOMAIN said = fresh /\ \A i \in fresh : said[i] = aggregate(es[i].curated)
  BY DEF Said
<1>2. f.ttft = worst /\ f.worst = IF worst = <<>> THEN <<>> ELSE <<Min(Those)>>
  BY <1>1, FleetIsTotals, Zenon DEF Totals
<1>3. fresh \subseteq DOMAIN es /\ IsFiniteSet(fresh) /\ fresh \subseteq Nat
  <2>1. fresh \subseteq DOMAIN es
    BY DEF Contributors
  <2>2. DOMAIN es = 1 .. Len(es) /\ Len(es) \in Nat
    BY ListHas
  <2>3. IsFiniteSet(DOMAIN es)
    <3> DEFINE m == Len(es)
    <3>1. m \in Nat
      BY <2>2
    <3> HIDE DEF m
    <3>2. IsFiniteSet(1 .. m)
      BY <3>1, FS_Interval
    <3> QED BY <2>2, <3>2 DEF m
  <2> QED BY <2>1, <2>2, <2>3, FS_Subset
<1>4. \A i \in fresh : said[i].ttft \in Options(Int)
  BY <1>1, <1>3, AggregateType DEF IsEndpoint
<1> SUFFICES ASSUME NEW y \in DOMAIN f.worst
             PROVE  f.worst[y] \in fresh /\ aggregate(es[f.worst[y]].curated).ttft = f.ttft
  OBVIOUS
<1>5. worst # <<>>
  BY <1>2
<1>6. Those # {} /\ Those \in SUBSET Nat
  <2> DEFINE ttfts == [i \in DOMAIN said |-> said[i].ttft]
  <2>1. worst = WorstOpt(ttfts)
    BY DEF Worst
  <2>2. IsFiniteSet(DOMAIN ttfts) /\ \A i \in DOMAIN ttfts : ttfts[i] \in Options(Int)
    BY <1>1, <1>3, <1>4
  <2>3. PICK i \in DOMAIN ttfts : ttfts[i] = worst
    <3> HIDE DEF ttfts, worst
    <3> QED BY <1>5, <2>1, <2>2, WorstOptIs
  <2> QED BY <1>1, <1>3, <2>3
<1> HIDE DEF Those
<1>7. Min(Those) \in Those
  BY <1>6, MinIs
<1>8. f.worst = <<Min(Those)>>
  BY <1>2, <1>5
<1>9. f.worst[y] = Min(Those)
  <2> HIDE DEF f
  <2> QED BY <1>8
<1> QED BY <1>1, <1>2, <1>7, <1>9 DEF Those

\* The series that report are those of endpoints that are fresh.
LEMMA FleetKv ==
  ASSUME StateInv, phase # "refused",
         NEW kv, aggregate_fleet(endpoints, ui.refresh).kv = <<kv>>
  PROVE  KvIsAMean(kv)
<1> DEFINE r == ui.refresh
           fresh == Contributors(endpoints, r)
           series == SeriesIn(endpoints, r)
           Of(x) == endpoints[x[1]].curated[x[2]]
           rep == Told([x \in DOMAIN series |-> series[x].usage])
           reporting == {x \in (1 .. n) \X UNION {DOMAIN s : s \in Snapshots} :
                           /\ ~Silent(x[1]) /\ x[2] \in DOMAIN endpoints[x[1]].curated
                           /\ Of(x).usage # <<>>}
<1>1. DOMAIN endpoints = 1 .. n /\ n \in Nat /\ \A i \in 1 .. n : endpoints[i].curated \in Snapshots \cup {<<>>}
  BY ListHas DEF StateInv, Shape, Settled, Heard, IsEndpoint, n
<1>2. fresh = {i \in 1 .. n : ~ Silent(i)}
  BY <1>1 DEF Contributors, Silent
<1>3. DOMAIN series = UNION {{<<i, k>> : k \in DOMAIN endpoints[i].curated} : i \in fresh}
  BY DEF SeriesIn, SeriesOf
<1>4. \A x \in DOMAIN series : series[x] = Of(x)
  BY DEF SeriesIn
<1> HIDE DEF series, fresh
<1>5. IsFiniteSet(DOMAIN series)
  <2>1. IsFiniteSet(fresh)
    <3>1. IsFiniteSet(1 .. n)
      <4> DEFINE m == n
      <4>1. m \in Nat
        BY <1>1
      <4> HIDE DEF m
      <4>2. IsFiniteSet(1 .. m)
        BY <4>1, FS_Interval
      <4> QED BY <4>2 DEF m
    <3> QED BY <1>2, <3>1, FS_Subset
  <2> DEFINE parts == [i \in fresh |-> {<<i, k>> : k \in DOMAIN endpoints[i].curated}]
             all == {parts[i] : i \in fresh}
  <2>2. \A i \in fresh : IsFiniteSet(parts[i])
    <3> TAKE i \in fresh
    <3> DEFINE keys == DOMAIN endpoints[i].curated
               pairs == {<<i, k>> : k \in keys}
    <3>1. IsFiniteSet(keys)
      BY <1>1, <1>2, CuratedHas
    <3>2. [k \in keys |-> <<i, k>>] \in Surjection(keys, pairs)
      BY DEF Surjection
    <3>3. parts[i] = pairs
      OBVIOUS
    <3> HIDE DEF keys, pairs, parts
    <3> QED BY <3>1, <3>2, <3>3, FS_Surjection
  <2>3. parts \in Surjection(fresh, all)
    BY DEF Surjection
  <2>4. DOMAIN series = UNION all
    BY <1>3
  <2>5. \A part \in all : IsFiniteSet(part)
    BY <2>2
  <2> HIDE DEF parts, all
  <2>6. IsFiniteSet(all)
    BY <2>1, <2>3, FS_Surjection
  <2> QED BY <2>4, <2>5, <2>6, FS_UNION
<1>6. \A x \in DOMAIN series : /\ x \in (1 .. n) \X UNION {DOMAIN s : s \in Snapshots}
                              /\ ~ Silent(x[1]) /\ x[2] \in DOMAIN endpoints[x[1]].curated
  <2> TAKE x \in DOMAIN series
  <2>1. PICK i \in fresh : \E k \in DOMAIN endpoints[i].curated : x = <<i, k>>
    BY <1>3
  <2>2. PICK k \in DOMAIN endpoints[i].curated : x = <<i, k>>
    BY <2>1
  <2>3. i \in 1 .. n /\ ~ Silent(i)
    BY <1>2
  <2>4. endpoints[i].curated \in Snapshots
    <3>1. DOMAIN << >> = {}
      OBVIOUS
    <3> QED BY <1>1, <2>2, <2>3, <3>1
  <2> QED BY <2>2, <2>3, <2>4
<1>7. \A x \in reporting : x \in DOMAIN series
  <2> TAKE x \in reporting
  <2>1. PICK i \in 1 .. n, k \in UNION {DOMAIN s : s \in Snapshots} : x = <<i, k>>
    OBVIOUS
  <2>2. i \in fresh /\ k \in DOMAIN endpoints[i].curated
    BY <1>2, <2>1
  <2> QED BY <1>3, <2>1, <2>2
<1>8. rep = reporting
  <2>1. rep = {x \in DOMAIN series : Of(x).usage # <<>>}
    BY <1>4 DEF Told
  <2> QED BY <1>6, <1>7, <2>1
<1>9. \A x \in DOMAIN series : series[x] \in SeriesType
  BY <1>1, <1>4, <1>6, CuratedHas
<1>10. aggregate_kv(series) = <<kv>>
  BY FleetIsTotals DEF Totals, series
<1>11. \A x \in rep : series[x] = Of(x)
  BY <1>4 DEF Told
<1>12. /\ \E x \in rep : series[x].usage[1] * kv.over <= kv.sum
       /\ \E x \in rep : series[x].usage[1] * kv.over >= kv.sum
       /\ kv.weighted => \A x \in rep : series[x].capacity # <<>>
  <2>1. aggregate_kv(series) # <<>> /\ aggregate_kv(series)[1] = kv
    BY <1>10
  <2> QED BY <1>5, <1>9, <2>1, KvMean
<1>13. /\ \E x \in reporting : Of(x).usage[1] * kv.over <= kv.sum
       /\ \E x \in reporting : Of(x).usage[1] * kv.over >= kv.sum
       /\ kv.weighted => \A x \in reporting : Of(x).capacity # <<>>
  <2> HIDE DEF rep, reporting, Of
  <2> QED BY <1>8, <1>11, <1>12
<1> QED BY <1>13, Zenon DEF KvIsAMean

LEMMA KvIsOne ==
  ASSUME StateInv, phase # "refused", NEW y \in DOMAIN aggregate_fleet(endpoints, ui.refresh).kv
  PROVE  KvIsAMean(aggregate_fleet(endpoints, ui.refresh).kv[y])
<1> DEFINE fleet == aggregate_fleet(endpoints, ui.refresh)
<1>1. fleet.kv = aggregate_kv(SeriesIn(endpoints, ui.refresh))
  BY FleetIsTotals DEF Totals
<1>2. fleet.kv = <<>> \/ \E kv : fleet.kv = <<kv>>
  BY <1>1 DEF aggregate_kv
<1> HIDE DEF fleet
<1>3. PICK kv : fleet.kv = <<kv>>
  BY <1>2 DEF fleet
<1>4. y = 1 /\ fleet.kv[y] = kv
  BY <1>3 DEF fleet
<1> QED BY <1>3, <1>4, FleetKv DEF fleet

\* When totals are on screen, they are those of the present.
LEMMA ShownIs ==
  ASSUME StateInv, NEW x \in DOMAIN Shown
  PROVE  /\ phase # "refused"
         /\ Shown[x] = aggregate_fleet(endpoints, ui.refresh)
         /\ frame.picture.content.badges = [i \in DOMAIN endpoints |-> Badge(endpoints[i], ui.refresh)]
<1>1. Started /\ ~ dirty /\ ~ ui.paused /\ ui.view = 0 /\ Shown = frame.picture.content.fleet
  <2>1. DOMAIN << >> = {}
    OBVIOUS
  <2> QED BY <2>1 DEF Shown
<1>2. frame.picture = Picture(endpoints, ui, usage, size)
  BY <1>1 DEF StateInv, Inv, FrameIsCurrent
<1>3. frame.picture.content = FleetPicture(endpoints, ui, usage, size)
  BY <1>1, <1>2 DEF Picture
<1> DEFINE cards == FleetCardsHeight(size.w, BodyHeight(size.h), Len(endpoints))
           fleet == aggregate_fleet(endpoints, ui.refresh)
<1>4. frame.picture.content.fleet = IF cards > 0 THEN <<fleet>> ELSE <<>>
  BY <1>3 DEF FleetPicture
<1>5. frame.picture.content.badges = [i \in DOMAIN endpoints |-> Badge(endpoints[i], ui.refresh)]
  BY <1>3 DEF FleetPicture
<1> HIDE DEF fleet, cards
<1>6. Shown[x] = fleet
  BY <1>1, <1>4
<1> QED BY <1>1, <1>5, <1>6 DEF Started, fleet

\* The fleet's numbers are of the endpoints that answer (App::aggregate_fleet):
\* whatever the endpoints, their series and the sizes of both, each endpoint is
\* counted once, what one said before it fell silent has no say in any total,
\* the KV figure is a mean of what was told, the worst latency is of the
\* endpoint it names, and one that may not be asked is never up.
THEOREM FleetIsHonestAlways == Spec => []FleetIsHonest
<1>1. StateInv => FleetIsHonest
  <2> SUFFICES ASSUME StateInv, NEW x \in DOMAIN Shown
               PROVE  LET fleet == Shown[x]
                      IN  /\ fleet.up + fleet.stale + fleet.down = n /\ fleet.total = n
                          /\ SilentHaveNoSay(fleet)
                          /\ \A y \in DOMAIN fleet.kv : KvIsAMean(fleet.kv[y])
                          /\ \A y \in DOMAIN fleet.worst :
                               /\ ~Silent(fleet.worst[y])
                               /\ aggregate(endpoints[fleet.worst[y]].curated).ttft = fleet.ttft
                          /\ \A i \in 1 .. n : ~access[i] => frame.picture.content.badges[i] = "INIT"
    BY DEF FleetIsHonest
  <2> DEFINE fleet == aggregate_fleet(endpoints, ui.refresh)
  <2>1. /\ phase # "refused" /\ Shown[x] = fleet
        /\ frame.picture.content.badges = [i \in DOMAIN endpoints |-> Badge(endpoints[i], ui.refresh)]
    BY ShownIs
  <2>2. Heard(endpoints, access)
    BY <2>1 DEF StateInv, Shape, Settled
  <2>3. /\ IsList(endpoints) /\ DOMAIN endpoints = 1 .. n
        /\ \A i \in DOMAIN endpoints : IsEndpoint(endpoints[i]) /\ (~ access[i] => endpoints[i].age = <<>>)
    BY <2>2, ListHas DEF Heard, n
  <2>4. fleet.up + fleet.stale + fleet.down = n /\ fleet.total = n
    BY <2>3, TallyIsTotal DEF n
  <2>5. SilentHaveNoSay(fleet)
    <3> SUFFICES ASSUME NEW i \in 1 .. n, NEW s \in Snapshots, Silent(i)
                 PROVE  aggregate_fleet([endpoints EXCEPT ![i].curated = s], ui.refresh) = fleet
      BY DEF SilentHaveNoSay
    <3> QED BY <2>3, SilentLeftOut DEF Silent
  <2>6. \A y \in DOMAIN fleet.kv : KvIsAMean(fleet.kv[y])
    BY <2>1, KvIsOne
  <2>7. \A y \in DOMAIN fleet.worst :
          /\ ~ Silent(fleet.worst[y])
          /\ aggregate(endpoints[fleet.worst[y]].curated).ttft = fleet.ttft
    <3>1. \A y \in DOMAIN fleet.worst :
            /\ fleet.worst[y] \in Contributors(endpoints, ui.refresh)
            /\ aggregate(endpoints[fleet.worst[y]].curated).ttft = fleet.ttft
      BY <2>3, WorstIsOfOne
    <3> HIDE DEF fleet
    <3> QED BY <3>1 DEF Contributors, Silent
  <2>8. \A i \in 1 .. n : ~ access[i] => frame.picture.content.badges[i] = "INIT"
    BY <2>1, <2>3 DEF Badge, freshness
  <2> HIDE DEF fleet
  <2> QED BY <2>1, <2>4, <2>5, <2>6, <2>7, <2>8
<1> QED BY <1>1, ScreenInvariant, PTL
=============================================================================
