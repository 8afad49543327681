----------------------------- MODULE StockChart -----------------------------
(***************************************************************************)
(* The chart of a stock's page.  React renders the buttons; the chart is   *)
(* an object of lightweight-charts in a ref, with one series per line.     *)
(* One effect makes the chart anew when its type or its time format        *)
(* changes; another draws on it whenever data, price, news or buttons      *)
(* change, and draws nothing while the range has no bars.  The bars of an  *)
(* answer are known by its range and their number.  Colours, margins and   *)
(* the popup of headlines are left out.                                    *)
(***************************************************************************)
EXTENDS Naturals, FiniteSets

CONSTANTS
  Ranges,      \* the ranges chosen from
  Indicators,  \* the indicators switched
  Sizes,       \* how many bars an answer may have
  Quotes,      \* the current prices of the stock
  News,        \* what the news query may answer
  Nothing      \* no answer, no price, no line

AllRanges == {"1H", "1D", "1W", "1M", "3M", "6M", "1Y"}
Averages == {"SMA20", "SMA50", "SMA200", "EMA12", "EMA26"}
ChartTypes == {"candlestick", "line"}

VARIABLES
  range, chartType, enabled,  \* the buttons
  data,                       \* what the tab has of each range, and whether it is asking
  currentPrice, news,
  chart                       \* what is drawn

chartVars == <<range, chartType, enabled, data, currentPrice, news, chart>>

Limit(r) ==
  CASE r = "1H" -> 60 [] r = "1D" -> 390 [] r = "1W" -> 5 [] r = "1M" -> 21
    [] r = "3M" -> 63 [] r = "6M" -> 126 [] r = "1Y" -> 252
IsDaily(r) == r \notin {"1H", "1D"}

\* The bars that an indicator takes for its first value.
Needs(i) ==
  CASE i = "SMA20" -> 20 [] i = "SMA50" -> 50 [] i = "SMA200" -> 200
    [] i = "EMA12" -> 12 [] i = "EMA26" -> 26 [] i = "RSI" -> 15 [] i = "MACD" -> 35

Bars == {a \in [range : Ranges, size : Sizes] : a.size > 0}

ASSUME ChartAssumption ==
  /\ Ranges \subseteq AllRanges /\ "1W" \in Ranges
  /\ Indicators \subseteq Averages \cup {"RSI", "MACD"}
  /\ Sizes \subseteq Nat
  /\ \A x \in Sizes \cup Quotes \cup News \cup Bars : x # Nothing

-----------------------------------------------------------------------------
(* The chart. *)

NewChart(type, daily) ==
  [type |-> type, daily |-> daily, bars |-> Nothing, price |-> Nothing,
   lines |-> [i \in Indicators |-> Nothing], markers |-> Nothing]

\* The line of an indicator that is off is removed.  One that is on is given the values of
\* the bars, unless these are too few.
UpdateLine(i, line, a, on) ==
  IF i \notin on THEN Nothing ELSE IF a.size >= Needs(i) THEN a ELSE line

\* What the markers tell of: the pairs of averages that cross, and the days of the news.
BuildMarkers(a, on, articles) ==
  [bars |-> a,
   averages |-> IF Cardinality(on \cap Averages) >= 2 THEN on \cap Averages ELSE {},
   news |-> IF IsDaily(a.range) THEN articles ELSE Nothing]

UpdateData(c, a, p) == [c EXCEPT !.bars = a, !.price = p]

Drawn(c, a, on, p, articles) ==
  [UpdateData(c, a, p) EXCEPT
     !.lines = [i \in Indicators |-> UpdateLine(i, c.lines[i], a, on)],
     !.markers = BuildMarkers(a, on, articles)]

HasBars(d) == d.bars \notin {Nothing, 0}
BarsOf(r, d) == [range |-> r, size |-> d.bars]

\* The two effects, after the render that follows a change.
\* (a variant that looks at the type alone)
SetupOnType ==
  IF chartType' = chartType THEN chart ELSE NewChart(chartType', IsDaily(range'))
Setup ==
  IF chartType' = chartType /\ IsDaily(range') = IsDaily(range)
    THEN chart ELSE NewChart(chartType', IsDaily(range'))
Draw(c) ==
  LET d == data'[range'] IN
  chart' = IF HasBars(d) THEN Drawn(c, BarsOf(range', d), enabled', currentPrice', news') ELSE c

-----------------------------------------------------------------------------
(* The buttons. *)

\* A query that comes into view asks when it has nothing, or something old.
Observed(d, old) == [d EXCEPT !.asked = @ \/ old \/ d.bars = Nothing]

SetRange(r) ==
  /\ r # range /\ range' = r
  /\ \E old \in BOOLEAN : data' = [data EXCEPT ![r] = Observed(@, old)]
  /\ UNCHANGED <<chartType, enabled, currentPrice, news>> /\ Draw(Setup)
SetChartType(type) ==
  /\ type # chartType /\ chartType' = type
  /\ UNCHANGED <<range, enabled, data, currentPrice, news>> /\ Draw(Setup)
Toggle(i) ==
  /\ enabled' = IF i \in enabled THEN enabled \ {i} ELSE enabled \cup {i}
  /\ UNCHANGED <<range, chartType, data, currentPrice, news>> /\ Draw(Setup)

-----------------------------------------------------------------------------
(* The queries.  Those of a day, a month and three months are in view of the page and of  *)
(* the panel of signals, too.                                                             *)

InView == {"1D", "1M", "3M"} \cap Ranges

\* The user leaves the page, which removes the chart, and comes back, before or after the tab
\* has dropped what nothing showed.
Mount ==
  /\ range' = "1W" /\ chartType' = "candlestick" /\ enabled' = {}
  /\ \E dropped, old \in BOOLEAN :
       data' = [r \in Ranges |->
         LET d == IF dropped /\ ~ data[r].asked THEN [data[r] EXCEPT !.bars = Nothing] ELSE data[r]
         IN IF r \in InView \cup {"1W"} THEN Observed(d, old) ELSE d]
  /\ UNCHANGED <<currentPrice, news>> /\ Draw(NewChart("candlestick", TRUE))

Refetch(r) ==
  /\ r \in InView \cup {range} /\ ~ data[r].asked
  /\ data' = [data EXCEPT ![r].asked = TRUE]
  /\ UNCHANGED <<range, chartType, enabled, currentPrice, news, chart>>
HistoryArrives(r, n) ==
  /\ data[r].asked /\ n <= Limit(r)
  /\ data' = [data EXCEPT ![r] = [bars |-> n, asked |-> FALSE]]
  /\ UNCHANGED <<range, chartType, enabled, currentPrice, news>> /\ Draw(Setup)
HistoryFails(r) ==
  /\ data[r].asked /\ data' = [data EXCEPT ![r].asked = FALSE]
  /\ UNCHANGED <<range, chartType, enabled, currentPrice, news, chart>>
Forgotten(r) ==
  /\ r \notin InView \cup {range} /\ ~ data[r].asked /\ data[r].bars # Nothing
  /\ data' = [data EXCEPT ![r].bars = Nothing]
  /\ UNCHANGED <<range, chartType, enabled, currentPrice, news, chart>>
PriceChanges(p) ==
  /\ p # currentPrice /\ currentPrice' = p
  /\ UNCHANGED <<range, chartType, enabled, data, news>> /\ Draw(Setup)
NewsArrive(n) ==
  /\ n # news /\ news' = n
  /\ UNCHANGED <<range, chartType, enabled, data, currentPrice>> /\ Draw(Setup)

ChartInit ==
  /\ range = "1W" /\ chartType = "candlestick" /\ enabled = {}
  /\ data = [r \in Ranges |-> [bars |-> Nothing, asked |-> r \in InView \cup {"1W"}]]
  /\ currentPrice = Nothing /\ news = Nothing
  /\ chart = NewChart("candlestick", TRUE)

ChartNext ==
  \/ \E r \in Ranges : \/ SetRange(r) \/ Refetch(r) \/ HistoryFails(r) \/ Forgotten(r)
                       \/ \E n \in Sizes : HistoryArrives(r, n)
  \/ \E type \in ChartTypes : SetChartType(type)
  \/ \E i \in Indicators : Toggle(i)
  \/ \E p \in Quotes : PriceChanges(p)
  \/ \E n \in News : NewsArrive(n)
  \/ Mount

ChartSpec == ChartInit /\ [][ChartNext]_chartVars

-----------------------------------------------------------------------------
\* Type correctness of the buttons, the queries and the chart.
ChartTypeOK ==
  /\ range \in Ranges /\ chartType \in ChartTypes /\ enabled \subseteq Indicators
  /\ data \in [Ranges -> [bars : Sizes \cup {Nothing}, asked : BOOLEAN]]
  /\ currentPrice \in Quotes \cup {Nothing} /\ news \in News \cup {Nothing}
  /\ chart \in [type : ChartTypes, daily : BOOLEAN, bars : Bars \cup {Nothing},
                price : Quotes \cup {Nothing}, lines : [Indicators -> Bars \cup {Nothing}],
                markers : [bars : Bars, averages : SUBSET Averages, news : News \cup {Nothing}] \cup {Nothing}]

(* Whatever order answers, prices, news and clicks come in: when the tab has bars of the *)
(* range that is chosen, they are what the chart of the chosen type shows, with the      *)
(* price and the markers of now, the indicators that are on and have enough bars, and    *)
(* no indicator that is off.                                                             *)
ChosenIsDrawn ==
  HasBars(data[range]) =>
    LET a == BarsOf(range, data[range]) IN
    /\ chart.type = chartType /\ chart.bars = a /\ chart.price = currentPrice
    /\ chart.markers = BuildMarkers(a, enabled, news)
    /\ \A i \in Indicators :
         /\ i \notin enabled => chart.lines[i] = Nothing
         /\ i \in enabled /\ a.size >= Needs(i) => chart.lines[i] = a

(* A chart never mixes days and minutes: lightweight-charts refuses to render series     *)
(* whose times are of two formats.  That holds of the lines that are left behind, too.   *)
OneTimeFormat ==
  /\ chart.daily = IsDaily(range)
  /\ \A a \in {chart.bars} \cup {chart.lines[i] : i \in Indicators} :
       a # Nothing => IsDaily(a.range) = chart.daily

(* A line of other bars than those shown is there only because these are too few for it. *)
LeftBehindForWantOfBars ==
  \A i \in Indicators :
    chart.lines[i] \notin {Nothing, chart.bars} => chart.bars # Nothing /\ chart.bars.size < Needs(i)

(* What a stock's page shows is what its user chose and the tab knows, and a chart is never *)
(* put together of what does not go together.                                               *)
ChartIsTrue == ChosenIsDrawn /\ OneTimeFormat /\ LeftBehindForWantOfBars
=============================================================================
