------------------------------ MODULE MCCharts ------------------------------
(* Instances of the chart of a stock's page and of its signals: a chart with two indicators, *)
(* a chart with one to which prices and news come, and the signals of a history in which one *)
(* kind of line takes all its values and the others keep one.                                *)
EXTENDS StockChart, ChartSignals

MCPairs == {<<"EMA12", "EMA26">>}
MCPeriod == [a \in Lines |-> IF a = "EMA12" THEN 1 ELSE 2]

ChartMixes == {"buttons", "feeds"}
SignalMixes == {"averages", "macd", "rsi"}

Buttons == currentPrice = Nothing /\ news = Nothing /\ (chartType = "line" => enabled # Indicators)
Feeds == enabled \subseteq {"EMA26"} /\ chartType = "candlestick"

Flat(line) == \A d \in DOMAIN line : line[d] = 0
OneKind(kind) ==
  /\ kind # "averages" => \A a \in Lines : Flat(average[a])
  /\ kind # "macd" => Flat(macd) /\ Flat(smooth)
  /\ kind # "rsi" => \A d \in DOMAIN rsi : rsi[d] = "between"
=============================================================================
