---------------------------- MODULE ChartSignals ----------------------------
(***************************************************************************)
(* The signals that detectSignals() reads off a daily history: where one   *)
(* average crosses another, where MACD crosses its signal line, and what   *)
(* the last RSI says; and what the panel beside the chart and the badges   *)
(* above it show of them.  A history is put together a bar at a time, so   *)
(* that every one is reached.  What the averages, MACD and RSI are is up   *)
(* to the library that computes them: any values, of which only the order  *)
(* matters.                                                                *)
(***************************************************************************)
EXTENDS Integers, FiniteSets

CONSTANTS
  Heights,  \* the values of a line
  Lines,    \* the moving averages that are computed
  Pairs,    \* the pairs of them that are compared, the fast one first
  Period,   \* the bars each takes before its first value
  Slow, Smoothed, Relative,  \* slowPeriod and signalPeriod of MACD, period of RSI
  MaxBars

ASSUME SignalsAssumption ==
  /\ Heights \subseteq Int
  /\ Pairs \subseteq Lines \X Lines
  /\ Period \in [Lines -> Nat \ {0}]
  /\ Slow \in Nat \ {0} /\ Smoothed \in Nat \ {0} /\ Relative \in Nat
  /\ MaxBars \in Nat

VARIABLES
  bars,     \* how many bars the history has
  average,  \* the library's values: of each average at each bar, ...
  macd, smooth, rsi

signalVars == <<bars, average, macd, smooth, rsi>>

SignalsInit ==
  /\ bars = 0
  /\ average = [a \in Lines |-> <<>>] /\ macd = <<>> /\ smooth = <<>> /\ rsi = <<>>

\* One more bar, and the values of the lines at it.
Extended(line, v) == [d \in 1..bars + 1 |-> IF d = bars + 1 THEN v ELSE line[d]]
NextDay ==
  /\ bars < MaxBars /\ bars' = bars + 1
  /\ \E v \in [Lines -> Heights] : average' = [a \in Lines |-> Extended(average[a], v[a])]
  /\ \E v, w \in Heights : macd' = Extended(macd, v) /\ smooth' = Extended(smooth, w)
  /\ \E v \in {"over", "between", "under"} : rsi' = Extended(rsi, v)

SignalsNext == NextDay
SignalsSpec == SignalsInit /\ [][SignalsNext]_signalVars

-----------------------------------------------------------------------------
(* chart-utils.ts: the days each line has a point of. *)

From(first, line) == [d \in first..bars |-> line[d]]
None == From(bars + 1, <<>>)

ComputeMA(a) == IF bars < Period[a] THEN None ELSE From(Period[a], average[a])
\* Only days of which MACD, signal and histogram are all defined; one more bar than that takes is asked for.
FirstMACD == Slow + Smoothed - 1
ComputeMACD(line) == IF bars < Slow + Smoothed THEN None ELSE From(FirstMACD, line)
ComputeRSI == IF bars <= Relative THEN None ELSE From(Relative + 1, rsi)

-----------------------------------------------------------------------------
(* signals.ts *)

\* Days of which, and of the day before which, both lines have a point.
Compared(fast, slow) ==
  {d \in DOMAIN fast \cap DOMAIN slow : d - 1 \in DOMAIN fast /\ d - 1 \in DOMAIN slow}
\* a variant that overlooks lines which touch before they cross
CrossesStrictly(fast, slow) ==
  [buy |-> {d \in Compared(fast, slow) : fast[d - 1] < slow[d - 1] /\ fast[d] > slow[d]},
   sell |-> {d \in Compared(fast, slow) : fast[d - 1] > slow[d - 1] /\ fast[d] < slow[d]}]
Crosses(fast, slow) ==
  [buy |-> {d \in Compared(fast, slow) : fast[d - 1] <= slow[d - 1] /\ fast[d] > slow[d]},
   sell |-> {d \in Compared(fast, slow) : fast[d - 1] >= slow[d - 1] /\ fast[d] < slow[d]}]

Types == {"buy", "sell"}
\* One of a crossing says of which lines it is.
Signal(time, type, source, of) == [time |-> time, type |-> type, source |-> source, of |-> of]
CrossSignals(fast, slow, source, of) ==
  UNION {{Signal(d, type, source, of) : d \in Crosses(fast, slow)[type]} : type \in Types}

RSISignals ==
  IF DOMAIN ComputeRSI = {} THEN {}
  ELSE CASE rsi[bars] = "over" -> {Signal(bars, "sell", "rsi", <<>>)}
         [] rsi[bars] = "under" -> {Signal(bars, "buy", "rsi", <<>>)}
         [] OTHER -> {}
MACDSignals == CrossSignals(ComputeMACD(macd), ComputeMACD(smooth), "macd", <<>>)
MASignals == UNION {CrossSignals(ComputeMA(p[1]), ComputeMA(p[2]), "ma-cross", p) : p \in Pairs}

DetectSignals == RSISignals \cup MACDSignals \cup MASignals

\* What the panel lists of two lines.
Technical(source, of) == {s \in DetectSignals : s.source = source /\ s.of = of}

-----------------------------------------------------------------------------
\* Type correctness of the history.
SignalsTypeOK ==
  /\ bars \in 0..MaxBars
  /\ average \in [Lines -> [1..bars -> Heights]]
  /\ macd \in [1..bars -> Heights] /\ smooth \in [1..bars -> Heights]
  /\ rsi \in [1..bars -> {"over", "between", "under"}]

Latest(signals) == {s \in signals : \A t \in signals : t.time <= s.time}

\* What the signals of two lines say of them on the last day.
Tell(signals, fast, slow) ==
  /\ bars \in DOMAIN fast \cap DOMAIN slow =>
       \A s \in Latest(signals) : IF s.type = "buy" THEN fast[bars] >= slow[bars]
                                                  ELSE fast[bars] <= slow[bars]
  /\ signals = {} =>
       ~ \E d, e \in DOMAIN fast \cap DOMAIN slow : fast[d] < slow[d] /\ fast[e] > slow[e]

(* However two lines touch, part and cross, and wherever the first points of the slower *)
(* one are: the last signal that the panel lists of them is of the side on which the    *)
(* fast line is now, and two lines of which it lists none have not changed sides.       *)
SignalsTellTheSide ==
  /\ Tell(Technical("macd", <<>>), ComputeMACD(macd), ComputeMACD(smooth))
  /\ \A p \in Pairs : Tell(Technical("ma-cross", p), ComputeMA(p[1]), ComputeMA(p[2]))
=============================================================================
