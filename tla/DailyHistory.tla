---------------------------- MODULE DailyHistory ----------------------------
(***************************************************************************)
(* Daily bars from MongoDB to the screen.  price-processor may store       *)
(* several bars of one trading day, at different UTC offsets.  Its         *)
(* getHistory() answers newest first, one bar for each day; StockChart     *)
(* sorts and cleans the answer once more; portfolio-api's                  *)
(* getFactorPerformance() computes the tiles papi:factors from it.         *)
(*                                                                         *)
(* A bar is <<day, offset>> and stands for its close; a percentage of      *)
(* change is represented by the bar it is computed from.                   *)
(***************************************************************************)
EXTENDS Naturals, SequencesExt, Subsequences

CONSTANTS
  LastDay,   \* bound on the days that pass
  Offsets,   \* UTC hours at which the bars of a day are stamped
  Week,      \* getFactorPerformance() looks this many bars back for a week, 6
  Month,     \* and for a month, 22; it asks for a history of as many
  NoTile     \* papi:factors is absent

ASSUME HistoryBounds == LastDay \in Nat /\ Offsets \subseteq Nat
                        /\ Week \in Nat \ {0} /\ Month \in Nat \ {0}

VARIABLES today, bars, factors

historyVars == <<today, bars, factors>>

HistoryInit == today = 1 /\ bars = {} /\ factors = NoTile

Older(a, b) == a[1] < b[1] \/ (a[1] = b[1] /\ a[2] < b[2])
Newer(a, b) == Older(b, a)
Day(b) == b[1]

(***************************************************************************)
(* getHistory() with interval 1d: sorted, limited, then the first of each  *)
(* day.                                                                    *)
(***************************************************************************)
FirstOfDay(s) == Picked(s, {i \in DOMAIN s : \A j \in 1..(i - 1) : Day(s[j]) # Day(s[i])})

\* The documents found, sorted by descending timestamp, and limited.
Recent(limit) ==
  [k \in 1..Min({limit, Cardinality(bars)}) |->
     CHOOSE b \in bars : Cardinality({c \in bars : Newer(c, b)}) = k - 1]

\* a variant that keeps the last bar of each day
GetDailyLast(limit) == Reverse(FirstOfDay(Reverse(Recent(limit))))

GetDaily(limit) == FirstOfDay(Recent(limit))

(***************************************************************************)
(* StockChart: sortBars(), then reverse, first of each day, reverse.       *)
(***************************************************************************)
Before(s, i) == {j \in DOMAIN s : Older(s[j], s[i]) \/ (s[j] = s[i] /\ j < i)}
SortBars(s) == [k \in DOMAIN s |-> s[CHOOSE i \in DOMAIN s : Cardinality(Before(s, i)) = k - 1]]
Clean(s) == Reverse(FirstOfDay(Reverse(SortBars(s))))

(***************************************************************************)
(* getFactorPerformance(): the price is the close of the last bar of the   *)
(* answer, the changes are from the one before it, from Week - 1 before    *)
(* it, and from Month - 1 before it or the first.                          *)
(***************************************************************************)
Tile(s) ==
  LET n == Len(s) IN
  IF n = 0 THEN NoTile
  ELSE [price |-> s[n],
        day   |-> s[IF n >= 2 THEN n - 1 ELSE n],
        week  |-> s[IF n >= Week THEN n - Week + 1 ELSE n],
        month |-> s[IF n >= Month THEN n - Month + 1 ELSE 1]]

GetFactorPerformance ==
  /\ factors = NoTile
  /\ factors' = Tile(GetDaily(Month))
  /\ UNCHANGED <<today, bars>>

FactorsExpire ==
  /\ factors # NoTile
  /\ factors' = NoTile
  /\ UNCHANGED <<today, bars>>

NewDay ==
  /\ today < LastDay
  /\ today' = today + 1
  /\ UNCHANGED <<bars, factors>>

\* fetchAndStoreHistory(), the stream or a seed stores a bar of a day so far
StoreBar ==
  \E d \in 1..today, o \in Offsets :
    /\ <<d, o>> \notin bars
    /\ bars' = bars \cup {<<d, o>>}
    /\ UNCHANGED <<today, factors>>

HistoryNext == NewDay \/ StoreBar \/ GetFactorPerformance \/ FactorsExpire

HistorySpec == HistoryInit /\ [][HistoryNext]_historyVars

(***************************************************************************)
(* Properties.                                                             *)
(***************************************************************************)
\* getHistory() sorts, limits and then keeps the first bar it sees of each day: for
\* every limit that is the latest bar stored of every day it reaches, newest first,
\* and no day between the newest and the oldest it shows is left out.
HistoryIsLatestPerDay ==
  \A limit \in 1..Month :
    LET h == GetDaily(limit) IN
    /\ \A i \in DOMAIN h : h[i] \in bars /\ \A b \in bars : Day(b) = Day(h[i]) => ~Newer(b, h[i])
    /\ \A i, j \in DOMAIN h : i < j => Day(h[i]) > Day(h[j])
    /\ \A b \in bars : h # <<>> /\ (\/ \E i \in DOMAIN h : Day(h[i]) = Day(b)
                                   \/ Day(b) < Day(h[Len(h)]))

\* StockChart removes duplicates again, from the other end: whether price-processor
\* did so or not, the chart shows the bars of getHistory(), oldest first.
ChartShowsTheHistory ==
  \A limit \in 1..Month :
    /\ Clean(GetDaily(limit)) = Reverse(GetDaily(limit))
    /\ Clean(Recent(limit)) = Reverse(GetDaily(limit))

\* Whoever removes the duplicates, the client sees the latest bar of every day.
ShownHistoryIsLatest == HistoryIsLatestPerDay /\ ChartShowsTheHistory

\* FactorTile documents change1d as the 1-day % change: from the trading day before
\* the newest one to the newest one.
DayChangeIsTheLastDay ==
  [][LET h == GetDaily(Month) IN
     factors' # factors /\ factors' # NoTile /\ Len(h) >= 2
       => factors'.price = h[1] /\ factors'.day = h[2]]_historyVars
============================================================================
