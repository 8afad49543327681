----------------------------- MODULE Portfolios -----------------------------
(***************************************************************************)
(* portfolio-service: PortfoliosService over the portfolios and trades     *)
(* collections, and the Kafka consumer that writes streamed prices into    *)
(* the same documents.                                                     *)
(*                                                                         *)
(* addStocks() loads the document, changes it in memory, saves it and      *)
(* inserts the trades: three awaits, between which other requests and      *)
(* price ticks run.  What save() sends is mongoose's business: only the    *)
(* changed paths, with a version check that depends on what changed.       *)
(*                                                                         *)
(* avgCostBasis is the fraction cost / per (exact, where the code computes *)
(* in floats).  A portfolio of another user is one the repository does not *)
(* find.                                                                   *)
(***************************************************************************)
EXTENDS Naturals, FiniteSets, SequencesExt

CONSTANTS
  Buys,        \* purchase requests (addStock is a batch of one)
  Portfolios,  \* portfolio ids
  Symbols, Prices, Names,
  TargetOf,    \* the portfolio a purchase names
  ItemsOf,     \* its items: a sequence of [symbol, shares, price]
  InitRows,    \* the holdings a portfolio may start with
  Absent, Removed,   \* no document yet; a deleted one (its id is never reused)
  MayFail      \* MongoDB operations may fail

NoPrice == 0   \* latestPrice is undefined: a row older than price seeding

Item == [symbol : Symbols, shares : Nat \ {0}, price : Prices]
Row == [symbol : Symbols, shares : Nat \ {0}, cost : Nat, per : Nat \ {0}, latest : Prices \cup {NoPrice}]
Doc == [ver : Nat, name : Names, rows : Seq(Row)]

OneRowPerSymbol(rows) == \A i, j \in DOMAIN rows : rows[i].symbol = rows[j].symbol => i = j

\* Purchases are validated: positive shares, a price, at least one item.  A portfolio starts
\* with one row per symbol, which tells what was paid for the shares it has.
ASSUME PortfolioAssumption ==
  /\ Prices \subseteq Nat \ {NoPrice}
  /\ TargetOf \in [Buys -> Portfolios]
  /\ ItemsOf \in [Buys -> Seq(Item) \ {<<>>}]
  /\ \A rows \in InitRows :
       rows \in Seq(Row) /\ OneRowPerSymbol(rows) /\ \A i \in DOMAIN rows : rows[i].per = rows[i].shares
  /\ Absent # Removed /\ Absent \notin Doc /\ Removed \notin Doc

VARIABLES
  doc,      \* portfolio -> its document: version key, name, rows
  trades,   \* purchase -> how many of its items have a trade record
  pc,       \* purchase -> where its request stands
  copy,     \* purchase -> the document it loaded
  tick,     \* symbol -> the price streamed last
  bought,   \* history: portfolio, symbol -> the shares it started with and those of the saved purchases
  spent,    \* history: the same of what was paid for them
  saved,    \* history: purchases whose save succeeded
  stale,    \* history: purchases whose portfolio was saved to since they loaded it
  raced     \* history: portfolios a stale purchase has saved to

vars == <<doc, trades, pc, copy, tick, bought, spent, saved, stale, raced>>

Exists(p) == doc[p] \notin {Absent, Removed}

\* The sum of a sequence of numbers.
Total(amounts) ==
  LET sum[n \in 0..Len(amounts)] == IF n = 0 THEN 0 ELSE sum[n - 1] + amounts[n] IN
  sum[Len(amounts)]

\* Of a symbol, in rows or items.
SharesOf(seq, s) == Total([i \in 1..Len(seq) |-> IF seq[i].symbol = s THEN seq[i].shares ELSE 0])
CostOf(rows, s) == Total([i \in 1..Len(rows) |-> IF rows[i].symbol = s THEN rows[i].cost ELSE 0])
PaidFor(items, s) ==
  Total([i \in 1..Len(items) |-> IF items[i].symbol = s THEN items[i].shares * items[i].price ELSE 0])

Init ==
  /\ \E n \in Names :
       doc \in [Portfolios -> {Absent} \cup [ver : {0}, name : {n}, rows : InitRows]]
  /\ bought = [p \in Portfolios |-> [s \in Symbols |-> IF Exists(p) THEN SharesOf(doc[p].rows, s) ELSE 0]]
  /\ spent = [p \in Portfolios |-> [s \in Symbols |-> IF Exists(p) THEN CostOf(doc[p].rows, s) ELSE 0]]
  /\ trades = [b \in Buys |-> 0]
  /\ pc = [b \in Buys |-> "start"]
  /\ copy = [b \in Buys |-> Absent]
  /\ tick = [s \in Symbols |-> NoPrice]
  /\ saved = {} /\ stale = {} /\ raced = {}

(***************************************************************************)
(* applyBuy(): one item into the rows in memory.                           *)
(***************************************************************************)
\* (a variant that looks for something else)
FindNever(rows, s) == 0
Find(rows, s) == SelectInSeq(rows, LAMBDA row : row.symbol = s)

NewRow(item) ==
  [symbol |-> item.symbol, shares |-> item.shares, cost |-> item.shares * item.price,
   per |-> item.shares, latest |-> item.price]

SameAverage(row, other) == row.cost * other.per = other.cost * row.per

\* One representation for one average, wherever it is a whole cost over the shares held.
Reduced(row) ==
  IF (row.cost * row.shares) % row.per = 0
    THEN [row EXCEPT !.cost = (@ * row.shares) \div row.per, !.per = row.shares]
    ELSE row

Averaged(row, item) ==
  Reduced([row EXCEPT !.shares = @ + item.shares,
                      !.cost = @ * row.shares + item.shares * item.price * row.per,
                      !.per = @ * (row.shares + item.shares)])

\* (a variant that reprices the row)
GrowReprices(row, item) == [Averaged(row, item) EXCEPT !.latest = item.price]

Grow(row, item) ==
  [Averaged(row, item) EXCEPT !.latest = IF @ = NoPrice THEN item.price ELSE @]

ApplyBuy(rows, item) ==
  LET i == Find(rows, item.symbol) IN
  IF i # 0 THEN [rows EXCEPT ![i] = Grow(@, item)] ELSE Append(rows, NewRow(item))

\* The items one after the other.
After(rows, items) ==
  LET run[n \in 0..Len(items)] == IF n = 0 THEN rows ELSE ApplyBuy(run[n - 1], items[n]) IN
  run[Len(items)]

Applied(b) == After(copy[b].rows, ItemsOf[b])

(***************************************************************************)
(* What doc.save() sends.  Pushing alone is a $push and bumps the version  *)
(* key; changing fields of rows that exist is a $set per field, on the     *)
(* condition that the version is the loaded one; both at once is a $set of *)
(* the whole array, conditional and bumping.  An update that matches no    *)
(* document throws.                                                        *)
(***************************************************************************)
Pushes(b) == Len(Applied(b)) > Len(copy[b].rows)

ChangesRows(b) ==
  \/ \E i \in 1..Len(copy[b].rows) : Applied(b)[i] # copy[b].rows[i]
  \/ Len(ItemsOf[b]) > Len(Applied(b)) - Len(copy[b].rows)

Matches(b) ==
  LET p == TargetOf[b] IN
  Exists(p) /\ (ChangesRows(b) => doc[p].ver = copy[b].ver)

\* The fields this purchase changed, over the row as it is stored now; a field set to the
\* value it had is not sent.
SetFields(now, old, new) ==
  LET basis == IF SameAverage(old, new) THEN now ELSE new IN
  Reduced([now EXCEPT !.shares = IF new.shares = old.shares THEN @ ELSE new.shares,
                      !.cost = basis.cost,
                      !.per = basis.per,
                      !.latest = IF new.latest = old.latest THEN @ ELSE new.latest])

Stored(b) ==
  LET now == doc[TargetOf[b]].rows
      old == copy[b].rows
      new == Applied(b) IN
  IF ChangesRows(b) /\ Pushes(b) THEN new
  ELSE IF Pushes(b) THEN now \o SubSeq(new, Len(old) + 1, Len(new))
  ELSE [i \in 1..Len(now) |-> IF i <= Len(old) THEN SetFields(now[i], old[i], new[i]) ELSE now[i]]

(***************************************************************************)
(* addStocks(): load, save, record the trades.                             *)
(***************************************************************************)
Load(b) ==
  /\ pc[b] = "start"
  /\ \/ /\ Exists(TargetOf[b])
        /\ copy' = [copy EXCEPT ![b] = doc[TargetOf[b]]]
        /\ pc' = [pc EXCEPT ![b] = "saving"]
     \/ /\ ~ Exists(TargetOf[b])
        /\ pc' = [pc EXCEPT ![b] = "notfound"]
        /\ UNCHANGED copy
  /\ UNCHANGED <<doc, trades, tick, bought, spent, saved, stale, raced>>

Save(b) ==
  LET p == TargetOf[b] IN
  /\ pc[b] = "saving"
  /\ Matches(b)
  /\ doc' = [doc EXCEPT ![p].rows = Stored(b), ![p].ver = IF Pushes(b) THEN @ + 1 ELSE @]
  /\ pc' = [pc EXCEPT ![b] = "recording"]
  /\ bought' = [bought EXCEPT ![p] = [s \in Symbols |-> @[s] + SharesOf(ItemsOf[b], s)]]
  /\ spent' = [spent EXCEPT ![p] = [s \in Symbols |-> @[s] + PaidFor(ItemsOf[b], s)]]
  /\ saved' = saved \cup {b}
  /\ stale' = stale \cup {c \in Buys : pc[c] = "saving" /\ TargetOf[c] = p /\ c # b}
  /\ raced' = IF b \in stale THEN raced \cup {p} ELSE raced
  /\ UNCHANGED <<trades, copy, tick>>

\* a variant that goes on to the trades when the save did not match
SaveRejectedIgnored(b) ==
  /\ pc[b] = "saving"
  /\ ~ Matches(b) \/ MayFail
  /\ pc' = [pc EXCEPT ![b] = "recording"]
  /\ UNCHANGED <<doc, trades, copy, tick, bought, spent, saved, stale, raced>>

SaveRejected(b) ==
  /\ pc[b] = "saving"
  /\ ~ Matches(b) \/ MayFail
  /\ pc' = [pc EXCEPT ![b] = "failed"]
  /\ UNCHANGED <<doc, trades, copy, tick, bought, spent, saved, stale, raced>>

\* insertMany() inserts in order and stops at the first item that fails.
RecordTrades(b) ==
  /\ pc[b] = "recording"
  /\ \/ /\ trades' = [trades EXCEPT ![b] = Len(ItemsOf[b])]
        /\ pc' = [pc EXCEPT ![b] = "done"]
     \/ /\ MayFail
        /\ \E n \in 0..(Len(ItemsOf[b]) - 1) : trades' = [trades EXCEPT ![b] = n]
        /\ pc' = [pc EXCEPT ![b] = "failed"]
  /\ UNCHANGED <<doc, copy, tick, bought, spent, saved, stale, raced>>

(***************************************************************************)
(* The other operations on a document, each one atomic update.             *)
(***************************************************************************)
Create(p, n) ==
  /\ doc[p] = Absent
  /\ doc' = [doc EXCEPT ![p] = [ver |-> 0, name |-> n, rows |-> <<>>]]
  /\ UNCHANGED <<trades, pc, copy, tick, bought, spent, saved, stale, raced>>

Update(p, n) ==
  /\ Exists(p)
  /\ doc' = [doc EXCEPT ![p].name = n]
  /\ UNCHANGED <<trades, pc, copy, tick, bought, spent, saved, stale, raced>>

RemovePortfolio(p) ==
  /\ Exists(p)
  /\ doc' = [doc EXCEPT ![p] = Removed]
  /\ UNCHANGED <<trades, pc, copy, tick, bought, spent, saved, stale, raced>>

\* updateHoldingPrices(): every row of the symbol in every portfolio; no version bump.
UpdateHoldingPrices(s, v) ==
  /\ doc' = [p \in Portfolios |->
       IF Exists(p)
         THEN [doc[p] EXCEPT !.rows =
                 [i \in DOMAIN @ |-> IF @[i].symbol = s THEN [@[i] EXCEPT !.latest = v] ELSE @[i]]]
         ELSE doc[p]]
  /\ tick' = [tick EXCEPT ![s] = v]
  /\ UNCHANGED <<trades, pc, copy, bought, spent, saved, stale, raced>>

Next ==
  \/ \E b \in Buys : Load(b) \/ Save(b) \/ SaveRejected(b) \/ RecordTrades(b)
  \/ \E p \in Portfolios : RemovePortfolio(p) \/ \E n \in Names : Create(p, n) \/ Update(p, n)
  \/ \E s \in Symbols, v \in Prices : UpdateHoldingPrices(s, v)

Spec == Init /\ [][Next]_vars

----------------------------------------------------------------------------
\* Type correctness: every row of every document is a row, its shares are not negative.
TypeOK ==
  /\ doc \in [Portfolios -> {Absent, Removed} \cup Doc]
  /\ trades \in [Buys -> Nat] /\ \A b \in Buys : trades[b] <= Len(ItemsOf[b])
  /\ pc \in [Buys -> {"start", "saving", "recording", "done", "failed", "notfound"}]
  /\ copy \in [Buys -> {Absent} \cup Doc] /\ \A b \in Buys : pc[b] = "saving" => copy[b] \in Doc
  /\ tick \in [Symbols -> Prices \cup {NoPrice}]
  /\ bought \in [Portfolios -> [Symbols -> Nat]] /\ spent \in [Portfolios -> [Symbols -> Nat]]
  /\ saved \subseteq Buys /\ stale \subseteq Buys /\ raced \subseteq Portfolios

\* However purchases, ticks and failures interleave, the rows of a symbol never hold more
\* shares than the saved purchases bought: a stale save may lose shares, never invent any.
\* A portfolio that no stale purchase was saved to balances: one row per symbol, holding
\* exactly what was bought, at the average that was paid.
BalancedUnlessRaced ==
  \A p \in Portfolios : Exists(p) =>
    /\ \A s \in Symbols : SharesOf(doc[p].rows, s) <= bought[p][s]
    /\ p \notin raced =>
         /\ OneRowPerSymbol(doc[p].rows)
         /\ \A s \in Symbols : SharesOf(doc[p].rows, s) = bought[p][s]
         /\ \A i \in DOMAIN doc[p].rows :
              LET row == doc[p].rows[i] IN row.cost * row.shares = spent[p][row.symbol] * row.per

\* A trade is on record only for a purchase whose holdings were saved; a failure between
\* the two writes leaves a holding without its trades, never trades without the holding.
TradesFollowHoldings == \A b \in Buys : trades[b] > 0 => b \in saved

Ticked(p, i) == LET row == doc[p].rows[i] IN
  tick[row.symbol] # NoPrice /\ row.latest = tick[row.symbol]

\* A price that a tick has put on a row gives way to a purchase only if the purchase had
\* loaded the row with another price: one that saw the tick keeps it, whatever it buys
\* and whichever way its save is sent.
FreshSaveKeepsTick ==
  [][tick' = tick =>
       \A p \in Portfolios : (Exists(p) /\ Exists(p)') =>
         \A i \in DOMAIN doc[p].rows :
           (Ticked(p, i) /\ doc'[p].rows[i].latest # doc[p].rows[i].latest)
             => \E b \in Buys :
                  /\ TargetOf[b] = p /\ pc[b] = "saving" /\ pc'[b] = "recording"
                  /\ i \in DOMAIN copy[b].rows
                  /\ copy[b].rows[i].latest # doc[p].rows[i].latest]_vars

\* portfolios.service.ts:95: "streamed ticks stay authoritative": no purchase changes the
\* price a tick has put on a row.
TickStaysAuthoritative ==
  [][tick' = tick =>
       \A p \in Portfolios : (Exists(p) /\ Exists(p)') =>
         \A i \in DOMAIN doc[p].rows :
           Ticked(p, i) => doc'[p].rows[i].latest = doc[p].rows[i].latest]_vars
============================================================================
