---------------------------- MODULE MarketCache ----------------------------
(***************************************************************************)
(* portfolio-api's cache of prices: the Redis keys papi:price:<symbol>,    *)
(* which the Kafka consumer writes from stocks.prices.processed and        *)
(* getStock() fills from price-processor's quote when they are missing,    *)
(* and papi:movers, which getMovers() computes from all of them and the    *)
(* consumer deletes with every price.                                      *)
(*                                                                         *)
(* A price is the number of messages about its symbol that were published  *)
(* when it was the market's: message n carries price n, and a quote taken  *)
(* between the messages n and n + 1 is price n too.                        *)
(***************************************************************************)
EXTENDS Naturals, Functions

CONSTANTS
  Symbols,     \* DEFAULT_SYMBOLS
  Readers,     \* requests for a stock or for the movers that can be open at once
  MaxPrice,    \* bound on the messages published
  MaxReplays,  \* bound on the times the consumer is taken back to its last commit
  NoEntry      \* an absent key

ASSUME NoEntryAssumption ==
  /\ NoEntry \notin Nat \cup Symbols /\ NoEntry \notin [price : Nat, prev : Nat, ttl : {"day", "quarter", "none"}]
  /\ NoEntry \notin [prices : [Symbols -> Nat \cup {NoEntry}], over : SUBSET Symbols]
ASSUME MarketBounds == MaxPrice \in Nat /\ MaxReplays \in Nat

VARIABLES
  market,    \* symbol -> messages published
  handled,   \* symbol -> the message the consumer handled last
  hand,      \* the consumer: its step, and the message with the price it found
  price,     \* papi:price:<symbol>: the price and the one its change is computed from
  quote,     \* price:quote:<symbol> of price-processor
  movers,    \* papi:movers: symbol -> price
  reader,    \* request -> its step, and what it has
  replays,   \* times a message may have been delivered again
  odd        \* history: symbols whose entry a replay, a quote or an expiry was involved in

marketVars == <<market, handled, hand, price, quote, movers, reader, replays, odd>>

Prices == 0..MaxPrice
Nothing == [s \in Symbols |-> NoEntry]
AtRest == [at |-> "idle", sym |-> NoEntry, prev |-> NoEntry]
Closed == [at |-> "closed", want |-> {}, got |-> Nothing, over |-> {}]
PriceOf(s) == IF price[s] = NoEntry THEN NoEntry ELSE price[s].price

MarketInit ==
  /\ market = [s \in Symbols |-> 0]
  /\ handled = [s \in Symbols |-> 0]
  /\ hand = AtRest
  /\ price = [s \in Symbols |-> NoEntry]
  /\ quote = [s \in Symbols |-> NoEntry]
  /\ movers = NoEntry
  /\ reader = [r \in Readers |-> Closed]
  /\ replays = 0
  /\ odd = {}

(***************************************************************************)
(* The consumer: handlePrice() for one message at a time.  Its two writes  *)
(* are sent together, and reach Redis one after the other.                 *)
(***************************************************************************)
Announce(s) ==
  /\ FoldFunction(+, 0, market) < MaxPrice
  /\ market' = [market EXCEPT ![s] = @ + 1]
  /\ UNCHANGED <<handled, hand, price, quote, movers, reader, replays, odd>>

Took(s) == hand.at # "idle" /\ hand.sym = s
Upcoming(s) == handled[s] + 1

\* A first price changes by nothing.
ReadPrevious(s) ==
  /\ hand.at = "idle"
  /\ handled[s] < market[s]
  /\ hand' = [at |-> "set", sym |-> s,
              prev |-> IF price[s] = NoEntry THEN Upcoming(s) ELSE PriceOf(s)]
  /\ UNCHANGED <<market, handled, price, quote, movers, reader, replays, odd>>

\* Requests that rank prices they read before this write (history).
Overtaken == [r \in Readers |-> IF reader[r].at = "rank"
                                THEN [reader[r] EXCEPT !.over = @ \cup {hand.sym}]
                                ELSE reader[r]]

\* a variant that computes the change from the price of its own message
SetPriceFlat ==
  /\ hand.at = "set"
  /\ LET n == Upcoming(hand.sym) IN
       price' = [price EXCEPT ![hand.sym] = [price |-> n, prev |-> n, ttl |-> "day"]]
  /\ reader' = Overtaken
  /\ hand' = [hand EXCEPT !.at = "del"]
  /\ UNCHANGED <<market, handled, quote, movers, replays, odd>>

SetPrice ==
  /\ hand.at = "set"
  /\ price' = [price EXCEPT ![hand.sym] =
                 [price |-> Upcoming(hand.sym), prev |-> hand.prev, ttl |-> "day"]]
  /\ reader' = Overtaken
  /\ hand' = [hand EXCEPT !.at = "del"]
  /\ UNCHANGED <<market, handled, quote, movers, replays, odd>>

DelMovers ==
  /\ hand.at = "del"
  /\ movers' = NoEntry
  /\ handled' = [handled EXCEPT ![hand.sym] = @ + 1]
  /\ hand' = AtRest
  /\ UNCHANGED <<market, price, quote, reader, replays, odd>>

\* an error is logged and the message counts as handled
HandlingFails ==
  /\ hand.at = "set"
  /\ handled' = [handled EXCEPT ![hand.sym] = @ + 1]
  /\ odd' = odd \cup {hand.sym}
  /\ hand' = AtRest
  /\ UNCHANGED <<market, price, quote, movers, reader, replays>>

\* A crash of the consumer, or a rebalance: what was not committed is delivered again.
Replay ==
  /\ replays < MaxReplays
  /\ replays' = replays + 1
  /\ \E h \in [Symbols -> Prices] :
       /\ \A s \in Symbols : h[s] <= handled[s]
       /\ handled' = h
       /\ odd' = odd \cup {s \in Symbols : h[s] < handled[s] \/ Took(s)}
  /\ hand' = AtRest
  /\ UNCHANGED <<market, price, quote, movers, reader>>

(***************************************************************************)
(* getStock(): the cached price, or a quote that becomes the cached price. *)
(* getMovers(): the cached movers, or the prices of all symbols, of which  *)
(* the missing ones are quoted first, side by side.                        *)
(***************************************************************************)
GetStock(r, s) ==
  /\ reader[r].at = "closed"
  /\ price[s] = NoEntry
  /\ reader' = [reader EXCEPT ![r].at = "stock", ![r].want = {s}]
  /\ UNCHANGED <<market, handled, hand, price, quote, movers, replays, odd>>

GetMovers(r) ==
  /\ reader[r].at = "closed"
  /\ movers = NoEntry
  /\ reader' = [reader EXCEPT ![r].at = "movers",
                              ![r].want = {s \in Symbols : price[s] = NoEntry}]
  /\ UNCHANGED <<market, handled, hand, price, quote, movers, replays, odd>>

\* price-processor's cached quote, or the provider's, which it caches.
Quote(r) ==
  \E s \in reader[r].want :
    /\ reader[r].got[s] = NoEntry
    /\ LET q == IF quote[s] = NoEntry THEN market[s] ELSE quote[s] IN
         /\ quote' = [quote EXCEPT ![s] = q]
         /\ reader' = [reader EXCEPT ![r].got[s] = q]
    /\ UNCHANGED <<market, handled, hand, price, movers, replays, odd>>

NoQuote(r) ==
  \E s \in reader[r].want :
    /\ reader[r].got[s] = NoEntry
    /\ reader' = [reader EXCEPT ![r].want = @ \ {s}]
    /\ UNCHANGED <<market, handled, hand, price, quote, movers, replays, odd>>

WriteQuote(r, ttl) ==
  \E s \in reader[r].want :
    LET q == reader[r].got[s] IN
    /\ q # NoEntry
    /\ price' = [price EXCEPT ![s] = [price |-> q, prev |-> q, ttl |-> ttl]]
    /\ odd' = odd \cup {s}
    /\ reader' = [reader EXCEPT ![r].want = @ \ {s}, ![r].got[s] = NoEntry]
    /\ UNCHANGED <<market, handled, hand, quote, movers, replays>>

\* a variant that caches the quote without a TTL
CacheQuoteForever(r) == WriteQuote(r, "none")

CacheQuote(r) == WriteQuote(r, "quarter")

AnswerStock(r) ==
  /\ reader[r].at = "stock" /\ reader[r].want = {}
  /\ reader' = [reader EXCEPT ![r] = Closed]
  /\ UNCHANGED <<market, handled, hand, price, quote, movers, replays, odd>>

ReadPrices(r) ==
  /\ reader[r].at = "movers" /\ reader[r].want = {}
  /\ reader' = [reader EXCEPT ![r].at = "rank", ![r].got = [s \in Symbols |-> PriceOf(s)]]
  /\ UNCHANGED <<market, handled, hand, price, quote, movers, replays, odd>>

\* With no price at all the movers come from another provider, or from none.
Ranked(r) == IF reader[r].got # Nothing THEN {reader[r].got}
             ELSE {[s \in Symbols |-> IF s \in A THEN market[s] ELSE NoEntry] : A \in SUBSET Symbols}

SetMovers(r) ==
  /\ reader[r].at = "rank"
  /\ \E m \in Ranked(r) : movers' = [prices |-> m, over |-> reader[r].over]
  /\ reader' = [reader EXCEPT ![r] = Closed]
  /\ UNCHANGED <<market, handled, hand, price, quote, replays, odd>>

NoMovers(r) ==
  /\ reader[r].at = "rank" /\ reader[r].got = Nothing
  /\ reader' = [reader EXCEPT ![r] = Closed]
  /\ UNCHANGED <<market, handled, hand, price, quote, movers, replays, odd>>

(***************************************************************************)
(* TTLs: a price 24 h (900 s from a quote), a quote 900 s, movers 10 s.    *)
(***************************************************************************)
PriceExpires(s) ==
  /\ price[s] # NoEntry /\ price[s].ttl # "none"
  /\ price' = [price EXCEPT ![s] = NoEntry]
  /\ odd' = odd \cup {s}
  /\ UNCHANGED <<market, handled, hand, quote, movers, reader, replays>>

QuoteExpires(s) ==
  /\ quote[s] # NoEntry
  /\ quote' = [quote EXCEPT ![s] = NoEntry]
  /\ UNCHANGED <<market, handled, hand, price, movers, reader, replays, odd>>

MoversExpire ==
  /\ movers # NoEntry
  /\ movers' = NoEntry
  /\ UNCHANGED <<market, handled, hand, price, quote, reader, replays, odd>>

Consume == (\E s \in Symbols : ReadPrevious(s)) \/ SetPrice \/ DelMovers
Answer(r) == \/ Quote(r) \/ NoQuote(r) \/ CacheQuote(r) \/ AnswerStock(r)
             \/ ReadPrices(r) \/ SetMovers(r) \/ NoMovers(r)

MarketNext ==
  \/ Consume \/ HandlingFails \/ Replay \/ MoversExpire
  \/ \E s \in Symbols :
       Announce(s) \/ PriceExpires(s) \/ QuoteExpires(s)
  \/ \E r \in Readers : Answer(r) \/ GetMovers(r) \/ \E s \in Symbols : GetStock(r, s)

\* Redis removes a key when its time has come; Node runs the continuations.
MarketFairness ==
  /\ \A r \in Readers : WF_marketVars(Answer(r))
  /\ \A s \in Symbols : WF_marketVars(PriceExpires(s)) /\ WF_marketVars(QuoteExpires(s))

MarketSpec == MarketInit /\ [][MarketNext]_marketVars /\ MarketFairness

(***************************************************************************)
(* Properties.                                                             *)
(***************************************************************************)
\* Type correctness of the caches, the consumer and the open requests.
MarketTypeOK ==
  LET MaybePrice == Prices \cup {NoEntry} IN
  /\ market \in [Symbols -> Prices] /\ handled \in [Symbols -> Prices]
  /\ hand \in [at : {"idle", "set", "del"}, sym : Symbols \cup {NoEntry}, prev : MaybePrice]
  /\ price \in [Symbols -> [price : Prices, prev : Prices, ttl : {"day", "quarter", "none"}]
                            \cup {NoEntry}]
  /\ quote \in [Symbols -> MaybePrice]
  /\ movers = NoEntry \/ movers \in [prices : [Symbols -> MaybePrice], over : SUBSET Symbols]
  /\ reader \in [Readers -> [at : {"closed", "stock", "movers", "rank"}, want : SUBSET Symbols,
                              got : [Symbols -> MaybePrice], over : SUBSET Symbols]]
  /\ replays \in 0..MaxReplays /\ odd \subseteq Symbols

\* handlePrice() computes the change from what it reads of the key it then writes,
\* with requests and other symbols' messages in between.  As long as no replay, error,
\* quote or expiry touched a symbol, its entry is the last message handled, and the
\* change shown is the one since the message before.
EntryIsLastMessage ==
  \A s \in Symbols :
    s \in odd \/ (hand.at = "del" /\ hand.sym = s)
    \/ IF handled[s] = 0 THEN price[s] = NoEntry
       ELSE /\ PriceOf(s) = handled[s]
            /\ price[s].prev = IF handled[s] = 1 THEN 1 ELSE handled[s] - 1

\* papi:movers is deleted with every price: cached movers show every price as the
\* messages left it, but for those that arrived while the movers were being ranked.
MoversFollowMessages ==
  movers # NoEntry =>
    \A s \in Symbols :
      s \in odd \cup movers.over \/ (hand.at = "del" /\ hand.sym = s)
      \/ price[s] = NoEntry \/ movers.prices[s] = PriceOf(s)

\* The two caches of prices say what the messages said.
PricesFollowMessages == EntryIsLastMessage /\ MoversFollowMessages

\* A request that found no price may write its quote after a newer message, and the
\* movers may rank it: the older price does not stay, the quote's TTL ends it.
OlderPricesPass ==
  []<>(\A s \in Symbols : price[s] = NoEntry \/ PriceOf(s) >= handled[s])
============================================================================
