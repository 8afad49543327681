--------------------------- MODULE MarketProofs ---------------------------
(* Proofs about MarketCache, for any symbols and requests and without a bound on the messages,  *)
(* and about ProviderCaches, for any deployments and any number of requests.                  *)
EXTENDS MarketCache, ProviderCaches, TLAPS

-----------------------------------------------------------------------------
(* MarketCache *)

MaybePrice == Nat \cup {NoEntry}
CachedPrice == [price : Nat, prev : Nat, ttl : {"day", "quarter", "none"}]
CachedMovers == [prices : [Symbols -> MaybePrice], over : SUBSET Symbols]
OpenRequest == [at : {"closed", "stock", "movers", "rank"}, want : SUBSET Symbols,
                got : [Symbols -> MaybePrice], over : SUBSET Symbols]

\* Types without the bound on the messages, and what the steps of the consumer and of the
\* requests have in hand.
CachesOK ==
  /\ price \in [Symbols -> CachedPrice \cup {NoEntry}]
  /\ quote \in [Symbols -> MaybePrice]
  /\ movers \in CachedMovers \cup {NoEntry}
ConsumerOK ==
  /\ market \in [Symbols -> Nat] /\ handled \in [Symbols -> Nat] /\ odd \subseteq Symbols
  /\ hand \in [at : {"idle", "set", "del"}, sym : Symbols \cup {NoEntry}, prev : MaybePrice]
  /\ hand.at # "idle" => hand.sym \in Symbols /\ hand.prev \in Nat
RequestsOK ==
  /\ reader \in [Readers -> OpenRequest]
  /\ \A r \in Readers : reader[r].at = "rank" => reader[r].want = {}

\* Of a symbol that nothing else touched, the consumer has the price of the message before
\* its own in hand, and has written what it had in hand.
Before(s) == IF handled[s] = 0 THEN 1 ELSE handled[s]
HandKnows ==
  hand.at # "idle" /\ hand.sym \notin odd =>
    /\ hand.prev = Before(hand.sym)
    /\ hand.at = "del" => /\ price[hand.sym] # NoEntry
                          /\ price[hand.sym].price = handled[hand.sym] + 1
                          /\ price[hand.sym].prev = Before(hand.sym)

\* A request that ranks prices has those that are cached, but for what came meanwhile.
RankKnows ==
  \A r \in Readers : reader[r].at = "rank" =>
    \A s \in Symbols : s \in odd \cup reader[r].over \/ reader[r].got[s] = PriceOf(s)

TypesHold == CachesOK /\ ConsumerOK /\ RequestsOK
MarketIInv == TypesHold /\ HandKnows /\ EntryIsLastMessage /\ RankKnows /\ MoversFollowMessages

LEMMA Apart == NoEntry \notin CachedPrice /\ NoEntry \notin CachedMovers /\ NoEntry \notin Nat
BY NoEntryAssumption DEF CachedPrice, CachedMovers, MaybePrice

LEMMA PriceOfType == ASSUME CachesOK, NEW s \in Symbols
                     PROVE  PriceOf(s) \in MaybePrice /\ (PriceOf(s) = NoEntry <=> price[s] = NoEntry)
<1>1. CASE price[s] = NoEntry
  BY <1>1 DEF PriceOf, MaybePrice
<1>2. CASE price[s] \in CachedPrice
  BY <1>2, Apart DEF PriceOf, MaybePrice, CachedPrice
<1> QED
  BY <1>1, <1>2 DEF CachesOK

LEMMA MarketInitHolds == MarketInit => MarketIInv
<1> SUFFICES ASSUME MarketInit PROVE MarketIInv
  OBVIOUS
<1>1. Nothing \in [Symbols -> MaybePrice]
  BY DEF Nothing, MaybePrice
<1>2. TypesHold
  BY <1>1 DEF MarketInit, TypesHold, CachesOK, ConsumerOK, RequestsOK, AtRest, Closed, OpenRequest, MaybePrice
<1>3. HandKnows /\ EntryIsLastMessage /\ RankKnows /\ MoversFollowMessages
  BY DEF MarketInit, HandKnows, EntryIsLastMessage, RankKnows, MoversFollowMessages, AtRest, Closed
<1> QED
  BY <1>2, <1>3 DEF MarketIInv

-----------------------------------------------------------------------------
(* The consumer. *)

LEMMA ReadPreviousStep ==
  ASSUME MarketIInv, NEW s \in Symbols, ReadPrevious(s)
  PROVE  MarketIInv'
<1> DEFINE found == IF price[s] = NoEntry THEN Upcoming(s) ELSE PriceOf(s)
<1>1. TypesHold /\ hand' = [at |-> "set", sym |-> s, prev |-> found]
  BY DEF MarketIInv, ReadPrevious
<1>2. found \in Nat
  BY <1>1, PriceOfType DEF TypesHold, ConsumerOK, Upcoming, MaybePrice
<1>3. TypesHold'
  <2>1. ConsumerOK'
    BY <1>1, <1>2 DEF TypesHold, ConsumerOK, ReadPrevious, MaybePrice
  <2> QED
    BY <1>1, <2>1 DEF TypesHold, CachesOK, RequestsOK, ReadPrevious
<1>4. s \notin odd => found = Before(s)
  <2>1. s \notin odd => IF handled[s] = 0 THEN price[s] = NoEntry ELSE PriceOf(s) = handled[s]
    BY DEF MarketIInv, EntryIsLastMessage, ReadPrevious
  <2>2. handled[s] \in Nat
    BY <1>1 DEF TypesHold, ConsumerOK
  <2>3. handled[s] # 0 /\ PriceOf(s) = handled[s] => price[s] # NoEntry
    BY <2>2, Apart DEF PriceOf
  <2> QED
    BY <2>1, <2>2, <2>3 DEF Upcoming, Before
<1>5. HandKnows'
  BY <1>1, <1>4 DEF HandKnows, Before, ReadPrevious
<1>6. EntryIsLastMessage'
  BY <1>1 DEF MarketIInv, EntryIsLastMessage, ReadPrevious, PriceOf
<1>7. RankKnows' /\ MoversFollowMessages'
  BY <1>1 DEF MarketIInv, RankKnows, MoversFollowMessages, ReadPrevious, PriceOf
<1> QED
  BY <1>3, <1>5, <1>6, <1>7 DEF MarketIInv

LEMMA SetPriceStep ==
  ASSUME MarketIInv, SetPrice
  PROVE  MarketIInv'
<1> DEFINE x == hand.sym
           e == [price |-> Upcoming(x), prev |-> hand.prev, ttl |-> "day"]
<1>1. /\ TypesHold /\ x \in Symbols /\ hand.prev \in Nat /\ handled[x] \in Nat
      /\ hand' = [at |-> "del", sym |-> x, prev |-> hand.prev]
  BY DEF MarketIInv, TypesHold, ConsumerOK, SetPrice
<1>2. e \in CachedPrice /\ price' = [price EXCEPT ![x] = e]
  BY <1>1 DEF CachedPrice, Upcoming, SetPrice
<1>3. /\ price' \in [Symbols -> CachedPrice \cup {NoEntry}] /\ price'[x] = e
      /\ \A s \in Symbols \ {x} : price'[s] = price[s]
  BY <1>1, <1>2 DEF TypesHold, CachesOK
<1>4. \A r \in Readers : /\ reader'[r] \in OpenRequest
                         /\ reader'[r].at = reader[r].at /\ reader'[r].got = reader[r].got
                         /\ reader'[r].want = reader[r].want
                         /\ reader[r].over \subseteq reader'[r].over
                         /\ reader[r].at = "rank" => x \in reader'[r].over
  BY <1>1 DEF TypesHold, RequestsOK, OpenRequest, Overtaken, SetPrice
<1>5. TypesHold'
  <2>1. CachesOK' /\ ConsumerOK'
    BY <1>1, <1>3 DEF TypesHold, CachesOK, ConsumerOK, SetPrice
  <2>2. reader' \in [Readers -> OpenRequest]
    BY <1>4 DEF SetPrice, Overtaken
  <2>3. RequestsOK'
    BY <1>1, <1>4, <2>2 DEF TypesHold, RequestsOK
  <2> QED
    BY <2>1, <2>3 DEF TypesHold
<1>6. HandKnows'
  <2>1. price'[x] # NoEntry /\ price'[x].price = handled[x] + 1 /\ price'[x].prev = hand.prev
    BY <1>2, <1>3, Apart DEF Upcoming
  <2>2. x \notin odd => hand.prev = Before(x)
    BY DEF MarketIInv, HandKnows, SetPrice
  <2> QED
    BY <1>1, <2>1, <2>2 DEF HandKnows, Before, SetPrice
<1>7. EntryIsLastMessage'
  BY <1>1, <1>3 DEF MarketIInv, EntryIsLastMessage, PriceOf, SetPrice
<1>8. RankKnows'
  BY <1>1, <1>3, <1>4 DEF MarketIInv, RankKnows, PriceOf, SetPrice
<1>9. MoversFollowMessages'
  BY <1>1, <1>3 DEF MarketIInv, MoversFollowMessages, PriceOf, SetPrice
<1> QED
  BY <1>5, <1>6, <1>7, <1>8, <1>9 DEF MarketIInv

LEMMA DelMoversStep ==
  ASSUME MarketIInv, DelMovers
  PROVE  MarketIInv'
<1> DEFINE x == hand.sym
<1>1. TypesHold /\ x \in Symbols /\ handled[x] \in Nat
  BY DEF MarketIInv, TypesHold, ConsumerOK, DelMovers
<1>2. /\ handled' \in [Symbols -> Nat] /\ handled'[x] = handled[x] + 1
      /\ \A s \in Symbols \ {x} : handled'[s] = handled[s]
  BY <1>1 DEF DelMovers, TypesHold, ConsumerOK
<1>3. TypesHold'
  BY <1>1, <1>2 DEF TypesHold, CachesOK, ConsumerOK, RequestsOK, DelMovers, AtRest, MaybePrice
<1>4. HandKnows' /\ MoversFollowMessages'
  BY DEF DelMovers, AtRest, HandKnows, MoversFollowMessages
<1>5. EntryIsLastMessage'
  <2> SUFFICES ASSUME NEW s \in Symbols, s \notin odd
               PROVE  IF handled'[s] = 0 THEN price[s] = NoEntry
                      ELSE /\ PriceOf(s) = handled'[s]
                           /\ price[s].prev = IF handled'[s] = 1 THEN 1 ELSE handled'[s] - 1
    BY DEF EntryIsLastMessage, DelMovers, PriceOf
  <2>1. CASE s = x
    <3>1. price[x] # NoEntry /\ price[x].price = handled[x] + 1 /\ price[x].prev = Before(x)
      BY <2>1 DEF MarketIInv, HandKnows, DelMovers
    <3> QED
      BY <1>1, <1>2, <2>1, <3>1 DEF Before, PriceOf
  <2>2. CASE s # x
    BY <1>2, <2>2 DEF MarketIInv, EntryIsLastMessage, DelMovers
  <2> QED
    BY <2>1, <2>2
<1>6. RankKnows'
  BY DEF MarketIInv, RankKnows, DelMovers, PriceOf
<1> QED
  BY <1>3, <1>4, <1>5, <1>6 DEF MarketIInv

LEMMA HandlingFailsStep ==
  ASSUME MarketIInv, HandlingFails
  PROVE  MarketIInv'
<1> DEFINE x == hand.sym
<1>1. TypesHold /\ x \in Symbols /\ handled[x] \in Nat
  BY DEF MarketIInv, TypesHold, ConsumerOK, HandlingFails
<1>2. handled' \in [Symbols -> Nat] /\ \A s \in Symbols \ {x} : handled'[s] = handled[s]
  BY <1>1 DEF HandlingFails, TypesHold, ConsumerOK
<1>3. TypesHold'
  BY <1>1, <1>2 DEF TypesHold, CachesOK, ConsumerOK, RequestsOK, HandlingFails, AtRest, MaybePrice
<1>4. HandKnows'
  BY DEF HandlingFails, AtRest, HandKnows
<1>5. EntryIsLastMessage'
  BY <1>2 DEF MarketIInv, EntryIsLastMessage, HandlingFails, PriceOf
<1>6. RankKnows' /\ MoversFollowMessages'
  BY DEF MarketIInv, RankKnows, MoversFollowMessages, HandlingFails, PriceOf
<1> QED
  BY <1>3, <1>4, <1>5, <1>6 DEF MarketIInv

LEMMA ReplayStep ==
  ASSUME MarketIInv, Replay
  PROVE  MarketIInv'
<1>1. PICK h \in [Symbols -> Prices] :
        /\ \A s \in Symbols : h[s] <= handled[s]
        /\ handled' = h
        /\ odd' = odd \cup {s \in Symbols : h[s] < handled[s] \/ Took(s)}
  BY DEF Replay
<1>2. TypesHold /\ handled' \in [Symbols -> Nat]
  BY <1>1, MarketBounds DEF MarketIInv, Prices
<1>3. \A s \in Symbols : s \notin odd' => handled'[s] = handled[s] /\ s \notin odd /\ ~ Took(s)
  BY <1>1, <1>2 DEF TypesHold, ConsumerOK
<1>4. TypesHold'
  <2>1. odd' \subseteq Symbols
    BY <1>1, <1>2 DEF TypesHold, ConsumerOK
  <2> QED
    BY <1>2, <2>1 DEF TypesHold, CachesOK, ConsumerOK, RequestsOK, Replay, AtRest, MaybePrice
<1>5. HandKnows'
  BY DEF Replay, AtRest, HandKnows
<1>6. EntryIsLastMessage'
  BY <1>3 DEF MarketIInv, EntryIsLastMessage, Replay, PriceOf, Took
<1>7. RankKnows' /\ MoversFollowMessages'
  BY <1>3, <1>1 DEF MarketIInv, RankKnows, MoversFollowMessages, Replay, PriceOf, Took
<1> QED
  BY <1>4, <1>5, <1>6, <1>7 DEF MarketIInv

-----------------------------------------------------------------------------
(* The requests. *)

\* A step of one request that leaves the caches of prices and the consumer alone.
LEMMA RequestStep ==
  ASSUME MarketIInv, NEW r \in Readers, NEW x \in OpenRequest,
         reader' = [reader EXCEPT ![r] = x], quote' \in [Symbols -> MaybePrice],
         x.at = "rank" => /\ x.want = {}
                          /\ \A s \in Symbols : s \in odd \cup x.over \/ x.got[s] = PriceOf(s),
         UNCHANGED <<market, handled, hand, price, odd>>,
         movers' \in CachedMovers \cup {NoEntry}, movers' = movers \/ MoversFollowMessages'
  PROVE  MarketIInv'
<1>1. TypesHold'
  BY DEF MarketIInv, TypesHold, CachesOK, ConsumerOK, RequestsOK
<1>2. HandKnows' /\ EntryIsLastMessage'
  BY DEF MarketIInv, HandKnows, Before, EntryIsLastMessage, PriceOf
<1>3. RankKnows'
  BY DEF MarketIInv, TypesHold, RequestsOK, RankKnows, PriceOf
<1>4. MoversFollowMessages'
  BY DEF MarketIInv, MoversFollowMessages, PriceOf
<1> QED
  BY <1>1, <1>2, <1>3, <1>4 DEF MarketIInv

LEMMA MarketAskStep ==
  ASSUME MarketIInv, NEW r \in Readers,
         GetMovers(r) \/ Quote(r) \/ NoQuote(r) \/ AnswerStock(r) \/ NoMovers(r) \/ \E s \in Symbols : GetStock(r, s)
  PROVE  MarketIInv'
<1>1. /\ reader \in [Readers -> OpenRequest] /\ market \in [Symbols -> Nat] /\ quote \in [Symbols -> MaybePrice]
      /\ movers \in CachedMovers \cup {NoEntry} /\ (reader[r].at = "rank" => reader[r].want = {})
  BY DEF MarketIInv, TypesHold, CachesOK, ConsumerOK, RequestsOK
<1>2. Closed \in OpenRequest /\ Closed.at = "closed"
  BY DEF Closed, OpenRequest, Nothing, MaybePrice
<1>3. CASE AnswerStock(r) \/ NoMovers(r)
  BY <1>1, <1>2, <1>3, RequestStep DEF AnswerStock, NoMovers
<1>4. CASE GetMovers(r)
  <2> DEFINE x == [reader[r] EXCEPT !.at = "movers", !.want = {s \in Symbols : price[s] = NoEntry}]
  <2>1. x \in OpenRequest /\ x.at = "movers" /\ reader' = [reader EXCEPT ![r] = x]
    BY <1>1, <1>4 DEF OpenRequest, GetMovers
  <2> QED
    BY <1>1, <1>4, <2>1, RequestStep DEF GetMovers
<1>5. ASSUME NEW s \in Symbols, GetStock(r, s)
      PROVE  MarketIInv'
  <2> DEFINE x == [reader[r] EXCEPT !.at = "stock", !.want = {s}]
  <2>1. x \in OpenRequest /\ x.at = "stock"
    BY <1>1 DEF OpenRequest
  <2>2. reader' = [reader EXCEPT ![r] = x]
    BY <1>1, <1>5 DEF OpenRequest, GetStock
  <2> QED
    BY <1>1, <1>5, <2>1, <2>2, RequestStep DEF GetStock
<1>6. CASE NoQuote(r)
  <2>1. PICK s \in reader[r].want : reader' = [reader EXCEPT ![r].want = @ \ {s}]
    BY <1>6 DEF NoQuote
  <2> DEFINE x == [reader[r] EXCEPT !.want = @ \ {s}]
  <2>2. x \in OpenRequest /\ x.at # "rank" /\ reader' = [reader EXCEPT ![r] = x]
    BY <1>1, <2>1 DEF OpenRequest
  <2> QED
    BY <1>1, <1>6, <2>2, RequestStep DEF NoQuote
<1>7. CASE Quote(r)
  <2>1. PICK s \in reader[r].want :
          LET q == IF quote[s] = NoEntry THEN market[s] ELSE quote[s] IN
            /\ quote' = [quote EXCEPT ![s] = q] /\ reader' = [reader EXCEPT ![r].got[s] = q]
            /\ UNCHANGED <<market, handled, hand, price, movers, odd>>
    BY <1>7 DEF Quote
  <2> DEFINE q == IF quote[s] = NoEntry THEN market[s] ELSE quote[s]
             x == [reader[r] EXCEPT !.got[s] = q]
  <2>2. s \in Symbols
    BY <1>1 DEF OpenRequest
  <2>3. q \in MaybePrice
    BY <1>1, <2>2 DEF MaybePrice
  <2>4. x \in OpenRequest /\ x.at # "rank" /\ reader' = [reader EXCEPT ![r] = x]
    BY <1>1, <2>1, <2>2, <2>3 DEF OpenRequest
  <2>5. quote' \in [Symbols -> MaybePrice]
    BY <1>1, <2>1, <2>2, <2>3
  <2> QED
    BY <1>1, <2>1, <2>4, <2>5, RequestStep
<1> QED
  BY <1>3, <1>4, <1>5, <1>6, <1>7

LEMMA RankStep ==
  ASSUME MarketIInv, NEW r \in Readers, ReadPrices(r) \/ SetMovers(r)
  PROVE  MarketIInv'
<1>1. /\ TypesHold /\ reader \in [Readers -> OpenRequest] /\ market \in [Symbols -> Nat]
      /\ quote \in [Symbols -> MaybePrice] /\ movers \in CachedMovers \cup {NoEntry}
  BY DEF MarketIInv, TypesHold, CachesOK, ConsumerOK, RequestsOK
<1>2. CASE ReadPrices(r)
  <2> DEFINE x == [reader[r] EXCEPT !.at = "rank", !.got = [s \in Symbols |-> PriceOf(s)]]
  <2>1. [s \in Symbols |-> PriceOf(s)] \in [Symbols -> MaybePrice]
    BY <1>1, PriceOfType DEF TypesHold
  <2>2. /\ x \in OpenRequest /\ x.at = "rank" /\ x.want = {} /\ x.got = [s \in Symbols |-> PriceOf(s)]
        /\ reader' = [reader EXCEPT ![r] = x]
    BY <1>1, <1>2, <2>1 DEF OpenRequest, ReadPrices
  <2>3. \A s \in Symbols : x.got[s] = PriceOf(s)
    BY <2>2
  <2>4. x.at = "rank" => /\ x.want = {}
                        /\ \A s \in Symbols : s \in odd \cup x.over \/ x.got[s] = PriceOf(s)
    BY <2>2, <2>3
  <2>5. UNCHANGED <<market, handled, hand, price, quote, movers, odd>>
    BY <1>2 DEF ReadPrices
  <2> HIDE DEF x
  <2> QED
    BY <1>1, <2>2, <2>4, <2>5, RequestStep
<1>3. CASE SetMovers(r)
  <2>1. PICK m \in Ranked(r) : movers' = [prices |-> m, over |-> reader[r].over]
    BY <1>3 DEF SetMovers
  <2>2. m \in [Symbols -> MaybePrice]
    <3>1. CASE reader[r].got # Nothing
      BY <1>1, <2>1, <3>1 DEF Ranked, OpenRequest
    <3>2. CASE reader[r].got = Nothing
      <4>1. PICK A \in SUBSET Symbols : m = [s \in Symbols |-> IF s \in A THEN market[s] ELSE NoEntry]
        BY <2>1, <3>2 DEF Ranked
      <4> QED
        BY <1>1, <4>1 DEF MaybePrice
    <3> QED
      BY <3>1, <3>2
  <2>3. movers' \in CachedMovers
    BY <1>1, <2>1, <2>2 DEF CachedMovers, OpenRequest
  <2>4. MoversFollowMessages'
    <3> SUFFICES ASSUME NEW s \in Symbols, s \notin odd \cup reader[r].over, price[s] # NoEntry
                 PROVE  m[s] = PriceOf(s)
      BY <1>3, <2>1 DEF MoversFollowMessages, SetMovers, PriceOf
    <3>1. reader[r].got[s] = PriceOf(s)
      BY <1>3 DEF MarketIInv, RankKnows, SetMovers
    <3>2. reader[r].got # Nothing
      BY <1>1, <3>1, PriceOfType DEF TypesHold, Nothing
    <3> QED
      BY <2>1, <3>1, <3>2 DEF Ranked
  <2>5. Closed \in OpenRequest /\ Closed.at # "rank"
    BY DEF Closed, OpenRequest, Nothing, MaybePrice
  <2> QED
    BY <1>1, <1>3, <2>3, <2>4, <2>5, RequestStep DEF SetMovers
<1> QED
  BY <1>2, <1>3

\* A price that a request writes or that expires makes its symbol an odd one.
LEMMA OddStep ==
  ASSUME MarketIInv, NEW s \in Symbols, NEW e \in CachedPrice \cup {NoEntry},
         price' = [price EXCEPT ![s] = e], odd' = odd \cup {s},
         reader' \in [Readers -> OpenRequest],
         \A r \in Readers : reader'[r] = reader[r] \/ (reader[r].at # "rank" /\ reader'[r].at # "rank"),
         UNCHANGED <<market, handled, hand, quote, movers>>
  PROVE  MarketIInv'
<1>1. /\ price' \in [Symbols -> CachedPrice \cup {NoEntry}]
      /\ \A x \in Symbols : x \notin odd' => price'[x] = price[x] /\ x \notin odd
  BY DEF MarketIInv, TypesHold, CachesOK
<1>2. TypesHold'
  BY <1>1 DEF MarketIInv, TypesHold, CachesOK, ConsumerOK, RequestsOK
<1>3. HandKnows'
  BY <1>1 DEF MarketIInv, TypesHold, ConsumerOK, HandKnows, Before
<1>4. EntryIsLastMessage'
  BY <1>1 DEF MarketIInv, EntryIsLastMessage, PriceOf
<1>5. RankKnows'
  BY <1>1 DEF MarketIInv, RankKnows, PriceOf
<1>6. MoversFollowMessages'
  BY <1>1 DEF MarketIInv, MoversFollowMessages, PriceOf
<1> QED
  BY <1>2, <1>3, <1>4, <1>5, <1>6 DEF MarketIInv

LEMMA CacheQuoteStep ==
  ASSUME MarketIInv, NEW r \in Readers, CacheQuote(r)
  PROVE  MarketIInv'
<1>1. PICK s \in reader[r].want :
        /\ reader[r].got[s] # NoEntry
        /\ price' = [price EXCEPT ![s] = [price |-> reader[r].got[s], prev |-> reader[r].got[s], ttl |-> "quarter"]]
        /\ odd' = odd \cup {s}
        /\ reader' = [reader EXCEPT ![r].want = @ \ {s}, ![r].got[s] = NoEntry]
        /\ UNCHANGED <<market, handled, hand, quote, movers, replays>>
  BY DEF CacheQuote, WriteQuote
<1>2. reader \in [Readers -> OpenRequest] /\ reader[r].at # "rank"
  BY <1>1 DEF MarketIInv, TypesHold, RequestsOK
<1>3. s \in Symbols /\ reader[r].got[s] \in Nat
  BY <1>1, <1>2 DEF OpenRequest, MaybePrice
<1> DEFINE x == [reader[r] EXCEPT !.want = @ \ {s}, !.got[s] = NoEntry]
<1>4. x \in OpenRequest /\ x.at # "rank" /\ reader' = [reader EXCEPT ![r] = x]
  BY <1>1, <1>2, <1>3 DEF OpenRequest, MaybePrice
<1>5. /\ reader' \in [Readers -> OpenRequest]
      /\ \A q \in Readers : reader'[q] = reader[q] \/ (reader[q].at # "rank" /\ reader'[q].at # "rank")
  BY <1>2, <1>4
<1>6. [price |-> reader[r].got[s], prev |-> reader[r].got[s], ttl |-> "quarter"] \in CachedPrice
  BY <1>3 DEF CachedPrice
<1> QED
  BY <1>1, <1>3, <1>5, <1>6, OddStep

LEMMA TimeStep ==
  ASSUME MarketIInv, NEW s \in Symbols, PriceExpires(s) \/ QuoteExpires(s) \/ Announce(s)
  PROVE  MarketIInv'
<1>1. CASE PriceExpires(s)
  BY <1>1, OddStep DEF PriceExpires, MarketIInv, TypesHold, RequestsOK
<1>2. CASE QuoteExpires(s) \/ Announce(s)
  <2>1. /\ UNCHANGED <<handled, hand, price, movers, reader, odd>>
        /\ quote' \in [Symbols -> MaybePrice] /\ market' \in [Symbols -> Nat]
    <3>1. quote \in [Symbols -> MaybePrice] /\ market \in [Symbols -> Nat]
      BY DEF MarketIInv, TypesHold, CachesOK, ConsumerOK
    <3>2. CASE QuoteExpires(s)
      BY <3>1, <3>2 DEF QuoteExpires, MaybePrice
    <3>3. CASE Announce(s)
      <4>1. market' = [market EXCEPT ![s] = @ + 1] /\ UNCHANGED <<handled, hand, price, quote, movers, reader, odd>>
        BY <3>3, Zenon DEF Announce
      <4> QED
        BY <3>1, <4>1
    <3> QED
      BY <1>2, <3>2, <3>3
  <2>2. TypesHold'
    BY <2>1 DEF MarketIInv, TypesHold, CachesOK, ConsumerOK, RequestsOK
  <2> QED
    BY <2>1, <2>2 DEF MarketIInv, HandKnows, Before, EntryIsLastMessage, RankKnows, MoversFollowMessages, PriceOf
<1> QED
  BY <1>1, <1>2

LEMMA IdleStep ==
  ASSUME MarketIInv, MoversExpire \/ UNCHANGED marketVars
  PROVE  MarketIInv'
<1>1. TypesHold'
  BY DEF MoversExpire, marketVars, MarketIInv, TypesHold, CachesOK, ConsumerOK, RequestsOK
<1> QED
  BY <1>1 DEF MoversExpire, marketVars, MarketIInv, HandKnows, Before, EntryIsLastMessage, RankKnows, MoversFollowMessages, PriceOf

-----------------------------------------------------------------------------
\* The invariant: the entries, the movers and what every step has in hand of them.
THEOREM MarketInvariance == MarketSpec => []MarketIInv
<1>1. MarketIInv /\ [MarketNext]_marketVars => MarketIInv'
  BY ReadPreviousStep, SetPriceStep, DelMoversStep, HandlingFailsStep, ReplayStep, MarketAskStep, RankStep,
     CacheQuoteStep, TimeStep, IdleStep DEF MarketNext, Consume, Answer
<1> QED
  BY MarketInitHolds, <1>1, PTL DEF MarketSpec

\* The cached price of a symbol is the last message's and its change the one since the message
\* before, and cached movers follow the messages, for any number of messages and requests.
THEOREM CachesFollowMessages == MarketSpec => []PricesFollowMessages
<1>1. MarketIInv => PricesFollowMessages
  BY DEF MarketIInv, PricesFollowMessages
<1> QED
  BY MarketInvariance, <1>1, PTL

-----------------------------------------------------------------------------
(* ProviderCaches *)

Results == {"none", "some", "bare", "all"}
States == {"closed", "open", "halfOpen"}
Cached == [what : {"whole", "part", "bare", "fallback", "empty"}, ttl : {"minutes", "hour", "day", "none"}]
Short(k, e) == e.what \in Hollow(k) => e.ttl = "minutes"

\* An open request asks for one of the kinds.
AsksAKind == \A r \in Lookups : lookup[r].at # "closed" => lookup[r].kind \in Kinds

ProviderIInv == ProviderTypeOK /\ AsksAKind /\ DegradedIsShort

-----------------------------------------------------------------------------
\* A guarded call answers with one of the results, and leaves the breaker in a state.
LEMMA FiredType ==
  ASSUME ProviderTypeOK, NEW p \in Providers, NEW calls, NEW o \in Fired(p, calls)
  PROVE  o[1] \in Results /\ o[2] \in States /\ (p = "prices" => o[2] = "closed")
<1>1. Answered(p, calls) \subseteq Results /\ FirstOf(p, calls) \subseteq Results
  BY DEF Answered, FirstOf, PartOf, BareOf, Results
<1>2. CASE p = "prices"
  BY <1>1, <1>2 DEF Fired, States
<1>3. CASE p # "prices"
  <2>1. o \in Guarded(p, calls) /\ breaker[p] \in States
    BY <1>3 DEF Fired, ProviderTypeOK, States
  <2>2. o = <<"none", breaker[p]>> \/ o = <<"none", "open">> \/ o \in Results \X States
    BY <1>1, <2>1 DEF Guarded, States
  <2> QED
    BY <1>3, <2>1, <2>2 DEF Results, States
<1> QED
  BY <1>2, <1>3

LEMMA ProviderType == ASSUME NEW k \in Kinds PROVE Provider(k) \in Providers
BY DEF Provider, Providers, External, Kinds

\* What a method caches of what it got is typed, and a hollow one only for minutes.
LEMMA EntryIsShort ==
  ASSUME NEW k \in Kinds, NEW got \in Results
  PROVE  Entry(k, got) = Absent \/ (Entry(k, got) \in Cached /\ Short(k, Entry(k, got)))
<1>1. ASSUME NEW ttl \in {"hour", "day"}
      PROVE  IfAny(got, ttl) = Absent \/ (IfAny(got, ttl) \in Cached /\ Short(k, IfAny(got, ttl)))
  BY DEF IfAny, Kept, Part, Cached, Short, Hollow, Results
<1>2. CASE k = "assets"
  BY <1>2 DEF Entry, Assets, Kept, Part, Cached, Short, Hollow, Results
<1>3. CASE k \in {"overview", "factors"}
  BY <1>3 DEF Entry, Overview, Factors, Kept, Part, Cached, Short, Hollow, Results
<1>4. CASE k = "sp500"
  BY <1>4 DEF Entry, Sectors, Kept, Cached, Short, Hollow, Results
<1>5. CASE k \in {"ftse100", "screener", "analyst"}
  BY <1>1, <1>5 DEF Entry, Ftse100, Screener, Ratings
<1> QED
  BY <1>2, <1>3, <1>4, <1>5 DEF Kinds

LEMMA ProviderInitHolds == ProviderInit => ProviderIInv
<1> SUFFICES ASSUME ProviderInit PROVE ProviderIInv
  OBVIOUS
<1>1. ProviderTypeOK
  BY DEF ProviderInit, ProviderTypeOK, NoLookup, Providers
<1> QED
  BY <1>1 DEF ProviderInit, ProviderIInv, AsksAKind, DegradedIsShort, NoLookup

-----------------------------------------------------------------------------
\* A call changes the request's own state and the breaker of the provider it asks.
LEMMA CallEffect ==
  ASSUME ProviderIInv, NEW r \in Lookups, lookup[r].kind \in Kinds,
         NEW p \in Providers, NEW calls, NEW o \in Fired(p, calls),
         NEW got \in Results, NEW at \in {"massive", "store"},
         breaker' = [breaker EXCEPT ![p] = o[2]],
         lookup' = [lookup EXCEPT ![r] = [at |-> at, kind |-> lookup[r].kind, got |-> got]],
         UNCHANGED <<keys, up, cache>>
  PROVE  ProviderIInv'
<1>1. ProviderTypeOK
  BY DEF ProviderIInv
<1>2. o[2] \in States /\ (p = "prices" => o[2] = "closed")
  BY <1>1, FiredType
<1>3. breaker' \in [Providers -> States] /\ breaker'["prices"] = "closed"
  BY <1>1, <1>2 DEF ProviderTypeOK, States, Providers
<1>4. lookup' \in [Lookups -> [at : {"closed", "ask", "massive", "store"},
                               kind : Kinds \cup {Absent}, got : {"none", "some", "bare", "all"}]]
  BY <1>1 DEF ProviderTypeOK, Results
<1>5. ProviderTypeOK'
  BY <1>1, <1>3, <1>4 DEF ProviderTypeOK, States
<1>6. AsksAKind'
  BY <1>1 DEF ProviderIInv, AsksAKind, ProviderTypeOK
<1> QED
  BY <1>5, <1>6 DEF ProviderIInv, DegradedIsShort

LEMMA ProviderAskStep ==
  ASSUME ProviderIInv, NEW r \in Lookups, Ask(r)
  PROVE  ProviderIInv'
<1> DEFINE p == Provider(lookup[r].kind)
           calls == Calls(lookup[r].kind)
<1>1. ProviderTypeOK /\ lookup[r].kind \in Kinds
  BY DEF ProviderIInv, AsksAKind, Ask
<1>2. PICK o \in Fired(p, calls) :
        /\ breaker' = [breaker EXCEPT ![p] = o[2]]
        /\ lookup' = [lookup EXCEPT ![r] =
             [at |-> IF AlsoAsksMassive(lookup[r].kind, o[1]) THEN "massive" ELSE "store",
              kind |-> lookup[r].kind, got |-> o[1]]]
  BY DEF Ask
<1>3. p \in Providers
  BY <1>1, ProviderType
<1>4. UNCHANGED <<keys, up, cache>>
  BY DEF Ask
<1> HIDE DEF p, calls
<1>5. o[1] \in Results
  BY <1>1, <1>3, FiredType
<1> DEFINE got == o[1]
           at == IF AlsoAsksMassive(lookup[r].kind, got) THEN "massive" ELSE "store"
<1>6. at \in {"massive", "store"} /\ got \in Results
  BY <1>5
<1>7. lookup' = [lookup EXCEPT ![r] = [at |-> at, kind |-> lookup[r].kind, got |-> got]]
  BY <1>2
<1>8. breaker' = [breaker EXCEPT ![p] = o[2]]
  BY <1>2
<1> HIDE DEF at, got
<1> QED
  BY <1>1, <1>3, <1>4, <1>6, <1>7, <1>8, CallEffect

LEMMA AskMassiveStep ==
  ASSUME ProviderIInv, NEW r \in Lookups, AskMassive(r)
  PROVE  ProviderIInv'
<1>1. ProviderTypeOK /\ lookup[r].kind \in Kinds
  BY DEF ProviderIInv, AsksAKind, AskMassive
<1>2. PICK o \in Fired("massive", "several") :
        /\ breaker' = [breaker EXCEPT !["massive"] = o[2]]
        /\ lookup' = [lookup EXCEPT ![r] =
             [at |-> "store", kind |-> lookup[r].kind, got |-> Merged(lookup[r].kind, lookup[r].got, o[1])]]
  BY DEF AskMassive
<1> DEFINE got == Merged(lookup[r].kind, lookup[r].got, o[1])
<1>3. got \in Results
  BY <1>1 DEF Merged, ProviderTypeOK, Results
<1>4. lookup' = [lookup EXCEPT ![r] = [at |-> "store", kind |-> lookup[r].kind, got |-> got]]
  BY <1>2
<1>5. "massive" \in Providers /\ UNCHANGED <<keys, up, cache>>
  BY DEF Providers, External, AskMassive
<1> HIDE DEF got
<1> QED
  BY <1>1, <1>2, <1>3, <1>4, <1>5, CallEffect

LEMMA StoreStep ==
  ASSUME ProviderIInv, NEW r \in Lookups, Store(r)
  PROVE  ProviderIInv'
<1> DEFINE k == lookup[r].kind
           e == Entry(k, lookup[r].got)
<1>1. ProviderTypeOK /\ k \in Kinds /\ lookup[r].got \in Results
  BY DEF ProviderIInv, AsksAKind, Store, StoreAs, ProviderTypeOK, Results
<1>2. e = Absent \/ (e \in Cached /\ Short(k, e))
  BY <1>1, EntryIsShort
<1>3. cache' = IF e = Absent THEN cache ELSE [cache EXCEPT ![k] = e]
  BY DEF Store, StoreAs
<1> HIDE DEF e
<1>4. cache' \in [Kinds -> {Absent} \cup Cached] /\ DegradedIsShort'
  BY <1>1, <1>2, <1>3 DEF ProviderIInv, ProviderTypeOK, Cached, DegradedIsShort, Short
<1>5. NoLookup \in [at : {"closed", "ask", "massive", "store"}, kind : Kinds \cup {Absent}, got : Results]
  BY DEF NoLookup, Results
<1>6. ProviderTypeOK'
  BY <1>1, <1>4, <1>5 DEF ProviderTypeOK, Cached, Results, Store, StoreAs
<1>7. AsksAKind'
  BY <1>1 DEF ProviderIInv, AsksAKind, ProviderTypeOK, Store, StoreAs, NoLookup
<1> QED
  BY <1>4, <1>6, <1>7 DEF ProviderIInv

LEMMA OtherStep ==
  ASSUME ProviderIInv,
         \/ \E p \in Providers : Fails(p) \/ Blanks(p) \/ Recovers(p) \/ HalfOpens(p)
         \/ \E k \in Kinds : Expires(k) \/ \E r \in Lookups : Miss(r, k)
         \/ UNCHANGED providerVars
  PROVE  ProviderIInv'
<1>1. ASSUME NEW p \in Providers, NEW state \in {"up", "down", "bare"}, Turns(p, state)
      PROVE  ProviderIInv'
  <2>1. up' \in [Providers -> {"up", "down", "bare"}]
    BY <1>1 DEF Turns, ProviderIInv, ProviderTypeOK
  <2> QED
    BY <1>1, <2>1 DEF Turns, ProviderIInv, ProviderTypeOK, AsksAKind, DegradedIsShort
<1>2. ASSUME NEW p \in Providers, HalfOpens(p)
      PROVE  ProviderIInv'
  BY <1>2 DEF HalfOpens, ProviderIInv, ProviderTypeOK, AsksAKind, DegradedIsShort
<1>3. ASSUME NEW k \in Kinds, Expires(k)
      PROVE  ProviderIInv'
  <2>1. /\ cache' \in [Kinds -> {Absent} \cup Cached]
        /\ \A x \in Kinds : cache'[x] = Absent \/ cache'[x] = cache[x]
    BY <1>3 DEF Expires, ProviderIInv, ProviderTypeOK, Cached
  <2> QED
    BY <1>3, <2>1 DEF Expires, ProviderIInv, ProviderTypeOK, Cached, AsksAKind, DegradedIsShort
<1>4. ASSUME NEW k \in Kinds, NEW r \in Lookups, Miss(r, k)
      PROVE  ProviderIInv'
  <2>1. [at |-> "ask", kind |-> k, got |-> "none"] \in
          [at : {"closed", "ask", "massive", "store"}, kind : Kinds \cup {Absent}, got : Results]
    BY DEF Results
  <2> QED
    BY <1>4, <2>1 DEF Miss, ProviderIInv, ProviderTypeOK, Results, AsksAKind, DegradedIsShort
<1>5. CASE UNCHANGED providerVars
  BY <1>5 DEF providerVars, ProviderIInv, ProviderTypeOK, AsksAKind, DegradedIsShort
<1> QED
  BY <1>1, <1>2, <1>3, <1>4, <1>5 DEF Fails, Blanks, Recovers

-----------------------------------------------------------------------------
\* The invariant that carries the two theorems.
THEOREM ProviderInvariance == ProviderSpec => []ProviderIInv
<1>1. ProviderIInv /\ [ProviderNext]_providerVars => ProviderIInv'
  BY ProviderAskStep, AskMassiveStep, StoreStep, OtherStep DEF ProviderNext, Proceed
<1> QED
  BY ProviderInitHolds, <1>1, PTL DEF ProviderSpec

\* The caches, the breakers and the requests have their types: the breaker that price-processor
\* has not is never opened.
THEOREM TypeCorrect == ProviderSpec => []ProviderTypeOK
<1>1. ProviderIInv => ProviderTypeOK
  BY DEF ProviderIInv
<1> QED
  BY ProviderInvariance, <1>1, PTL

\* No stand-in and no hollow answer but the provider's own empty asset list is kept for an
\* hour or a day, for any number of requests, deployment, outage and empty answer.
THEOREM StandInsAreShort == ProviderSpec => []DegradedIsShort
<1>1. ProviderIInv => DegradedIsShort
  BY DEF ProviderIInv
<1> QED
  BY ProviderInvariance, <1>1, PTL
=============================================================================
