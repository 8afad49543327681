# A TLA+ verification of yana-stocks

yana-stocks is a stock-tracking platform of nine services: a Next.js frontend with its own
backend-for-frontend (BFF), a NestJS gateway (portfolio-api) in front of NestJS and Go services, and
Python workers, tied together by HTTP, Kafka, Redis, MongoDB and Postgres. This directory holds TLA+
modules of the parts where order, failure and concurrency decide whether it is correct, TLC
configurations that check them, and TLAPS proofs of what matters most.

Paths below are relative to the repository's root (`src/` in `PROJECT.json`).

## 1. The system

```
browser ──▶ frontend (Next.js pages; BFF: cookies, refresh, proxy)
              │
              ├──▶ auth-service (Go)        Postgres users, Redis tokens ──▶ users.registered ──▶ profile-service
              └──▶ portfolio-api (NestJS)   Redis: idempotency records, market caches
                     ├──▶ portfolio-service (NestJS, MongoDB: portfolios, trades, watchlists)
                     ├──▶ profile-service, price-processor, ml-predictor, third-party APIs
                     └──◀ Kafka: prices.processed, sentiment scores, predictions
price-ingestor ──▶ prices.raw ──▶ price-processor (MongoDB bars, Redis) ──▶ prices.processed
sentiment-analyzer ──▶ sentiment signals         ml-predictor ──▶ prediction signals
```

### 1.1 Inventory

| component | state | operations | hard behaviour | what makes it correct |
|---|---|---|---|---|
| portfolio-api `IdempotencyInterceptor` | Redis record per `Idempotency-Key` (60 s claim, 24 h result) | claim, replay, reject, persist, clean up, around four mutating routes | two attempts at once, retries racing a timeout, Redis failing at any call, a crash with the claim held, TTLs | a key buys at most once; a replay is the answer of the purchase that was made; only its owner ends a claim; claims end |
| portfolio-service portfolios, trades | MongoDB documents with a version key; trade records | create, rename, delete, buy one, buy a batch; the price consumer's `updateMany` | load / mutate / save against other saves, deletes and ticks; trades are a second write | a portfolio balances; trades follow holdings; ticks survive purchases |
| auth-service | Postgres users, Redis refresh / challenge / reset / pending keys | register, verify, login, MFA login, refresh, logout, password change and reset, MFA set-up, delete | every operation is several Redis and SQL calls with other requests in between, each of which may fail | a second factor that is enabled is asked for, tokens only for verified accounts, an enabled secret was proved, deleted users' sessions end |
| frontend BFF | the browser's cookies; `inflight` and `recentlyRotated` per process | proxy with refresh and retry, refresh, login, MFA, logout | parallel 401s with one single-use token, answers out of order, lost answers, TTLs, restarts | a valid user is not expelled; the session can go on; a logout ends it; everyone waiting is answered |
| session context of a tab (AuthContext), sign-in | the user shown, the login form's step, calls under way | mount, login, code, logout, forms, pages, reload, another tab | answers that arrive after the session ended or another user signed in | who is shown is whom the cookies are of; an ended session is noticed |
| account page | the profile held, the open part and its form, calls under way | edit, save, MFA set-up / enable / disable, password, delete | calls side by side, answers late, lost or unheard, another device | it shows and would save what the account has |
| watchlist and portfolio pages over portfolio-service's collections | the collection, the tab's query of it, writes under way | create, delete, add, remove, open, leave, refocus | a write invalidates a query that is being read; answers lost | a settled page shows its tab's writes |
| symbol search boxes, market browser, screener | text and highlight, tab / search / page, form and applied filters | type, arrows, pick, change tab, turn pages, apply, reset | debounced questions whose answers come in any order | what is offered matches the text; rows, and with them the number of pages, are those of the question asked once its answer has come |
| chart of a stock and its technical signals | the buttons, the history of each range, price, news; the chart object with a series per line | choose range and type, switch indicators, draw; detect crossings | two effects over one object outside React, answers of several ranges in any order, too few bars for a line | the chart shows what is chosen, in one time format; the last signal tells the side |
| pages for guests (register, forgotten password, verify, reset) | inputs, what the page says, calls under way, mailed links, a timer | type, submit, open a link, leave | answers late, lost or unheard, effects run twice, inputs edited meanwhile, other devices | what a page says is so; a good link works |
| price-processor (and the producer price-ingestor) | MongoDB bars, Redis latest price, freshness flags, Kafka offsets | consume a raw bar (store, cache, emit, commit), history with backfill | at-least-once delivery, rebalance while handling, swallowed errors, backfill against stream | committed bars are stored and announced; the last word is the newest; stored bars are final; a fresh history is whole |
| portfolio-api price and movers caches | Redis price, quote and movers keys | read-through caches, overwritten by Kafka messages | a slow read-through overwriting a newer message, stale `movers` after a delete | the change shown is since the last message; movers follow the messages; an older price does not stay |
| portfolio-api third-party data | one Redis key per kind of answer, three circuit breakers | look up with fallback, cache | outages, half-open breakers, partial answers, answers without content | a stand-in is kept for minutes only; outages heal |
| daily history, chart, factor tiles | daily bars | history, clean, tile | two bars of one day, order of the bars | history and chart show the latest bar of every day |
| ml-predictor and portfolio-api's tracking | models, predictions in MongoDB, topic, prediction key, tracking lock | initialise, hourly refresh, track, predict, consume | threads on one symbol, a failure part-way, a lock that outlives a failed call | the horizons of a symbol come from one run; a tracked symbol gets predictions |
| sentiment-analyzer | cursor in memory, articles in MongoDB, producer's buffer | select symbols, fetch, score, save, publish | rotation over a set that shifts, a crash between save and publish | an article is signalled once; no symbol is left out |
| profile-service and `users.registered` | writer's batch, topic, group offset, profiles | create on the event, find-or-create, update | event and first look race with an update; events late, twice or lost | what a user entered stays; a registration makes a profile |
| Kafka consumer lifecycle (four NestJS services) | connection, crash handler, restart timer | start, crash, restart | a consumer that crashed must come back | the group goes on |
| pass-through proxies; drawing; packages, CI, seeds; logging | — | — | — | not modelled, see section 6 |

Interactions that cross components: the BFF's refresh calls auth-service's `Refresh`; the
interceptor wraps calls to portfolio-service's `addStocks`; `prices.processed` feeds
portfolio-service's `updateHoldingPrices` and portfolio-api's caches; `Register` publishes
`users.registered`; a visit of a stock's page or a purchase starts tracking in ml-predictor; the pages
call the BFF with the cookies of the moment.

## 2. The plan

The order was: money (`Idempotency`, `Portfolios`), sessions (`AuthService`, `BffRefresh`), prices
(`PricePipeline`), caches (`MarketCache`, `DailyHistory`, `ProviderCaches`), workers (`Predictor`,
`SentimentPoll`, `Profiles`), and the browser's side (`BrowserTab`, `ListPages`, `SymbolSearches`,
`AccountPage`, `StockChart`, `ChartSignals`, `GuestForms`). All are written and checked. `KeyedPurchases` is the abstract specification of what an
`Idempotency-Key` promises and `TokenGrants` of what refresh tokens do; `Idempotency` and `AuthService` implement them, by TLC
and by proof.

What could come next: a session of one live token as an abstract specification of `BffRefresh`, and one of the bookkeeping
of `Portfolios` (a purchase is one step there).

Runs stay few: a passing run per group of components, with all its invariants and, where affordable, its
liveness. Where one run has several instances or components, its MC module has a variable `mix` or
`part`, chosen in the initial state, that says which of them a behaviour is of: the state spaces add up
and do not multiply.

## 3. The modules

Each action is one handler's work from one `await` (or one Redis or SQL call) to the next; other actors
run in between. Values that the code never compares (prices in a message, names, mail bodies) are
model values.

### Idempotency, KeyedPurchases
State: `record` is the Redis key of an `Idempotency-Key` with the attempt that wrote it standing for
body hash, status and body; `pc`, `claimed`, `reply` are an attempt's handler; `down` is what
portfolio-service does with the forwarded call; `lapsed` is history. Actions follow
`idempotency.interceptor.ts`: `Intercept` (key validation), `Claim` (SET NX), `Lookup` (GET and the three
branches of `handleExistingClaim`), `Forward`, `Answered`, `TimesOut`, `Persist`, `Cleanup`, with a Redis error at each
call, `Expire` for the TTLs and `Crash`. `Downstream` is portfolio-service, which goes on after the
gateway's 10 s timeout. `Traffic` says which attempts may be sent in one behaviour.

`KeyedPurchases` knows only purchases made, the result a key keeps, what was reported and which keys'
promise was broken off. `Promise == INSTANCE KeyedPurchases WITH ...` in `Idempotency` maps a bought attempt to a
purchase, a record with a result to the kept result, a success answered to a report, and `lapsed` to a
promise broken off (a claim that ended, by TTL, timeout or fault, before its purchase was settled).

### Portfolios
`doc` is the document with mongoose's version key; `copy` what a request loaded. `ApplyBuy` is `applyBuy()`;
`Stored` and `Matches` are what `doc.save()` sends and on what condition: a `$push`, a `$set` per field with a
version check, or a `$set` of the whole array when both happen. `UpdateHoldingPrices` is the consumer's
`updateMany`, which bumps no version. An average is the exact fraction `cost / per`, kept over the shares
held where it is whole, so that equal averages have one representation. Floats are not modelled.

### AuthService, TokenGrants
`users` is the Postgres table, `refresh`, `challenge`, `reset` and `pending` the Redis keys, `call` the requests in
progress with the step each is at. Every SQL statement and Redis command is an action; with `RedisFails`
a write may fail, and an ignored error (the `Del`s) is ignored as in the code. `Expire` ends any key.
Register's Kafka event is in `Profiles`. Passwords and secrets are model values,
and bcrypt, TOTP and JWT are perfect.

`TokenGrants` knows only who is a member, who is a former one, of whom a valid refresh token is, which were issued and
for which other one, and what each request has a claim on. A sign-in of a member, or a valid token whose user is seen to be a
member afterwards, is a claim; a claim is good for one token. `Grants == INSTANCE TokenGrants WITH ...` in `AuthService` maps verified
rows to members, deleted ones to former ones, and a request to its claim by the step it is at (`ClaimOf`): between the steps of a login, of a
second factor and of a refresh. What it leaves out (passwords, mails, reset tokens, challenges, secrets) are stutters. It does not promise that
a token is presented once (see `auth_refresh_race`), nor that it ends before its successor is issued, since the error of the `Del` is ignored.

### BffRefresh
One browser: `jar` (cookies), `req` (its open requests), per replica `inflight` and `recent` (the two maps of
`refresh.ts`), and `valid`, auth-service's refresh keys. `Enter`/`Settle` are `refreshOnce()`; auth-service's
`Refresh` is its `Get` (`LookUp`) and then `Del`, `Set` and answer in one step (`Rotate`), since nobody
can use the new token before the answer is back. `Deliver` applies a `Set-Cookie`, in any order between
requests, or loses it. The kinds of request are a page's call (`page`), a call answered 401 for a reason of
its own such as a wrong current password (`refused`), `refresh`, `login`, `mfa`, `logout`.

### BrowserTab, AccountPage
`BrowserTab` is one tab: `jar` and `ticket` are the cookies of all tabs with whose session or challenge they hold, `tab` whom
AuthContext shows, `call` the calls under way with the cookies each left with. `Serve` is the BFF and the
service, `Deliver` applies the cookies and runs the rest of the awaiting function. A session is there the user it is of;
its tokens are `BffRefresh`'s. A mount asks for the user and then for the profile; after a sign-in both are asked for at once (`beside`) and
awaited together. `unheard` and `lapped` are history: a 401 of one of those calls, which AuthContext takes for no answer, emptied the cookies; a
late answer brought back the user or the (renewed) cookies that its call had left with, or another tab acted. `AccountPage` is the profile page over what the services store: `profile` is what the
tab holds, `form` what is typed, `section` what is shown of the second factor. `doubt` is history: what the tab was not told of.

### ListPages, SymbolSearches
`lists` is portfolio-service's collection (watchlists or portfolios), `query` TanStack Query's state of the tab's copy with
its age, failure and invalidation, `modal` the "Add Stock" dialog, `write` the writes under way, each with whether the page that sent it still heeds
its progress (a page that is left and opened again has new mutations), `behind` the changes the tab was not told of.
`SymbolSearches` has the three ways to look for a symbol: the debounced box (`box`), the market browser with
its late default market (`browser`) and the screener (`screener`), over `answers`, the queries by question. How many symbols and pages there are comes with each
answer and may be another number the next time (`Offers` and `Pages` are sets): the lists behind expire after a day and give way to a short stand-in
for a minute. So a page that existed need not exist any more, and nothing is claimed about that.

### StockChart, ChartSignals
`StockChart` is the chart object of lightweight-charts (`chart`: its type and time format, the bars shown, one entry per
indicator's series, the markers) under React's buttons and queries. Every action that renders ends with the component's two effects in their order:
`Setup` makes the object anew when type or time format changed, `Draw` writes on it, and on nothing while the range has no bars.
`UpdateLine` is the three `update...` functions, which differ in what bars an indicator `Needs`. The bars of an answer are known by range and
number, since the same range and number give the same lines; which of several answers of one length is drawn is not told apart.

`ChartSignals` is `detectSignals()` with the day ranges of `computeMA`, `computeMACD` and `computeRSI`. A history is put together bar by bar, with any
values of the lines, so that what holds does not depend on the library that computes them.

### GuestForms
`account` and `link` are what auth-service stores of addresses and tokens, `page` the one page that is open, `post` the calls under way (`heard` while
their page is there), `redirects` the timers of the reset page. A token is looked up and used in two steps, as in `AuthService`. `Lost` is a
request or an answer that does not arrive, after which the request may still be done; `Elsewhere` is another device that registers, uses a link or
changes the password; `Open` leaves the page for another. `page.edited`, `page.sure` and `page.changed` are history.

### PricePipeline
`raw` is the topic partition, `work` each member's message in hand, `committed` the group's offset; `bars` the
collection, `latest` the Redis key, `processed` the outgoing topic; `flags` and `query` are `getHistory`.
`Store` is `process()`'s `$setOnInsert` upsert, `Cache` and `Emit` its next two awaits; `ProcessThrows` is the
consumer's `catch` that swallows; `Rebalance` moves the partition while the old owner may go on;
`Crash` ends a member. One symbol and interval.

### MarketCache
`price`, `quote` and `movers` are the Redis keys `papi:price:*`, `price:quote:*` and `papi:movers`; `hand` is the
consumer's `handlePrice()` between its awaits, `reader` the open requests of `getStock()` and `getMovers()`.
A price is the number of messages about its symbol, so "older" is a comparison. `Quote` is price-processor's
answer, from its own 15-minute key or from the provider; `Replay` takes the consumer back to any earlier
offset, as an uncommitted batch may be. `odd` is history: the symbols a replay, an error, a quote or an expiry touched.

### DailyHistory
`bars` is the collection of daily bars of one symbol, `GetDaily` the tail of `getHistory()`, `Clean` StockChart's own
removal of duplicates, `Tile` the arithmetic of `getFactorPerformance()` with bars standing for percentages. What `filter()` keeps of
a list (`Picked`, `Among`) is in `Subsequences`, and sorting is defined by the rank of a bar, so that both can be proved about; `SentimentPoll`
and `Predictor` choose their symbols with the same operators.

### ProviderCaches
`cache` is one Redis key per kind of third-party answer; `Entry` says what each method caches of what came back and for
how long; `Guarded` is a call, or several sent together, through opossum's breaker, of which a half-open one lets
the first through. A provider is up, down, or answers without content (`Blanks`): an empty list, or a 200 answer in which the field
that would hold one is missing, which the shape checks let pass. TTLs are `minutes`, `hour` and `day`.

### Predictor, SentimentPoll, Profiles
`Predictor`: `thread` is what the initialising thread, the hourly refresh and the threads of `POST /api/track` do, `models` and
`stored` MinIO and the predictions, `topic` and `shown` the way to portfolio-api's prediction key, `lock` and `visit`
`ensureTracking()`. A prediction is the run it comes from, and only whether that is the symbol's latest run is kept. `solo` is
history: symbols whose last run met no other run and no fault.

`SentimentPoll`: `cursor` and `worker` are `select_symbols_for_poll()` and the loop, `articles` the collection, `buffer` what the
background producer has not sent. An article about several symbols signals the first it was fetched for.

`Profiles`: `writing`, `events` and `offset` are the way of `users.registered`, `consumer` where `start()`, the crash handler and
`restart()` are (the same code in four services), `profile` and `look` the requests. `wanted` and `missed` are history.

## 4. What is checked

All runs but those of `MCMarketCache` have `CHECK_DEADLOCK FALSE`: their instances stop when the bounded
requests are over.

| run | instance | shows |
|---|---|---|
| `idem` | five attempts on one key in two traffic patterns (three with one key, one of another body; one, and one without and one with a bad key), all faults | the interceptor implements the promise of `KeyedPurchases`; faithful replays; claims ended by their owner only; every attempt answered |
| `idem_timeout` (violation) | two attempts, a timeout | a retry after a timeout buys twice |
| `portfolios` | two single purchases and a batch into one portfolio, new, priced or not, with ticks, rename, delete and failures; or a page of lists with two writes; or a box, a browser, a screener; or the account page with two calls, in three mixes; or a stock's chart with two averages, or with one to which prices and news come; or the signals of every history of four bars of three values; or the pages for guests with one address, two passwords and two calls, or two addresses, two links and one call at a time | balance unless raced, trades follow holdings, a save that nothing raced keeps the ticks; a settled page shows its tab's writes; offers match the text, and the browser keeps the rows and page count of the question asked once they have come (`SearchesAreTrue`); the account page is true; the chart shows what is chosen, never mixes days and minutes and keeps a line of other bars only for want of bars (`ChartIsTrue`); the last signal tells the side; what a page for guests says is so, and a good link is not refused (`GuestPagesAreTrue`) |
| `portfolios_batch` (violation) | one batch, ticks | the whole-array save overwrites a newer tick |
| `auth` | one user with sessions, MFA and password changes, two requests at a time, Redis failures; or two accounts of one address | while a second factor is enabled, a password alone opens a session at most for the logins that had looked before it was (`SecondFactorIsAsked`); deleted users' sessions end, the enabled secret was proved, tokens only for the verified, who verified with a token mailed to them (`SessionsAreOfMailReaders`); the service implements `TokenGrants` (`TokensAreGranted`) |
| `auth_refresh_race` (violation) | two refreshes | both get a pair |
| `bff` | two overlapping requests of every kind, every fault, three tokens; a fourth where nothing failed | nobody with a valid session is expelled while the run is steady, sessions go on, logout ends them, every request is answered whatever fails |
| `prices` | two members, three raw bars, two moves of the partition, all faults; or one message and two history requests with partial bulk writes | committed is done, the last word is the newest, every bar is committed, bars are final, a fresh history is whole |
| `market` | two messages about two symbols, or about one with a replay, one request at a time, every expiry; or every set of up to eight daily bars; or two requests for one or two kinds of third-party answers, with outages and answers without content, with all keys or none | the change shown is the one since the last message and movers follow the messages, an older quote does not stay, history and chart agree, stand-ins and hollow answers are short but for an asset list that came empty, outages heal |
| `market_factors` (violation) | daily bars | a factor tile shows the oldest price, and its change runs backwards |
| `members` | one or two symbols of the predictor, or five symbols of the sentiment poll, or two articles; or the profiles of two users; or one tab with two calls, or with two users | horizons of one run, one signal per article, entries stay, the user shown has the cookies; predictions are made, the rotation leaves none out, registrations make profiles, ended sessions are noticed |
| `wrong_password` (violation) | one user, two calls | the password form's 401 signs a signed-in user out |

**Bounds.** Two actors are what every race here needs (each is between one operation and one other); where
a third could matter (a claim handed on twice, a message overtaken twice, three purchases) the instance has three.
`TokensLeft`, `MaxRaw`, `MaxMoves`, `MaxPrice`, `MaxReplays`, `MaxLag` and `LastDay` cap what would grow without end. The faults are
unbounded except in `prices` and in `market`'s replays,
where a move of the partition is counted: at-least-once liveness needs the owner to be left alone at last.
In particular:

- `portfolios`: ticks are of the symbol that all three purchases buy (`TicksOfA`). The account page is split into
  the second factor, the profile form and the rest (`AccountWithin`), whose calls the code shares nothing between but the
  profile; another device changes the account once per reading. The browser keeps the answers of two questions at most.
- `bff`: tokens are interchangeable, so only behaviours that issue them in their order are explored. Three tokens
  meet every request and fault. The fourth, for the third refresh of a session, is issued only where nothing has failed
  and no second factor is asked for (`ThreeUnlessPlain`): an answer may then be late by two rotations, and that is where the
  hazard at `cookies.ts:29` needs `Overtaken`. A behaviour that fails or is overtaken after its fourth token is cut off
  there; TLC counts the cut as unfair, so that `EveryRequestAnswered` speaks of the others, which have every fault.
- `members`: with one symbol everything may fail; with two, portfolios change between refreshes only. In the tab with two calls, the network fails
  and the session is ended elsewhere while at most one call is under way, and another tab acts while none is; with two users, one call at a time.
  Another tab acts once until the tab is loaded again.
- The chart of `portfolios`: 30 bars are enough for both averages, 5 for neither (12 and 26 are needed); one of the three ranges (1W, 3M, 1D)
  is of minutes and one is in view of the panel beside the chart. A behaviour presses the buttons (`Buttons`: both averages, drawn
  as candles or as a line, of which the line is not seen with both at once), or has prices and news (`Feeds`: one average, candles). In a
  history of signals one kind of line (averages, MACD, RSI) varies and the others are flat (`OneKind`), since no signal looks at two kinds; the
  periods are short, so that four bars have a first value of either line, a touch and a crossing.
- The pages for guests: one password is too short; it is typed only in behaviours of two addresses, into the first password field, before a second link is mailed. One timer of the reset
  page runs at most. Calls and links are interchangeable, and behaviours take them in order (`InOrder`).

**Symmetry** over interchangeable model values is used in the runs of `AuthService`, whose one temporal property, a
refinement without fairness, is about the initial states and single steps and treats all users and tokens alike.

**Fairness.** `Idempotency`: each handler's next step is weakly fair (Node runs every ready
continuation; the forward has a 10 s timeout) and so is a claim's expiry (Redis). Faults are not
fair. `BffRefresh`: each handler and each upstream refresh (undici's timeouts end a silent call, a failure).
`PricePipeline`: each member's poll-handle-commit loop. `MarketCache`: each
open request's next step and Redis' expiries. `ProviderCaches`: the same and the breaker's timer. `Predictor`: the steps of a
thread are strongly fair, since threads of one process take turns on what only one does at a time and a restart
interrupts them; those of `ensureTracking()` weakly. `SentimentPoll`: the loop and the producer's thread. `Profiles`: the consumer's timers and loop, and the
writer. `BrowserTab`: calls are served and answered. That services answer for good is a premise of the properties
(`<>[](well ...)`, `<>[]reachable`, `<>[]online`), never an assumption. No user action and no fault is fair.

**Histories with conditions.** Each of these marks what the code does not promise, and is as narrow as TLC lets it be.

- `BffRefresh`: the safety properties hold while `hist.steady`: no fault yet, no request has outlasted a TTL that
  mattered to it (the access token it was sent with, the 10 s entry of its refresh token), and no answer was
  *overtaken* (`Overtaken`): the browser's session changed since the request was sent, to something other than what the answer sets. Without
  the last, the answer of an earlier refresh that comes after that of a later one puts the dead older cookies back, and
  a 401 of a request that was sent without a session clears the cookies of a login that completed meanwhile.
- `Portfolios`: `raced` marks portfolios saved by a purchase that had loaded an older version: the code
  takes no lock there for a `$push`, and shares may be lost.
- `MarketCache.odd`, `Predictor.solo`, `Profiles.missed`, `BrowserTab.lapped` and `unheard`, `ListPages.behind`,
  `AccountPage.doubt`, `GuestForms`' `page.edited`, `page.sure` and `page.changed`: see the comment of the property that uses each.

### Disagreements between code and documentation
The five violation runs each check a sentence of a document, comment or test (see `findings`).
While modelling we also met these, which have no run:

- `idempotency.interceptor.ts:120`: a claim that ends between the failed `SET NX` and the `GET` is answered
  422 "already used with a different request body" although the body is the same.
- `auth.go:298`: two resets with one reset token can both pass before either deletes it; `README.md:54-55`
  calls the token single-use. `auth.go:82`: the verification mail is sent once, after the account is stored; when it is
  lost the account can neither log in nor register again.
- `route.ts:97`: a route's own 401 (wrong current password) after a successful refresh reaches the page,
  where `lib/api.ts:15-16` takes it for a logout. During an outage of auth-service a 401 reaches it too.
- `refresh.ts:47`: a request that reaches `refreshOnce` more than ten seconds after its token was rotated
  is expelled, which the comment at lines 17-20 says it should not be.
- `cookies.ts:29`: answers out of order, see `steady` above.
- `AuthContext.tsx:65-83`: a 401 of `/auth/me` or `/profile/me` clears the cookies (`route.ts:91-94`), but `fetchIdentity` and `fetchProfile` only return `null`: a user
  stays shown who is signed out (`unheard`). `:99`: a late answer shows its user after a sign-out.
- `mfa/verify/route.ts:37`: a wrong code clears the challenge cookie, but the form goes on asking for a code,
  which can no longer be accepted.
- `prices.service.ts:134`: a redelivered bar is cached and announced again; `README.md:107-110` calls a redelivery a no-op.
- `stocks.service.ts:1069-1076`: the comment has the shape check catch a renamed `results`, but `results` is optional in that shape (lines 41-43), so
  such an answer is an empty asset list that is kept for a day (`Hollow` excepts it).
- `stocks.service.ts`: while the asset list has expired and its provider is down, a symbol that was offered before is refused as unknown.
- `watchlists.service.ts:23`: `create` stores symbols as given, `removeSymbol` (line 34) upper-cases: a lower-case
  symbol cannot be removed.
- `ProfilePage.tsx:75-83, 307-313`: a profile form opened before the profile arrives starts from the defaults, and saves
  them. `:118-122`: the status of the second factor is read anew with every render of AuthProvider, and a failed reading is
  shown as "disabled". Name and bio cannot be cleared.
- `VerifyEmailPage` reads `body.message` where auth-service sends `error`; the query cache of one user
  (`lib/query-client.ts`) survives a logout into the next user's session.
- An invalidation is lost when an answer under way arrives for a query that nothing shows or that was never
  answered (`OwnWritesAreShown` excludes it with `behind`); `StockScreener.tsx:77` does not send a minimum change of 0; the market
  browser can stand on a page that does not exist: "next" was pressed on the rows of the question before, the default market changed on a later
  page (`MarketBrowser.tsx:27-31` does not reset it), or the list behind was replaced by a shorter one; with one page or none in the answer
  the pager to turn back is not there (`:151`).
- `StockChart.tsx:295`: an enabled average with too few bars for it in the range that is chosen keeps its line of the range before (`continue`), although
  the comment at line 626 says that one effect draws everything "to keep series in sync". `SignalsPanel.tsx:92` lists every crossing in the history,
  although `FUTURE_PLAN.md:496` has "only most recent signal per source shown".
- `StockChart.tsx:626-659`: while a range has no bars the chart is left as it was, so that "No price history available" stands beneath
  the bars of the range before.
- `RegisterForm.tsx`: the inputs are not disabled while the call is under way, and the last screen names the address that is typed by then, not the one the mail
  went to (`edited`). It sends a `name`, which auth-service's handler does not read.
- `ResetPasswordForm.tsx:73`: the three-second timer of a successful reset is not cleared, and takes its user to the login page from wherever they have gone.
- When the answer of a verification or a reset is lost, the retry says that the link is invalid although it has done its work (`sure`).
- A new consumer group that crashes before its first commit skips the `users.registered` events it had not handled.
- `select_symbols_for_poll()`: "user symbols always get a fresh fetch" fails when there are more of them than one poll asks for.

## 5. What is proved

With TLAPS, for every value of the constants under the modules' named assumptions (which only say
that markers such as `Nil` are not values, that the instance's functions and lists have the right type, that a bound is a number, and, in
`AuthService`, that a random refresh token is not also a reset token or a challenge). Each module states an
inductive invariant `IInv`, proves that the initial states have it and that each action keeps it, and draws the theorems from it.

- **IdempotencyProofs.** `IInv == TypeOK /\ CallOrder /\ RecordOwner /\ Protected /\ ReplayFidelity`.
  `AtMostOncePerKey` is not inductive: it must be known that a purchase which is not lapsed still has its owner's record in Redis
  (`Protected`), that a record belongs to an attempt that is at work or has bought (`RecordOwner`), and in what order
  `pc`, `claimed` and `down` move (`CallOrder`). From it: `TypeCorrect`, `AtMostOnce`,
  `ReplayIsFaithful`, for steps `OwnerEndsClaim` and `ResultStays`, and the refinement: `Implements` is
  `Spec => Promise!RegisterSpec`, the initial states map to initial ones and every step to one of the promise or to a stutter.
- **PortfoliosProofs.** `IInv` is `TypeOK` with `LoadedOK` of every purchase that is about to save, `StoredOK` of every portfolio and
  `RecordedOK` of every purchase. `BalancedUnlessRaced` speaks of documents only, and a save sends what was loaded
  three awaits ago; so `LoadedOK` says how a copy may differ from the document by then: it holds no more than was
  bought, rows are where they were while the version is the same, and holdings are the same unless somebody else saved (prices may
  always differ, since ticks bump no version). `StoredOK` says that a portfolio nobody raced is `Booked`: one row per symbol, the shares
  bought, and their average. What a batch does to rows is an induction over its items (`Least`, `Induct`): the library's
  induction theorems take an operator, so it is made over a *set* of numbers, for which well-foundedness of `Nat` is enough, and the
  existence of the partial sums that `Total` chooses from is proved the same way. From it: `TypeCorrect`, `Balanced`, `NoTradesWithoutHoldings`, and
  for steps `TicksStay`.
- **AuthServiceProofs.** `IInv == TypeOK /\ TokensMinted /\ Eligible /\ Vouched /\ Graced /\ Asked`. `TokensMinted`: the tokens in Redis
  and in the hands of a refresh were minted. `Eligible`: every stored token and every request past its
  checks is about a user that was verified. `Vouched`: a secret in a row or about to be stored was
  proved, a verified row was verified by its own token. `Graced`: the tokens a deleted user was issued and the requests still about to
  issue one are together no more than the requests that were past their look at the user when the row went, and none of
  those requests holds such a token to trade. `Asked`: the pairs a password alone was given since the second factor was enabled and the logins about to give one
  are together no more than the logins that had looked before; only enabling and disabling start the count. From it: `TypeCorrect`, `CodesAreAsked`,
  `TokensAreOfVerified`, `AccountsVerifyThemselves` and both as `OnlyMailReadersGetSessions`, `SecretsAreProved`, `SessionsEnd`.
  The refinement `TokensGranted` is `Spec => TokensAreGranted`, one lemma per kind of step: who gets a claim (`AdmitStep`, `PresentStep`),
  who keeps it (`ConfirmStep`, `GivenUpStep`), who uses it or loses it (`IssueStep`, `GiveUpStep`), whose row changes (`RowsGrants`), and what touches
  neither. It needs `Eligible` twice: the code of a second factor and the user of a refresh are checked against a row only for being there,
  and it is the invariant that says such a row is a verified one, so that its user is a member.
- **BffRefreshProofs.** `TypeCorrect` holds for any number of replicas. The three safety theorems (`NobodyIsExpelled`,
  `SessionsGoOn`, `LogoutsEndSessions`) assume one replica (`OnlyOne`), since the maps of `refresh.ts` are of one process: with two,
  two requests refresh one token and the second is expelled. `IInv == Typed /\ (hist.steady => Sound)`. The heart of
  `Sound` is `LinksOK`: a token `n` that a cached entry or an answer under way knows as the successor of `t` is of the same
  session, `t` is dead, and *once `n` is in use the browser has left `t`*. It is what a late answer could break, and `Overtaken`
  is exactly when it would. Around it: a login's token is known to nobody before it arrives (`EntersOK`), a refresh in flight is of a
  live token or an ended session (`FlightOK`), a request that will refresh finds its token live or its successor cached (`GoOK`),
  the browser's token is live or its successor is on the way (`JarOK`), a session has one valid token (`OneOK`), and a request
  marked `alone` is (`AloneOK`).
- **PricePipelineProofs.** `IInv` joins `TypeOK`, `HandledIsDone`, `StoredInHand`, `CommittedIsDone`, `OnlyOwnerWorks`, `EmitsTheCached`,
  `NewestSaidLast`, `MarkedIsStored` and `FreshHistoryIsWhole`. What a member has handled is done, and a message past `Store` has its bar, because
  bars are never removed. For `SettlesOnNewest`: as long as no owner was cut off at work only the owner works, it emits what it cached, and
  *whenever* it has handled the whole log it has said the newest message last (nothing is claimed while it is behind, since it may be
  repeating older messages). For `FreshHistoryIsWhole`: a request about to set `hist:fetched` has stored all of its answer. From it:
  `TypeCorrect`, `CommittedMessagesAreDone`, `RedeliveryConverges`, `FreshHistoriesAreWhole`, `BarsAreFinal`.
- **MarketProofs.** `MarketCache`: `MarketIInv == TypesHold /\ HandKnows /\ EntryIsLastMessage /\ RankKnows /\ MoversFollowMessages`, without a bound on
  the messages. What the consumer has in hand is the price of the message before (`HandKnows`); what a request that ranks has
  read is what is cached, but for what came meanwhile (`RankKnows`). From it: `CachesFollowMessages`.
  `ProviderCaches`: `ProviderIInv == ProviderTypeOK /\ AsksAKind /\ DegradedIsShort`. From it: `TypeCorrect`, `StandInsAreShort`.
- **MembersProofs.** `Profiles`: `ProfilesIInv == ProfilesTypeOK /\ HandInLog /\ EntriesStay`. From it: `TypeCorrect`, `EnteredValuesStay`.
  `DailyHistory`: `HistoryIInv` only says that the bars are a finite set of bars; the work is in the lemmas on
  ranks (`Ranks`, `Enumerates`: in a strict order without ties the elements of a finite set and the numbers of those before them are one to one), on
  positions kept (`NthNumber`, `PickedOf`), on the first of each day (`FirstOfDayOf`, `FirstsReach`) and on a list that is sorted
  already (`SortedBars`, `CleanOf`). From it: `HistoryIsShown`, for any number of bars and days and any limit. `SentimentPoll`: `PollIInv == WorkOK /\ Unsaved /\ InHand /\ BufferedOnce /\ SignalledOnce`: what is known of an article at each
  step of the worker, in which an article has not been signalled before it is saved and is in the buffer at most once. From it:
  `ArticlesAreSignalledOnce`, and with `ChoiceOK` (the cursor is a position, what is chosen a list of symbols) `PollTypeCorrect`: the rotation
  wraps around a list that changes between two polls (`Rotation`). `BrowserTab`: `TabIInv` adds to the property what a call carries (`CallSane`). An answer that shows nobody new keeps the property because
  whatever empties the cookies empties the tab or is not heard (`ShownKept`); one that shows its user has that user's cookies unless it was late (`ShownSet`). From it: `TabTypeCorrect`,
  `ShownUserIsSignedIn`. `Predictor`: `PredictorIInv` has `ThreadsSane` and `AtRest` (where the threads can be) and, for every symbol in
  `solo`, `SoloRun`: one thread at most works on it, there is a `k` such that the first `k - 1` horizons are stored and of this run, and the last message
  on the topic about the symbol (or the page, if there is none) tells of horizon `k - 1`. From it: `PredictorTypeCorrect`, `RunsAreWhole`.
- **PagesProofs.** `ListPages`: `ListIInv == ListTypeOK /\ LoadedIsTrue /\ ServedIsTrue`: what is loaded, and what a read under way brings, is the
  collection or is marked for a new read. From it: `ListTypeCorrect`, `WritesAreShown`. `SymbolSearches`: `SearchIInv == SearchTypeOK /\ RowsAreOwn /\ AskedIsText /\
  RowsAreTheAsked`: the rows kept for a question are its own, so the order of the answers does not matter, and those on the screen are the last that came for the
  question asked. From it: `SearchTypeCorrect`, `OffersMatch` and `SearchesShowTheAsked`. `AccountPage`: `AccountIInv` says, out of doubt, that the tab has the stored profile or its answer is under way (`ProfileKnown`), the same of
  the second factor (`MfaKnown`), that one button of the section works at a time (`OneButton`) and that a save sends what the form still has
  where its user left it alone (`SendsTheForm`). From it: `AccountTypeCorrect`, `PageIsTrue`.
  `StockChart`: `ChartInv == ChartTypeOK /\ Fits(chart, range, chartType) /\ ChosenIsDrawn`. `Fits` says that the object is of the chosen type and of the
  range's time format, that bars and lines are of that format, and that a line of other bars is there for want of bars; `Setup` establishes it for the
  new buttons from what it was for the old ones, and `Draw` keeps it. It is proved for every indicator and range. From it:
  `ChartTypeCorrect`, `ChosenDrawn`, `OneFormat`, `LeftForWantOfBars` and the three as `ChartsAreTrue`. `ChartSignals`: `SidesAreTold` needs no more of a state than its
  types, and then an intermediate-value argument: two lines that are apart on two days, the other way round, have a day between on which
  one crosses the other. The day is the least one on the far side, which exists by well-foundedness of `Nat`
  for a *set* of days (`LeastDay`, `Crossing`), so no induction over histories is needed. `GuestForms`: `GuestInv == StoresFit /\ PostsFit /\ HeardFit /\ PageFit /\ SureFits`.
  `WhatIsSaidIsSo` is about a page after its answer, so `PostsFit` says what a call that was answered "ok", or found its token, has done or will do,
  `HeardFit` that a heard call carries the entries of the page where no input was edited, and `SureFits` that a link nobody else
  used is good until the one call of its page has used it. From it: `GuestTypeCorrect`, `SaidIsSo`, `LinksWork` and both as `GuestPagesTell`.

Only model-checked:
- all liveness (`EveryAttemptAnswered`, `EveryRequestAnswered`, `EveryBarIsCommitted`, `OlderPricesPass`, `OutagesHeal`, `SymbolsGetPredictions`,
  `RotationLeavesNoneOut`, `RegistrationMakesProfile`, `EndedSessionIsNoticed`): fairness and ENABLED are out of TLAPS's reach;
- the violation runs, which are counterexamples.

Every safety property of a passing run is the subject of a theorem. The type invariants of the components that hold state are proved for every value of the constants,
so no run spends its time on them.

## 6. What is not modelled

- Drawing: treemap, heatmap, tiles' layout, styles, the og-image; of the stock's chart the colours, margins and the popup of headlines, and the values
  of the indicators, which a library computes. SignalsPanel's badges, sentiment and predictions. StockChart's cleaning of the bars is in `DailyHistory`.
- Data and fixtures: `mock-assets.ts` and `seed-dev.ts` (3,800 lines of lists), e2e mocks, API docs, CI, types.
- Logging, tracing, metrics; the circuit breakers of price-processor and the Python workers: an open breaker is one more
  failing call, which the models have.
- Pure pass-through proxies of portfolio-api (auth, profile, predict, news).
- The retries of librdkafka in the Python workers' producers, which may put a message on a topic twice: `SignalledOnce` and
  `HorizonsOfOneRun` are about what a worker hands to its producer.
- ml-predictor starting while MongoDB is down: `PredictionStorage` fails in its constructor, and if the database goes only after that, `_tracked_symbols()` falls
  back to the baseline. `PredictorStarts` has the symbols of the users; the fallback is in the hourly refresh.
- What Prophet and FinBERT compute; the
  details of the providers' formats (FMP, Twelve Data, Massive).
