--------------------------- MODULE SentimentPoll ---------------------------
(***************************************************************************)
(* The worker of sentiment-analyzer: a loop that selects the symbols to    *)
(* ask FMP about, fetches their articles, scores each new one, saves it    *)
(* under its url and publishes a signal.  The cursor of the rotation lives *)
(* in memory, the articles in MongoDB.  A score is left out: an article    *)
(* gives one signal for the symbol it was fetched for.                     *)
(***************************************************************************)
EXTENDS Naturals, Sequences, SequencesExt, FiniteSets, Subsequences

CONSTANTS
  Ordered,   \* all symbols, in the order of sorted()
  Baseline,  \* settings.symbols, in its order
  MaxPerPoll,
  Urls,      \* articles
  About,     \* the symbols FMP gives an article for
  NoSymbol

PollAssumption ==
  /\ MaxPerPoll \in Nat \ {0} /\ About \in [Urls -> SUBSET Range(Ordered)]
  /\ IsFiniteSet(Urls) /\ NoSymbol \notin Range(Ordered)
  /\ Ordered \in Seq(Range(Ordered)) /\ Baseline \in Seq(Range(Ordered))
ASSUME PollAssumption

VARIABLES
  users,     \* symbols of any portfolio or watchlist
  cursor,    \* where the rotation through the baseline goes on
  polled,    \* the symbols of the last selection
  worker,    \* its step, the symbols still to ask for, the articles still to handle
  news,      \* articles that FMP returns: those of the day
  articles,  \* collection articles: the symbol stored with a url
  buffer,    \* signals handed to the producer, not yet sent
  signals,   \* how many signals of an article were sent
  fine       \* MongoDB, FMP, FinBERT and Kafka answer

pollVars == <<users, cursor, polled, worker, news, articles, buffer, signals, fine>>

All == Range(Ordered)
Sleeping == [at |-> "sleep", ask |-> <<>>, got |-> <<>>]
Down == [Sleeping EXCEPT !.at = "down"]

PollInit ==
  /\ users \in SUBSET All /\ cursor = 0 /\ polled = {} /\ worker = Down
  /\ news = {} /\ articles = [u \in Urls |-> NoSymbol]
  /\ buffer = {} /\ signals = [u \in Urls |-> 0] /\ fine = TRUE

-----------------------------------------------------------------------------
(* select_symbols_for_poll: the users' symbols, then a window of the others. *)

Rest(known) == Among(Baseline, Range(Baseline) \ known)
Own(known) ==
  LET mine == Among(Ordered, known)
  IN  SubSeq(mine, 1, IF Len(mine) < MaxPerPoll THEN Len(mine) ELSE MaxPerPoll)
Window(known) ==
  LET budget == MaxPerPoll - Len(Own(known))
  IN  IF budget < Len(Rest(known)) THEN budget ELSE Len(Rest(known))
Turned(known) == [i \in 1..Window(known) |-> Rest(known)[1 + ((cursor + i - 1) % Len(Rest(known)))]]
Advance(known, step) == IF Window(known) = 0 THEN cursor ELSE ((cursor % Len(Rest(known))) + step) % Len(Rest(known))
\* a variant that moves by what was not asked for
NextCursorByBudget(known) == Advance(known, MaxPerPoll)
NextCursor(known) == Advance(known, Window(known))

\* The symbols of users fail to load: the baseline alone is polled.
Select ==
  /\ worker.at = "sleep"
  /\ \E known \in {users} \cup (IF fine THEN {} ELSE {{}}) :
       LET chosen == Own(known) \o Turned(known) IN
         /\ worker' = [at |-> "fetch", ask |-> chosen, got |-> <<>>]
         /\ polled' = Range(chosen)
         /\ cursor' = NextCursor(known)
  /\ UNCHANGED <<users, news, articles, buffer, signals, fine>>

\* One request for each symbol; when one fails, what the others returned is dropped.
Fetch ==
  /\ worker.at = "fetch"
  /\ \/ worker.ask = <<>> /\ worker' = [worker EXCEPT !.at = "read"]
     \/ /\ worker.ask # <<>>
        /\ \E found \in SetToSeqs({[url |-> u, symbol |-> Head(worker.ask)] :
                                   u \in {v \in news : Head(worker.ask) \in About[v]}}) :
             worker' = [worker EXCEPT !.ask = Tail(@), !.got = @ \o found]
     \/ worker.ask # <<>> /\ ~ fine /\ worker' = [Sleeping EXCEPT !.at = "read"]
  /\ UNCHANGED <<users, cursor, polled, news, articles, buffer, signals, fine>>

Work == <<"read", "save", "publish">>
\* a variant that publishes before it saves
WorkPublishFirst == <<"read", "publish", "save">>
Article == Head(worker.got)
\* After its last step an article is done with.
Follows(order, at) ==
  worker' = IF at = Last(order) THEN [worker EXCEPT !.at = "read", !.got = Tail(@)]
            ELSE [worker EXCEPT !.at = order[1 + CHOOSE i \in 1..Len(order) : order[i] = at]]
ProceedsPublishFirst(at) == Follows(WorkPublishFirst, at)
Proceeds(at) == Follows(Work, at)

\* is_new() and analyze(): a known article, or one FinBERT fails on, is passed over.
Read ==
  /\ worker.at = "read" /\ worker.got # <<>>
  /\ \/ articles[Article.url] = NoSymbol /\ Proceeds("read")
     \/ (articles[Article.url] # NoSymbol \/ ~ fine) /\ worker' = [worker EXCEPT !.got = Tail(@)]
  /\ UNCHANGED <<users, cursor, polled, news, articles, buffer, signals, fine>>

\* The url is unique: a second document of it is silently refused.
Save ==
  /\ worker.at = "save" /\ Proceeds("save")
  /\ articles' = IF articles[Article.url] = NoSymbol THEN [articles EXCEPT ![Article.url] = Article.symbol]
                 ELSE articles
  /\ UNCHANGED <<users, cursor, polled, news, buffer, signals, fine>>

Produce ==
  /\ worker.at = "publish" /\ Proceeds("publish")
  /\ buffer' = buffer \cup {Article}
  /\ UNCHANGED <<users, cursor, polled, news, articles, signals, fine>>

\* librdkafka sends in the background; a message it cannot deliver is logged.
Send ==
  /\ \E a \in buffer : /\ buffer' = buffer \ {a}
                       /\ \/ signals' = [signals EXCEPT ![a.url] = @ + 1]
                          \/ ~ fine /\ UNCHANGED signals
  /\ UNCHANGED <<users, cursor, polled, worker, news, articles, fine>>

\* flush() waits for the buffer.
Flush ==
  /\ worker.at = "read" /\ worker.got = <<>> /\ buffer = {}
  /\ worker' = Sleeping
  /\ UNCHANGED <<users, cursor, polled, news, articles, buffer, signals, fine>>

\* A deployment ends the process, or a database error outside the selection.
WorkerEnds ==
  /\ worker # Down
  /\ worker' = Down /\ buffer' = {}
  /\ UNCHANGED <<users, cursor, polled, news, articles, signals, fine>>
WorkerStarts ==
  /\ worker = Down /\ worker' = Sleeping /\ cursor' = 0
  /\ UNCHANGED <<users, polled, news, articles, buffer, signals, fine>>

Appears(u) == u \notin news /\ news' = news \cup {u}
              /\ UNCHANGED <<users, cursor, polled, worker, articles, buffer, signals, fine>>
DayEnds == /\ news # {} /\ news' = {}
           /\ UNCHANGED <<users, cursor, polled, worker, articles, buffer, signals, fine>>
UsersChange(s) == /\ users' = (users \cup {s}) \ (users \cap {s})
                  /\ UNCHANGED <<cursor, polled, worker, news, articles, buffer, signals, fine>>
Outage == /\ fine' = ~ fine
          /\ UNCHANGED <<users, cursor, polled, worker, news, articles, buffer, signals>>

Loop == Select \/ Fetch \/ Read \/ Save \/ Produce \/ Flush
PollNext == Loop \/ Send \/ WorkerEnds \/ WorkerStarts \/ DayEnds \/ Outage
            \/ (\E u \in Urls : Appears(u)) \/ (\E s \in All : UsersChange(s))

\* The loop sleeps for five minutes and the producer's thread runs.
PollFairness == WF_pollVars(Loop) /\ WF_pollVars(Send)
PollSpec == PollInit /\ [][PollNext]_pollVars /\ PollFairness

-----------------------------------------------------------------------------
\* Type correctness of the worker, its cursor and the articles.
PollTypeOK ==
  /\ users \subseteq All /\ polled \subseteq All /\ news \subseteq Urls /\ fine \in BOOLEAN
  /\ cursor \in 0..Len(Baseline)
  /\ worker.at \in {"down", "sleep", "fetch"} \cup Range(Work)
  /\ worker.ask \in Seq(All) /\ worker.got \in Seq([url : Urls, symbol : All])
  /\ articles \in [Urls -> All \cup {NoSymbol}]
  /\ buffer \subseteq [url : Urls, symbol : All]
  /\ signals \in [Urls -> Nat]

(* An article is signalled at most once, although the day's articles are fetched anew   *)
(* with every poll and once for each symbol they are about, and although the worker     *)
(* may end and restart between any two steps: it is saved before it is published.       *)
SignalledOnce == \A u \in Urls : signals[u] <= 1

(* Once the worker runs and the services answer for good, and the users' symbols stay    *)
(* the same, fewer than a poll asks for, every baseline symbol and every symbol of a     *)
(* user is asked for again and again: the rotation of select_symbols_for_poll() leaves   *)
(* none out.                                                                             *)
RotationLeavesNoneOut ==
  <>[](fine /\ worker # Down /\ Cardinality(users) < MaxPerPoll) /\ <>[][users' = users]_users
    => \A s \in All : <>[](s \in users \cup Range(Baseline)) => []<>(s \in polled)
=============================================================================
