----------------------------- MODULE Predictor -----------------------------
(***************************************************************************)
(* ml-predictor and the part of portfolio-api that asks it for predictions *)
(* and shows them.  Threads of one process train and predict: the one that *)
(* initialises, the hourly refresh, and one for each POST /api/track.      *)
(* portfolio-api's ensureTracking() sends that request, fire and forget,   *)
(* under a lock in Redis; its consumer keeps the last message of a symbol. *)
(* A prediction is the run it comes from (its generatedAt).                *)
(***************************************************************************)
EXTENDS Naturals, Sequences, SequencesExt, FiniteSets, Subsequences

CONSTANTS
  Symbols,
  Alphabet,    \* Symbols in the order of sorted()
  BaseSymbols, \* the configured symbols, in their order
  Listed,      \* symbols that the history provider knows
  Horizons,    \* the horizons, in the order of predict_all()
  NoRun,
  Visits,      \* calls of ensureTracking()
  MaxLag       \* messages the consumer may be behind

VARIABLES
  held,     \* symbols of any portfolio or watchlist
  history,  \* daily bars of a symbol: "none", "few" (less than ten days) or "enough"
  broken,   \* symbols whose bars Prophet cannot be fitted to
  models,   \* symbols with a model in MinIO
  stored,   \* collection predictions: the run of every symbol and horizon
  topic,    \* stocks.signals.prediction, as far as the consumer has to go
  shown,    \* papi:prediction:<symbol>
  lock,     \* papi:tracking-inflight:<symbol>
  visit,    \* where a call of ensureTracking() is
  thread,   \* where a thread of ml-predictor is
  well,     \* the services these calls go to answer
  solo      \* history: symbols whose last run met no other run and no fault

predictorVars == <<held, history, broken, models, stored, topic, shown, lock, visit, thread, well, solo>>

Runs == {"last", "older"}
Threads == {"initialize", "refresh"} \cup Visits
Steps == 1..Len(Horizons)
Idle == [at |-> "idle", todo |-> <<>>, run |-> NoRun, step |-> 1]
Ended == [Idle EXCEPT !.at = "over"]
Off == [Idle EXCEPT !.at = "down"]
Away == [at |-> "away", symbol |-> NoRun]
NoSignal == [horizon |-> NoRun, run |-> NoRun]

-----------------------------------------------------------------------------
(* The threads of ml-predictor. *)

Tracked(users) == Among(Alphabet, users) \o Among(BaseSymbols, Range(BaseSymbols) \ users)

\* What the two lists name are symbols, and there is a horizon.
ASSUME PredictorAssumption ==
  /\ Alphabet \in Seq(Symbols) /\ BaseSymbols \in Seq(Symbols)
  /\ Horizons \in Seq(Range(Horizons)) /\ Horizons # <<>>
  /\ NoRun \notin Runs \cup Symbols
  /\ Visits \cap {"initialize", "refresh"} = {}

Up == thread["refresh"] # Off
Busy(t) == thread[t].at = "predict"
Current(t) == Head(thread[t].todo)
\* A run of a symbol is the last one begun or an older one.
Aged(r) == IF r = "last" THEN "older" ELSE r
AgedOf(s, msg) == IF msg.symbol = s THEN [msg EXCEPT !.run = Aged(@)] ELSE msg
AgeRuns(s) ==
  /\ stored' = [stored EXCEPT ![s] = [i \in Steps |-> Aged(@[i])]]
  /\ topic' = [i \in 1..Len(topic) |-> AgedOf(s, topic[i])]
  /\ shown' = [shown EXCEPT ![s].run = Aged(@)]
Over(t) == IF t = "initialize" THEN Ended ELSE Idle
Starts(symbols) == IF symbols = <<>> THEN Idle ELSE [Idle EXCEPT !.at = "model", !.todo = symbols]
NextSymbol(t) == IF Len(thread[t].todo) = 1 THEN Over(t) ELSE Starts(Tail(thread[t].todo))
Goes(t, next) == thread' = [thread EXCEPT ![t] = next]

\* initialize() begins with the process.
AtStart(users) ==
  [t \in Threads |-> IF t # "initialize" THEN Idle
                     ELSE IF Tracked(users) = <<>> THEN Ended ELSE Starts(Tracked(users))]

PredictorInit ==
  /\ models = {} /\ lock = {} /\ topic = <<>> /\ solo = {} /\ well = TRUE
  /\ held \in SUBSET Symbols
  /\ history \in [Symbols -> {"none", "enough"}]
  /\ broken \in SUBSET Symbols
  /\ stored = [s \in Symbols |-> [i \in Steps |-> NoRun]]
  /\ shown = [s \in Symbols |-> NoSignal]
  /\ visit = [v \in Visits |-> Away]
  /\ thread = [t \in Threads |-> Off]

RefreshDue ==
  /\ thread["refresh"] = Idle
  /\ \E users \in {held} \cup (IF well THEN {} ELSE {{}}) : Goes("refresh", Starts(Tracked(users)))
  /\ UNCHANGED <<held, history, broken, models, stored, topic, shown, lock, visit, well, solo>>

Trains(t) == t = "refresh" \/ Current(t) \notin models

\* _load_or_train: a stored model does unless the thread retrains.  Without history there
\* is neither a model nor a price.
Fails(t) == Trains(t) /\ history[Current(t)] = "enough" /\ Current(t) \in broken
Passes(t) == (Trains(t) /\ history[Current(t)] # "enough") \/ history[Current(t)] = "none"
Saves(t) ==
  models' = IF Trains(t) /\ history[Current(t)] = "enough" THEN models \cup {Current(t)} ELSE models
Load(t) ==
  /\ thread[t].at = "model" /\ ~ Fails(t)
  /\ Saves(t)
  /\ IF Passes(t) THEN Goes(t, NextSymbol(t)) ELSE Goes(t, [thread[t] EXCEPT !.at = "begin"])
  /\ UNCHANGED <<held, history, broken, stored, topic, shown, lock, visit, well, solo>>

Meets(t) == \E u \in Threads \ {t} : Busy(u) /\ Current(u) = Current(t)
BeginRun(t) ==
  /\ thread[t].at = "begin"
  /\ AgeRuns(Current(t))
  /\ thread' = [u \in Threads |->
       CASE u = t -> [thread[t] EXCEPT !.at = "predict", !.run = "last"]
         [] u # t /\ Busy(u) /\ Current(u) = Current(t) -> [thread[u] EXCEPT !.run = Aged(@)]
         [] OTHER -> thread[u]]
  /\ solo' = IF Meets(t) THEN solo \ {Current(t)} ELSE solo \cup {Current(t)}
  /\ UNCHANGED <<held, history, broken, models, lock, visit, well>>

\* One horizon: its upsert and its message.
Sends(t) ==
  /\ Len(topic) < MaxLag
  /\ topic' = Append(topic, [symbol |-> Current(t), horizon |-> Horizons[thread[t].step], run |-> thread[t].run])
\* a variant without the horizon in the filter of the upsert
UpsertAnyHorizon(t) == stored' = [stored EXCEPT ![Current(t)][1] = thread[t].run]
Upsert(t) == stored' = [stored EXCEPT ![Current(t)][thread[t].step] = thread[t].run]
Predict(t) ==
  /\ Busy(t) /\ Upsert(t) /\ Sends(t)
  /\ Goes(t, IF thread[t].step < Len(Horizons) THEN [thread[t] EXCEPT !.step = @ + 1] ELSE NextSymbol(t))
  /\ UNCHANGED <<held, history, broken, models, shown, lock, visit, well, solo>>

\* What an exception does: it ends initialize() and track_symbol(), but refresh_all()
\* goes on with the next symbol.
\* (a variant with the try around the loop)
CaughtOutside(t) == Goes(t, Over(t))
Caught(t) == Goes(t, IF t = "refresh" THEN NextSymbol(t) ELSE Over(t))

Raises(t) ==
  /\ \/ ~ well /\ thread[t].at \in {"model", "begin", "predict"}
     \/ thread[t].at = "model" /\ Fails(t)
  /\ Caught(t)
  /\ solo' = IF Busy(t) THEN solo \ {Current(t)} ELSE solo
  /\ UNCHANGED <<held, history, broken, models, stored, topic, shown, lock, visit, well>>

PredictorStops ==
  /\ Up
  /\ solo' = solo \ {Current(t) : t \in {u \in Threads : Busy(u)}}
  /\ thread' = [t \in Threads |-> Off]
  /\ UNCHANGED <<held, history, broken, models, stored, topic, shown, lock, visit, well>>

PredictorStarts ==
  /\ ~ Up /\ thread' = AtStart(held)
  /\ UNCHANGED <<held, history, broken, models, stored, topic, shown, lock, visit, well, solo>>

-----------------------------------------------------------------------------
(* portfolio-api: the consumer and ensureTracking(). *)

HandlePrediction ==
  /\ topic # <<>>
  /\ topic' = Tail(topic)
  /\ LET msg == Head(topic) IN
       \/ shown' = [shown EXCEPT ![msg.symbol] = [horizon |-> msg.horizon, run |-> msg.run]] /\ UNCHANGED solo
       \/ ~ well /\ solo' = solo \ {msg.symbol} /\ UNCHANGED shown
  /\ UNCHANGED <<held, history, broken, models, stored, lock, visit, thread, well>>

\* A message the producer could not deliver is logged.
DeliveryFails ==
  /\ ~ well
  /\ \E i \in 1..Len(topic) : topic' = RemoveAt(topic, i) /\ solo' = solo \ {topic[i].symbol}
  /\ UNCHANGED <<held, history, broken, models, stored, shown, lock, visit, thread, well>>

SignalExpires ==
  /\ \E s \in Symbols : shown[s] # NoSignal /\ shown' = [shown EXCEPT ![s] = NoSignal]
  /\ UNCHANGED <<held, history, broken, models, stored, topic, lock, visit, thread, well, solo>>

Moves(v, at, s) == visit' = [visit EXCEPT ![v] = [at |-> at, symbol |-> s]]

\* A page of a symbol without a prediction, or a symbol that is bought or watched.
EnsureTracking(v, s) ==
  /\ visit[v] = Away /\ thread[v] \in {Idle, Off}
  /\ shown[s] = NoSignal \/ s \in held'
  /\ Moves(v, "lock", s)
Visit(v, s) ==
  /\ UNCHANGED held
  /\ EnsureTracking(v, s)
  /\ UNCHANGED <<history, broken, models, stored, topic, shown, lock, thread, well, solo>>
AddSymbol(v, s) ==
  /\ s \notin held /\ held' = held \cup {s}
  /\ EnsureTracking(v, s)
  /\ UNCHANGED <<history, broken, models, stored, topic, shown, lock, thread, well, solo>>
RemoveSymbol(s) ==
  /\ s \in held /\ held' = held \ {s}
  /\ UNCHANGED <<history, broken, models, stored, topic, shown, lock, visit, thread, well, solo>>

TakeLock(v) ==
  /\ visit[v].at = "lock"
  /\ LET s == visit[v].symbol IN
       \/ s \in lock /\ visit' = [visit EXCEPT ![v] = Away] /\ UNCHANGED lock
       \/ s \notin lock /\ lock' = lock \cup {s} /\ Moves(v, "history", s)
       \/ ~ well /\ Moves(v, "history", s) /\ UNCHANGED lock
  /\ UNCHANGED <<held, history, broken, models, stored, topic, shown, thread, well, solo>>

\* price-processor may go on with a backfill that portfolio-api no longer waits for.
Backfill(v) ==
  /\ visit[v].at = "history"
  /\ LET s == visit[v].symbol IN
       /\ \/ history' = IF s \in Listed THEN [history EXCEPT ![s] = "enough"] ELSE history
          \/ ~ well /\ UNCHANGED history
       /\ Moves(v, "track", s)
  /\ UNCHANGED <<held, broken, models, stored, topic, shown, lock, thread, well, solo>>

Track(v) ==
  /\ visit[v].at = "track"
  /\ visit' = [visit EXCEPT ![v] = Away]
  /\ \/ Up /\ Goes(v, Starts(<<visit[v].symbol>>))
     \/ ~ (well /\ Up) /\ UNCHANGED thread
  /\ UNCHANGED <<held, history, broken, models, stored, topic, shown, lock, well, solo>>

\* The lock's 90 s outlast both calls (8 s and 20 s).
MayLapse(s) == s \in lock /\ \A v \in Visits : visit[v].symbol # s \/ visit[v].at = "lock"
LockExpires ==
  /\ \E s \in Symbols : MayLapse(s) /\ lock' = lock \ {s}
  /\ UNCHANGED <<held, history, broken, models, stored, topic, shown, visit, thread, well, solo>>

BarArrives(s) ==
  /\ history[s] = "none" /\ history' = [history EXCEPT ![s] = "few"]
  /\ UNCHANGED <<held, broken, models, stored, topic, shown, lock, visit, thread, well, solo>>

Trouble ==
  /\ well' = ~ well
  /\ UNCHANGED <<held, history, broken, models, stored, topic, shown, lock, visit, thread, solo>>

ThreadStep(t) == Load(t) \/ BeginRun(t) \/ Predict(t) \/ Raises(t)
VisitStep(v) == TakeLock(v) \/ Backfill(v) \/ Track(v)

PredictorNext ==
  \/ RefreshDue \/ PredictorStops \/ PredictorStarts
  \/ HandlePrediction \/ DeliveryFails \/ SignalExpires \/ LockExpires \/ Trouble
  \/ \E t \in Threads : ThreadStep(t)
  \/ \E v \in Visits : VisitStep(v) \/ \E s \in Symbols : Visit(v, s) \/ AddSymbol(v, s)
  \/ \E s \in Symbols : RemoveSymbol(s) \/ BarArrives(s)

\* Threads run, the refresh loop sleeps an hour, the consumer polls, Redis expires.  MaxLag is
\* not in the code: a thread that it holds up may go on once there is room again and again.
PredictorFairness ==
  /\ WF_predictorVars(RefreshDue) /\ WF_predictorVars(HandlePrediction) /\ WF_predictorVars(LockExpires)
  /\ \A t \in Threads : SF_predictorVars(ThreadStep(t))
  /\ \A v \in Visits : WF_predictorVars(VisitStep(v))

PredictorSpec == PredictorInit /\ [][PredictorNext]_predictorVars /\ PredictorFairness

-----------------------------------------------------------------------------
\* Type correctness of the threads, the stored runs and the calls of ensureTracking().
PredictorTypeOK ==
  /\ held \subseteq Symbols /\ broken \subseteq Symbols /\ models \subseteq Symbols
  /\ lock \subseteq Symbols /\ solo \subseteq Symbols /\ well \in BOOLEAN
  /\ history \in [Symbols -> {"none", "few", "enough"}]
  /\ stored \in [Symbols -> [Steps -> Runs \cup {NoRun}]]
  /\ \A i \in 1..Len(topic) : topic[i] \in [symbol : Symbols, horizon : Range(Horizons), run : Runs]
  /\ shown \in [Symbols -> [horizon : Range(Horizons), run : Runs] \cup {NoSignal}]
  /\ visit \in [Visits -> [at : {"away", "lock", "history", "track"}, symbol : Symbols \cup {NoRun}]]
  /\ thread \in [Threads -> [at : {"idle", "model", "begin", "predict", "over", "down"},
                             todo : Seq(Symbols), run : Runs \cup {NoRun}, step : Steps]]

Settled(s) ==
  /\ \A t \in Threads : ~ (Busy(t) /\ Current(t) = s)
  /\ \A i \in 1..Len(topic) : topic[i].symbol # s

(* After a run of PredictorService._run_predictions that no other thread's run of the   *)
(* symbol and no failure came across, all horizons of the symbol are of that run, and   *)
(* the page shows its last horizon, whatever was refreshed, tracked, restarted or       *)
(* expired before: the upserts leave nothing of older runs, and messages arrive in the  *)
(* order of the upserts.                                                                *)
HorizonsOfOneRun ==
  \A s \in solo : Settled(s) =>
    /\ \A i \in Steps : stored[s][i] = "last"
    /\ shown[s] \in {NoSignal, [horizon |-> Last(Horizons), run |-> "last"]}

Predicted(s) == \A i \in Steps : stored[s][i] # NoRun
AskedFor(s) == \E v \in Visits : visit[v].at = "lock" /\ visit[v].symbol = s

(* Once the process is up and the services answer for good, a symbol that can be fitted gets its predictions  *)
(* if it stays among the tracked ones with enough history, or if it is known to the     *)
(* provider and visited again and again: a symbol that fails does not keep refresh_all  *)
(* from the ones after it, and the lock of a call that failed does not keep             *)
(* ensureTracking() from later visits.                                                  *)
SymbolsGetPredictions ==
  \A s \in Symbols :
    /\ <>[](well /\ Up /\ s \notin broken /\ history[s] = "enough" /\ s \in Range(Tracked(held))) => <>Predicted(s)
    /\ <>[](well /\ Up /\ s \notin broken /\ s \in Listed) /\ []<>AskedFor(s) => <>Predicted(s)
=============================================================================
