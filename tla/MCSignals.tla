----------------------------- MODULE MCSignals -----------------------------
(* The producers of signals for TLC.  A behaviour exercises one of them: one symbol whose     *)
(* predictions are refreshed, tracked and shown; two symbols of which one may fail; a poll    *)
(* of symbols without articles; articles without symbols of users.                            *)
EXTENDS Predictor, SentimentPoll

VARIABLE mix \* "runs", "tracked", "polls" or "articles"

CONSTANTS s1, s2, s3, s4, s5, u1, u2

MCAlphabet == <<s1, s2>>
MCBaseSymbols == <<s2>>
MCHorizons == <<"1h", "1w">>
MCOrdered == <<s1, s2, s3, s4, s5>>
MCBaseline == <<s2, s3, s4, s5>>
MCAbout == [u \in Urls |-> IF u = u1 THEN {s2, s3} ELSE {s2}]

mcVars == <<predictorVars, pollVars, mix>>

OneSymbol ==
  /\ history[s1] = "none" /\ history[s2] # "few"
  /\ held = {} /\ broken = {} /\ \A v \in Visits : visit[v].symbol # s1
TwoSymbols == well /\ s2 \notin held

MCInit ==
  /\ PredictorInit /\ PollInit
  /\ \/ mix = "runs" /\ OneSymbol /\ history[s2] = "none" /\ users = {}
     \/ mix = "tracked" /\ TwoSymbols /\ history[s2] = "enough" /\ Cardinality(broken) = 1 /\ users = {}
     \/ mix = "polls" /\ users \subseteq {s1, s2} /\ OneSymbol /\ history[s2] = "none"
     \/ mix = "articles" /\ users = {} /\ OneSymbol /\ history[s2] = "none"

\* A signal expires only while nothing is predicted, and a page is visited and the process
\* restarted only while the other is not under way.  With two symbols, portfolios change only
\* between refreshes and a page is not visited.
Calm ==
  /\ mix = "runs" /\ thread'["initialize"].at \notin {"over", "down"} => \A v \in Visits : visit'[v] = Away
  /\ \A s \in Symbols : shown[s] # NoSignal /\ shown'[s] = NoSignal =>
       mix = "runs" /\ \A t \in Threads : ~ Busy(t)
  /\ mix = "tracked" =>
       /\ \A v \in Visits : visit[v] = Away /\ visit'[v] # Away => held' # held
       /\ held' # held => thread["refresh"] = Idle

MCNext ==
  /\ UNCHANGED mix
  /\ \/ /\ mix \in {"runs", "tracked"} /\ UNCHANGED pollVars
        /\ PredictorNext /\ Calm
        /\ IF mix = "runs" THEN OneSymbol' ELSE TwoSymbols'
     \/ mix = "polls" /\ PollNext /\ UNCHANGED predictorVars /\ news' = {} /\ users' \subseteq {s1, s2}
     \/ mix = "articles" /\ PollNext /\ UNCHANGED predictorVars /\ users' = {}
=============================================================================
