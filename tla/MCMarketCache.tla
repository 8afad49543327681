--------------------------- MODULE MCMarketCache ---------------------------
(***************************************************************************)
(* Three models of market data side by side: a behaviour is one of the     *)
(* price caches, one of the daily history, or one of the third-party       *)
(* caches of some kinds of answers that share a provider.                  *)
(***************************************************************************)
EXTENDS MarketCache, DailyHistory, ProviderCaches

MCDeployments == {External, {}}
Mixes ==
  [model : {"prices", "replay", "history"}, kinds : {{}}] \cup
  [model : {"providers"},
   kinds : {{"assets"}, {"assets", "overview"}, {"sp500", "screener"}, {"ftse100", "factors"},
            {"analyst", "screener"}}]

VARIABLE mix
mcVars == <<marketVars, historyVars, providerVars, mix>>

MCInit == /\ MarketInit /\ HistoryInit /\ ProviderInit /\ mix \in Mixes
          /\ mix.model # "providers" => keys = {}

\* The consumer is taken back only where one symbol has messages and quotes.
Calm == IF mix.model = "replay"
        THEN \A s \in Symbols \ {CHOOSE s \in Symbols : TRUE} : market[s] = 0 /\ quote[s] = NoEntry
        ELSE replays = 0

\* A provider that none of the kinds asks stays as it is.
Asked == {Provider(k) : k \in mix.kinds}
         \cup (IF mix.kinds \cap {"overview", "sp500"} # {} THEN {"massive"} ELSE {})
Within == /\ \A r \in Lookups : lookup[r].kind \in mix.kinds \cup {Absent}
          /\ \A p \in Providers \ Asked : up[p] = "up"

MCNext ==
  /\ UNCHANGED mix
  /\ \/ /\ mix.model \in {"prices", "replay"} /\ MarketNext /\ Calm'
        /\ UNCHANGED <<historyVars, providerVars>>
     \/ mix.model = "history" /\ HistoryNext /\ UNCHANGED <<marketVars, providerVars>>
     \/ mix.model = "providers" /\ ProviderNext /\ Within' /\ UNCHANGED <<marketVars, historyVars>>

MCSpec == MCInit /\ [][MCNext]_mcVars /\ MarketFairness /\ ProviderFairness
============================================================================
