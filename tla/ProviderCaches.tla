--------------------------- MODULE ProviderCaches ---------------------------
(***************************************************************************)
(* portfolio-api's read-through caches of third-party market data.  Each   *)
(* kind of answer is one Redis key; an absent key is filled from one or    *)
(* two providers, each behind a circuit breaker that all call sites share. *)
(* What is cached, and for how long, depends on which calls succeeded.     *)
(***************************************************************************)
EXTENDS Naturals

CONSTANTS
  Lookups,      \* requests that can be open at once
  Deployments,  \* sets of providers that a deployment may have API keys of
  Absent        \* an absent key

External == {"fmp", "massive", "twelvedata"}
Providers == External \cup {"prices"}
Kinds == {"assets", "overview", "sp500", "ftse100", "factors", "screener", "analyst"}

ASSUME KeysAreProviders == Deployments \subseteq SUBSET External

VARIABLES
  keys,      \* the providers this deployment has API keys of
  up,        \* provider -> whether it answers, and with something in it
  breaker,   \* provider -> its circuit breaker
  cache,     \* kind -> what its key holds and its time to live
  lookup     \* request -> its kind and what it has got

providerVars == <<keys, up, breaker, cache, lookup>>

NoLookup == [at |-> "closed", kind |-> Absent, got |-> "none"]

ProviderInit ==
  /\ keys \in Deployments
  /\ up = [p \in Providers |-> "up"]
  /\ breaker = [p \in Providers |-> "closed"]
  /\ cache = [k \in Kinds |-> Absent]
  /\ lookup = [r \in Lookups |-> NoLookup]

(***************************************************************************)
(* The providers and their breakers.                                       *)
(***************************************************************************)
Turns(p, state) ==
  /\ up[p] # state
  /\ up' = [up EXCEPT ![p] = state]
  /\ UNCHANGED <<keys, breaker, cache, lookup>>

Fails(p) == Turns(p, "down")
Recovers(p) == Turns(p, "up")

\* It answers 200 with an empty list, or without the field that would hold one.
Blanks(p) == Turns(p, "bare")

\* resetTimeout: after 30 s the next call is let through.
HalfOpens(p) ==
  /\ breaker[p] = "open"
  /\ breaker' = [breaker EXCEPT ![p] = "halfOpen"]
  /\ UNCHANGED <<keys, up, cache, lookup>>

\* fire(): how many of the calls sent together are answered with content, and the breaker
\* after them.  A half-open breaker lets the first through and rejects the others.
PartOf(calls) == IF calls = "several" THEN "some" ELSE "none"
BareOf(calls) == IF calls = "one" THEN "bare" ELSE "some"

Answered(p, calls) ==
  CASE up[p] = "up" -> {"all"}
    [] up[p] = "bare" -> {"bare", BareOf(calls)}
    [] OTHER -> {"none", PartOf(calls)}

FirstOf(p, calls) ==
  IF calls # "several" THEN Answered(p, calls)
  ELSE {IF up[p] = "up" THEN "some" ELSE "bare"}

Guarded(p, calls) ==
  IF p \in External \ keys \/ breaker[p] = "open" THEN {<<"none", breaker[p]>>}
  ELSE IF up[p] = "down"
       THEN IF breaker[p] = "halfOpen" THEN {<<"none", "open">>}
            ELSE Answered(p, calls) \X {"closed", "open"}
       ELSE (IF breaker[p] = "halfOpen" THEN FirstOf(p, calls) ELSE Answered(p, calls)) \X {"closed"}

\* price-processor, a service of this system, is called without a breaker.
Fired(p, calls) ==
  IF p = "prices" THEN Answered(p, calls) \X {"closed"} ELSE Guarded(p, calls)

(***************************************************************************)
(* What each method asks, and what it caches of what it got: of one call,  *)
(* or of several sent together.  A list of tickers is paged: one after the *)
(* other, until one fails.                                                 *)
(***************************************************************************)
Provider(kind) ==
  CASE kind = "assets" -> "massive" [] kind = "ftse100" -> "twelvedata"
    [] kind = "factors" -> "prices" [] OTHER -> "fmp"

Calls(kind) == CASE kind = "assets" -> "pages" [] kind = "sp500" -> "one" [] OTHER -> "several"

\* Index quotes and news from FMP, sectors from Massive; Massive for want of FMP.
AlsoAsksMassive(kind, got) ==
  \/ kind = "overview"
  \/ kind = "sp500" /\ got # "all" /\ {"fmp", "massive"} \subseteq keys

Merged(kind, first, second) ==
  CASE kind = "overview" /\ first = second -> first
    [] kind = "overview" /\ {first, second} = {"none", "bare"} -> "bare"
    [] OTHER -> "some"

Kept(what, ttl) == [what |-> what, ttl |-> ttl]
Part(got) ==
  CASE got = "all" -> "whole" [] got = "some" -> "part" [] got = "bare" -> "bare" [] OTHER -> "empty"
IfAny(got, ttl) == IF got \in {"none", "bare"} THEN Absent ELSE Kept(Part(got), ttl)

\* a variant that keeps the curated list as long as the real one
AssetsForADay(got) == Kept(IF got = "none" THEN "fallback" ELSE Part(got), "day")

\* `results` is optional in the shape that is checked: an answer without it is an empty page.
Assets(got) == IF got = "none" THEN Kept("fallback", "minutes") ELSE Kept(Part(got), "day")

Overview(got) == Kept(Part(got), "minutes")

Sectors(got) ==
  IF got = "all" THEN Kept("whole", "hour")
  ELSE IF {"fmp", "massive"} \subseteq keys THEN Kept("fallback", "minutes")
  ELSE Absent

Ftse100(got) == IfAny(got, "hour")
Factors(got) == Kept(Part(got), "minutes")
Screener(got) == IfAny(got, "hour")
Ratings(got) == IfAny(got, "day")

Entry(kind, got) ==
  CASE kind = "assets" -> Assets(got)
    [] kind = "overview" -> Overview(got)
    [] kind = "sp500" -> Sectors(got)
    [] kind = "ftse100" -> Ftse100(got)
    [] kind = "factors" -> Factors(got)
    [] kind = "screener" -> Screener(got)
    [] kind = "analyst" -> Ratings(got)

(***************************************************************************)
(* A request: with its key absent, the calls, and what is cached of their  *)
(* answers.  A key that is there is answered from and changes nothing.     *)
(***************************************************************************)
Miss(r, k) ==
  /\ lookup[r].at = "closed"
  /\ cache[k] = Absent
  /\ lookup' = [lookup EXCEPT ![r] = [at |-> "ask", kind |-> k, got |-> "none"]]
  /\ UNCHANGED <<keys, up, breaker, cache>>

Ask(r) ==
  LET k == lookup[r].kind IN
  /\ lookup[r].at = "ask"
  /\ \E o \in Fired(Provider(k), Calls(k)) :
       /\ breaker' = [breaker EXCEPT ![Provider(k)] = o[2]]
       /\ lookup' = [lookup EXCEPT ![r] =
            [at |-> IF AlsoAsksMassive(k, o[1]) THEN "massive" ELSE "store", kind |-> k, got |-> o[1]]]
  /\ UNCHANGED <<keys, up, cache>>

AskMassive(r) ==
  LET k == lookup[r].kind IN
  /\ lookup[r].at = "massive"
  /\ \E o \in Fired("massive", "several") :
       /\ breaker' = [breaker EXCEPT !["massive"] = o[2]]
       /\ lookup' = [lookup EXCEPT ![r] =
            [at |-> "store", kind |-> k, got |-> Merged(k, lookup[r].got, o[1])]]
  /\ UNCHANGED <<keys, up, cache>>

StoreAs(r, entry) ==
  /\ lookup[r].at = "store"
  /\ cache' = IF entry = Absent THEN cache ELSE [cache EXCEPT ![lookup[r].kind] = entry]
  /\ lookup' = [lookup EXCEPT ![r] = NoLookup]
  /\ UNCHANGED <<keys, up, breaker>>

\* a variant that stores without a TTL
StoreForever(r) ==
  LET e == Entry(lookup[r].kind, lookup[r].got) IN
  StoreAs(r, IF e = Absent THEN e ELSE [e EXCEPT !.ttl = "none"])

Store(r) == StoreAs(r, Entry(lookup[r].kind, lookup[r].got))

Expires(k) ==
  /\ cache[k] # Absent /\ cache[k].ttl # "none"
  /\ cache' = [cache EXCEPT ![k] = Absent]
  /\ UNCHANGED <<keys, up, breaker, lookup>>

Proceed(r) == Ask(r) \/ AskMassive(r) \/ Store(r)

ProviderNext ==
  \/ \E p \in Providers : Fails(p) \/ Blanks(p) \/ Recovers(p) \/ HalfOpens(p)
  \/ \E k \in Kinds :
       Expires(k) \/ \E r \in Lookups : Miss(r, k)
  \/ \E r \in Lookups : Proceed(r)

\* Calls time out, Redis removes what expired, the breaker's timer runs.
ProviderFairness ==
  /\ \A r \in Lookups : WF_providerVars(Proceed(r))
  /\ \A k \in Kinds : WF_providerVars(Expires(k))
  /\ \A p \in External : WF_providerVars(HalfOpens(p))

ProviderSpec == ProviderInit /\ [][ProviderNext]_providerVars /\ ProviderFairness

(***************************************************************************)
(* Properties.                                                             *)
(***************************************************************************)
\* Type correctness of the caches, the breakers and the requests.
ProviderTypeOK ==
  /\ keys \in Deployments /\ up \in [Providers -> {"up", "down", "bare"}]
  /\ breaker \in [Providers -> {"closed", "open", "halfOpen"}] /\ breaker["prices"] = "closed"
  /\ cache \in [Kinds -> {Absent} \cup
       [what : {"whole", "part", "bare", "fallback", "empty"}, ttl : {"minutes", "hour", "day", "none"}]]
  /\ lookup \in [Lookups -> [at : {"closed", "ask", "massive", "store"}, kind : Kinds \cup {Absent},
                             got : {"none", "some", "bare", "all"}]]

\* What leaves an answer without content: no call of it was answered, or every one of them
\* was answered with nothing in it.  The asset list is an exception, against the comment of
\* fetchAssetsFromMassive(): an answer without `results` passes the shape check and is kept
\* for the day as an empty list.
Hollow(k) == {"fallback", "empty"} \cup (IF k = "assets" THEN {} ELSE {"bare"})

\* The comment in loadMarketAssets() promises it of one key, and the other methods keep
\* it by leaving an answer out or by a short TTL: whatever fails, whatever the breakers
\* reject and whatever comes back without content, no stand-in and no hollow answer is
\* served for an hour or a day, but for the provider's own empty asset list.
DegradedIsShort ==
  \A k \in Kinds : cache[k] # Absent /\ cache[k].what \in Hollow(k) => cache[k].ttl = "minutes"

\* A half-open breaker lets one of several calls through, so the first answer after an
\* outage is a part, kept for up to a day, and an answer without content may be kept as
\* long.  Once the providers stay up and answer with content it is replaced in the end, and
\* every answer of a deployment with all keys is whole from then on.
OutagesHeal ==
  <>[](keys = External /\ \A p \in Providers : up[p] = "up")
    => <>[](\A k \in Kinds : cache[k] = Absent \/ cache[k].what = "whole")
=============================================================================
