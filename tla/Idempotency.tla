---------------------------- MODULE Idempotency ----------------------------
(***************************************************************************)
(* The IdempotencyInterceptor of portfolio-api wrapped around the proxy    *)
(* controller's mutating routes (addStock, addStocksBatch,                 *)
(* addWatchlistSymbol, createWatchlist), the Redis claim it keeps per      *)
(* Idempotency-Key, and the call it forwards to portfolio-service.         *)
(*                                                                         *)
(* A member of Requests is one HTTP attempt; a client's retry is another   *)
(* attempt with the same key.  Each attempt runs on the event loop and     *)
(* yields at every await, so every await is a step of its own.  The body   *)
(* hash is the body itself; the request path, user and method are folded   *)
(* into the key, as in the source.                                         *)
(***************************************************************************)
EXTENDS Naturals, FiniteSets

CONSTANTS
  Requests,   \* HTTP attempts
  Traffic,    \* the sets of attempts that may be sent in one behaviour
  Keys,       \* papi:idem:<sub>:<method>:<path>:<header>
  Bodies,
  KeyOf,      \* the key of an attempt, NoKey (no header) or BadKey (rejected header)
  BodyOf,     \* the body of an attempt
  NoKey, BadKey,
  NoRecord,   \* an absent Redis key
  Faults      \* the faults of the environment that may occur

FaultKinds == {"expiry", "redis", "timeout", "partial", "crash"}

Record == [state : {"in_flight", "done"}, owner : Requests]

ASSUME IdemAssumption ==
  /\ NoKey \notin Keys /\ BadKey \notin Keys /\ NoKey # BadKey
  /\ KeyOf \in [Requests -> Keys \cup {NoKey, BadKey}]
  /\ BodyOf \in [Requests -> Bodies]
  /\ NoRecord \notin Record
  /\ Traffic \subseteq SUBSET Requests
  /\ Faults \subseteq FaultKinds

VARIABLES
  pc,       \* where an attempt stands
  claimed,  \* the attempt holds a claim: its result is persisted, its error cleans up
  record,   \* Redis: the IdempotencyRecord of a key; owner stands for bodyHash, status and body
  down,     \* portfolio-service's side of the attempt's forwarded call
  reply,    \* what the client was answered, and from whose handler run the answer comes
  lapsed    \* history: keys whose claim stopped protecting the purchase

vars == <<pc, claimed, record, down, reply, lapsed>>

PCs == {"unsent", "arriving", "claiming", "looking", "handling", "forwarding", "settling",
        "cleanup", "closed", "crashed"}

\* "queued": sent, not yet executed; "broken": executed, then answered with a 5xx.
Downs == {"none", "queued", "bought", "refused", "broken"}

Replies == [kind : {"none", "invalid", "mismatch", "conflict", "error", "ok", "replay"},
            of : Requests]

Keyed(r) == KeyOf[r] \in Keys
Live(k) == record[k] # NoRecord
InFlight(r) == [state |-> "in_flight", owner |-> r]
Done(r) == [state |-> "done", owner |-> r]

Bought(r) == down[r] \in {"bought", "broken"}

Init ==
  /\ \E sent \in Traffic : pc = [r \in Requests |-> IF r \in sent THEN "arriving" ELSE "unsent"]
  /\ claimed = [r \in Requests |-> FALSE]
  /\ record = [k \in Keys |-> NoRecord]
  /\ down = [r \in Requests |-> "none"]
  /\ reply = [r \in Requests |-> [kind |-> "none", of |-> r]]
  /\ lapsed = {}

Goto(r, l) == pc' = [pc EXCEPT ![r] = l]
Answer(r, kind, o) == reply' = [reply EXCEPT ![r] = [kind |-> kind, of |-> o]]
Redis(k, v) == record' = [record EXCEPT ![k] = v]
Lapse(r) == lapsed' = lapsed \cup ({KeyOf[r]} \cap Keys)

(***************************************************************************)
(* intercept(), up to the claim: no header passes straight through, a bad  *)
(* header is a 400.                                                        *)
(***************************************************************************)
Intercept(r) ==
  /\ pc[r] = "arriving"
  /\ \/ /\ Keyed(r)
        /\ Goto(r, "claiming")
        /\ UNCHANGED reply
     \/ /\ KeyOf[r] = NoKey
        /\ Goto(r, "handling")
        /\ UNCHANGED reply
     \/ /\ KeyOf[r] = BadKey
        /\ Goto(r, "closed")
        /\ Answer(r, "invalid", r)
  /\ UNCHANGED <<claimed, record, down, lapsed>>

\* SET key value EX 60 NX succeeds exactly when the key is absent.
\* (a variant without NX)
AcquiresBlindly(r) == TRUE
Acquires(r) == ~ Live(KeyOf[r])

Claim(r) ==
  /\ pc[r] = "claiming"
  /\ \/ /\ Acquires(r)
        /\ Redis(KeyOf[r], InFlight(r))
        /\ claimed' = [claimed EXCEPT ![r] = TRUE]
        /\ Goto(r, "handling")
     \/ /\ ~ Acquires(r)
        /\ Goto(r, "looking")
        /\ UNCHANGED <<claimed, record>>
  /\ UNCHANGED <<down, reply, lapsed>>

\* setNx throws, whether or not Redis executed it: pass through without a claim.
ClaimThrows(r) ==
  /\ "redis" \in Faults
  /\ pc[r] = "claiming"
  /\ \/ UNCHANGED record
     \/ Acquires(r) /\ Redis(KeyOf[r], InFlight(r))
  /\ Goto(r, "handling")
  /\ Lapse(r)
  /\ UNCHANGED <<claimed, down, reply>>

(***************************************************************************)
(* handleExistingClaim(): read after the failed setNx, so the record may   *)
(* have changed or gone in between.                                        *)
(***************************************************************************)
\* (a variant that does not compare bodies)
RejectsAbsentOnly(r) == ~ Live(KeyOf[r])
Rejects(r) == Live(KeyOf[r]) => BodyOf[record[KeyOf[r]].owner] # BodyOf[r]

\* a variant whose 409 runs through the error path of the claiming request
LookupCleansUp(r) ==
  /\ pc[r] = "looking"
  /\ IF Rejects(r)
       THEN Answer(r, "mismatch", r) /\ Goto(r, "closed")
       ELSE IF record[KeyOf[r]].state = "in_flight"
              THEN Answer(r, "conflict", r) /\ Goto(r, "cleanup")
              ELSE Answer(r, "replay", record[KeyOf[r]].owner) /\ Goto(r, "closed")
  /\ UNCHANGED <<claimed, record, down, lapsed>>

Lookup(r) ==
  /\ pc[r] = "looking"
  /\ \/ Rejects(r) /\ Answer(r, "mismatch", r)
     \/ ~ Rejects(r) /\ record[KeyOf[r]].state = "in_flight" /\ Answer(r, "conflict", r)
     \/ ~ Rejects(r) /\ record[KeyOf[r]].state = "done"
                     /\ Answer(r, "replay", record[KeyOf[r]].owner)
  /\ Goto(r, "closed")
  /\ UNCHANGED <<claimed, record, down, lapsed>>

LookupThrows(r) ==
  /\ "redis" \in Faults
  /\ pc[r] = "looking"
  /\ Goto(r, "closed")
  /\ Answer(r, "error", r)
  /\ UNCHANGED <<claimed, record, down, lapsed>>

(***************************************************************************)
(* The handler: assertKnownSymbol() then forward().  A throw goes to       *)
(* cleanupAndRethrow() when the attempt holds a claim, else straight to    *)
(* the exception filter.                                                   *)
(***************************************************************************)
Throws(r) ==
  IF claimed[r]
    THEN Goto(r, "cleanup") /\ UNCHANGED reply
    ELSE Goto(r, "closed") /\ Answer(r, "error", r)

UnknownSymbol(r) ==
  /\ pc[r] = "handling"
  /\ Throws(r)
  /\ UNCHANGED <<claimed, record, down, lapsed>>

Forward(r) ==
  /\ pc[r] = "handling"
  /\ Goto(r, "forwarding")
  /\ down' = [down EXCEPT ![r] = "queued"]
  /\ UNCHANGED <<claimed, record, reply, lapsed>>

\* portfolio-service executes the call, possibly long after the proxy stopped waiting.
\* A trade insert that fails after the portfolio was saved leaves a 5xx on a done purchase.
Downstream(r) ==
  /\ down[r] = "queued"
  /\ \/ /\ \E d \in {"bought", "refused"} : down' = [down EXCEPT ![r] = d]
        /\ UNCHANGED lapsed
     \/ /\ "partial" \in Faults
        /\ down' = [down EXCEPT ![r] = "broken"]
        /\ Lapse(r)
  /\ UNCHANGED <<pc, claimed, record, reply>>

\* forward() answers the client itself, before the interceptor persists anything.
Answered(r) ==
  /\ pc[r] = "forwarding"
  /\ down[r] # "queued"
  /\ Answer(r, IF down[r] = "bought" THEN "ok" ELSE "error", r)
  /\ Goto(r, IF claimed[r] THEN "settling" ELSE "closed")
  /\ UNCHANGED <<claimed, record, down, lapsed>>

\* The per-call timeout or a network error; the call may be executed all the same.
TimesOut(r) ==
  /\ "timeout" \in Faults
  /\ pc[r] = "forwarding"
  /\ Throws(r)
  /\ Lapse(r)
  /\ UNCHANGED <<claimed, record, down>>

(***************************************************************************)
(* persistResult() and cleanupAndRethrow(): neither asks whose claim it    *)
(* overwrites or deletes, and a Redis failure is only logged.              *)
(***************************************************************************)
Persist(r) ==
  /\ pc[r] = "settling"
  /\ Redis(KeyOf[r], IF down[r] = "bought" THEN Done(r) ELSE NoRecord)
  /\ Goto(r, "closed")
  /\ UNCHANGED <<claimed, down, reply, lapsed>>

PersistFails(r) ==
  /\ "redis" \in Faults
  /\ pc[r] = "settling"
  /\ Goto(r, "closed")
  /\ UNCHANGED <<claimed, record, down, reply, lapsed>>

\* a variant that answers only if there is a claim left to delete
CleanupWhileHeld(r) ==
  /\ pc[r] = "cleanup"
  /\ Live(KeyOf[r])
  /\ Redis(KeyOf[r], NoRecord)
  /\ Goto(r, "closed")
  /\ Answer(r, "error", r)
  /\ UNCHANGED <<claimed, down, lapsed>>

Cleanup(r) ==
  /\ pc[r] = "cleanup"
  /\ \/ Redis(KeyOf[r], NoRecord)
     \/ "redis" \in Faults /\ UNCHANGED record
  /\ Goto(r, "closed")
  /\ Answer(r, "error", r)
  /\ UNCHANGED <<claimed, down, lapsed>>

\* The process dies while it works on the attempt: no cleanup runs.
Crash(r) ==
  /\ "crash" \in Faults
  /\ pc[r] \notin {"unsent", "arriving", "closed", "crashed"}
  /\ Goto(r, "crashed")
  /\ UNCHANGED <<claimed, record, down, reply, lapsed>>

(***************************************************************************)
(* Redis lets a record go when its TTL is over: 60 s for a claim, which    *)
(* assertKnownSymbol's multi-page fetch can outlast, 24 h for a result.    *)
(***************************************************************************)
Expires(k) == Live(k)

Expire(k) ==
  /\ "expiry" \in Faults
  /\ Expires(k)
  /\ Redis(k, NoRecord)
  /\ lapsed' = lapsed \cup {k}
  /\ UNCHANGED <<pc, claimed, down, reply>>

Step(r) ==
  \/ Intercept(r) \/ Claim(r) \/ ClaimThrows(r) \/ Lookup(r) \/ LookupThrows(r)
  \/ UnknownSymbol(r) \/ Forward(r) \/ Answered(r) \/ TimesOut(r)
  \/ Persist(r) \/ PersistFails(r) \/ Cleanup(r)

Next ==
  \/ \E r \in Requests : Step(r) \/ Downstream(r) \/ Crash(r)
  \/ \E k \in Keys : Expire(k)

Spec == Init /\ [][Next]_vars

\* The event loop runs every pending continuation, portfolio-service serves what it
\* received, and Redis drops what is past its TTL.
Fairness ==
  /\ \A r \in Requests : WF_vars(Step(r)) /\ WF_vars(Downstream(r))
  /\ \A k \in Keys : WF_vars(Expire(k))

FairSpec == Spec /\ Fairness

----------------------------------------------------------------------------
\* Type correctness.
TypeOK ==
  /\ pc \in [Requests -> PCs]
  /\ claimed \in [Requests -> BOOLEAN]
  /\ record \in [Keys -> Record \cup {NoRecord}]
  /\ down \in [Requests -> Downs]
  /\ reply \in [Requests -> Replies]
  /\ lapsed \subseteq Keys

\* Two attempts under one key are never both executed by portfolio-service, whatever
\* their interleaving, crashes included, unless the key's claim lapsed: it expired, its
\* setNx threw, the call timed out, or the call failed after it had taken effect.
AtMostOncePerKey ==
  \A r, s \in Requests :
    (r # s /\ Keyed(r) /\ KeyOf[r] = KeyOf[s] /\ Bought(r) /\ Bought(s))
      => KeyOf[r] \in lapsed

\* A replayed answer is the answer of an attempt with the same key and the same body
\* that succeeded, even on a key whose claim lapsed.
ReplayFidelity ==
  \A r \in Requests : reply[r].kind = "replay" =>
    LET o == reply[r].of IN
      /\ o # r
      /\ KeyOf[o] = KeyOf[r]
      /\ BodyOf[o] = BodyOf[r]
      /\ down[o] = "bought"

\* While a key has not lapsed, an in-flight claim is replaced or removed only by a step
\* of the attempt that took it: no other attempt's persist or cleanup touches it.
ClaimEndsByOwner ==
  [][\A k \in Keys :
       (Live(k) /\ record[k].state = "in_flight" /\ record'[k] # record[k] /\ k \notin lapsed')
         => pc'[record[k].owner] # pc[record[k].owner]]_vars

\* While a key has not lapsed, a stored result is never overwritten or deleted.
ResultIsFinal ==
  [][\A k \in Keys :
       (Live(k) /\ record[k].state = "done" /\ k \notin lapsed')
         => record'[k] = record[k]]_vars

\* Every attempt that arrives is answered in the end, unless its process dies: no lost
\* claim, failed cleanup or answer of another attempt leaves one waiting.  And no claim
\* blocks its key for good, even when its owner died: retries get through.
EveryAttemptAnswered ==
  /\ <>[](\A r \in Requests : pc[r] \in {"unsent", "closed", "crashed"})
  /\ []<>(\A k \in Keys : ~ (Live(k) /\ record[k].state = "in_flight"))

\* What the forwarded calls, the records in Redis and the answers amount to, per key.
Buyers == [k \in Keys |-> {r \in Requests : KeyOf[r] = k /\ Bought(r)}]
Kept == [k \in Keys |-> IF Live(k) /\ record[k].state = "done" THEN record[k].owner ELSE NoRecord]
Reported == [k \in Keys |-> {o \in Requests : \E r \in Requests :
               KeyOf[r] = k /\ reply[r].kind \in {"ok", "replay"} /\ reply[r].of = o}]

Promise == INSTANCE KeyedPurchases WITH
  Attempts <- Requests, NoResult <- NoRecord,
  made <- Buyers, result <- Kept, told <- Reported, unkept <- lapsed

\* The interceptor implements the promise: a key buys once, its stored result stays while
\* the key has not lapsed, and nobody is told of a purchase that was not made, across
\* interleaved attempts, lost Redis answers, timeouts and crashes.
KeepsThePromise == Promise!RegisterSpec

\* portfolio-proxy.controller.ts:54-57: the route is kept idempotent "so a network retry
\* of the whole batch doesn't double-buy".
NoDoubleBuy ==
  \A r, s \in Requests :
    (r # s /\ Keyed(r) /\ KeyOf[r] = KeyOf[s]) => ~ (Bought(r) /\ Bought(s))
============================================================================
