--------------------------- MODULE PricePipeline ---------------------------
(***************************************************************************)
(* One partition of stocks.prices.raw on its way through price-processor:  *)
(* price-ingestor appends minute bars, a member of the consumer group      *)
(* stores each bar, caches its close and re-emits it on                    *)
(* stocks.prices.processed, and history requests fill the same collection  *)
(* from the provider's REST API.                                           *)
(*                                                                         *)
(* The consumer group is kafkajs's: a member reads on from the last        *)
(* message it handled and commits its position later; a new owner starts   *)
(* from the committed one.  An owner that lost the partition finishes the  *)
(* message it is in and can commit nothing.  The group has committed       *)
(* before, so where kafkajs starts a group without a commit plays no part. *)
(***************************************************************************)
EXTENDS Naturals, Sequences, FiniteSets

CONSTANTS
  Workers,    \* replicas of price-processor
  Queries,    \* history requests that can be open at once
  LastTime,   \* bound on the minutes, which are 1..LastTime
  Closes,     \* what tells two bars of a minute apart
  Nil,
  MaxRaw,     \* bound on the messages published
  MaxMoves,   \* bound on the changes of owner
  Faulty      \* process() may throw, a bulkWrite may stop half-way

ASSUME NilAssumption == Nil \notin Workers \cup Closes /\ Nil \notin Nat
ASSUME BoundsAssumption == LastTime \in Nat /\ MaxRaw \in Nat /\ MaxMoves \in Nat /\ Faulty \in BOOLEAN

VARIABLES
  raw,        \* the partition: [ts, close] in offset order
  committed,  \* messages the group has committed
  owner,      \* the member the partition is assigned to
  work,       \* worker -> the step of process() it is in, and its message
  bars,       \* price_bars: minute -> close, or Nil
  latest,     \* price:latest, as the message it was written for
  processed,  \* stocks.prices.processed, as the messages emitted
  flags,      \* the keys hist:fetched and hist:no-data
  query,      \* history request -> its step, and the answer it holds
  moves,      \* changes of owner so far
  hist        \* history, see Init

vars == <<raw, committed, owner, work, bars, latest, processed, flags, query, moves, hist>>
stream == <<raw, committed, owner, work, latest, processed, moves>>

Times == 1..LastTime
Offsets == 1..Len(raw)
Newest == IF raw = <<>> THEN 0 ELSE raw[Len(raw)].ts
Busy(w) == work[w].at # "idle"
IsAt(w, step) == work[w].at = step
Msg(w) == raw[work[w].off]
NoBars == [ts \in Times |-> Nil]

Init ==
  /\ raw = <<>>
  /\ committed = 0
  /\ owner \in Workers
  /\ work = [w \in Workers |-> [at |-> "idle", off |-> 0]]
  /\ bars = NoBars
  /\ latest = Nil
  /\ processed = <<>>
  /\ flags = {}
  /\ query = [q \in Queries |-> [at |-> "idle", ans |-> NoBars]]
  /\ moves = 0
  /\ hist = [failed  |-> {},       \* messages of which an attempt threw
             overlap |-> FALSE,    \* an owner lost the partition inside process()
             served  |-> NoBars]   \* the answer hist:fetched was last set for

(***************************************************************************)
(* price-ingestor: handle_msg() publishes the bars of a WebSocket message. *)
(* A bar is of the last minute or of the next: the producer retries        *)
(* without idempotence, and the feed may send a minute again.              *)
(***************************************************************************)
Publish(ts, close) ==
  /\ Len(raw) < MaxRaw
  /\ ts \in {Newest, Newest + 1}
  /\ raw' = Append(raw, [ts |-> ts, close |-> close])
  /\ UNCHANGED <<committed, owner, work, bars, latest, processed, flags, query, moves, hist>>

(***************************************************************************)
(* process(): store, cache, emit.  eachMessage swallows what it throws, so *)
(* the consumer moves on.                                                  *)
(***************************************************************************)
Step(w, step) == work' = [work EXCEPT ![w].at = step]

Fetch(w) ==
  /\ owner = w /\ ~ Busy(w)
  /\ work[w].off < Len(raw)
  /\ work' = [work EXCEPT ![w] = [at |-> "store", off |-> @.off + 1]]
  /\ UNCHANGED <<raw, committed, owner, bars, latest, processed, flags, query, moves, hist>>

\* a variant of the upsert with $set in place of $setOnInsert
SetAlways(old, ts, close) == [old EXCEPT ![ts] = close]
SetOnInsert(old, ts, close) == [old EXCEPT ![ts] = IF @ = Nil THEN close ELSE @]

\* a variant that takes a message whose bar is there for a handled one
StoreSkipsKnown(w) ==
  /\ IsAt(w, "store")
  /\ bars' = SetOnInsert(bars, Msg(w).ts, Msg(w).close)
  /\ Step(w, IF bars[Msg(w).ts] = Nil THEN "cache" ELSE "idle")
  /\ UNCHANGED <<raw, committed, owner, latest, processed, flags, query, moves, hist>>

Store(w) ==
  /\ IsAt(w, "store")
  /\ bars' = SetOnInsert(bars, Msg(w).ts, Msg(w).close)
  /\ Step(w, "cache")
  /\ UNCHANGED <<raw, committed, owner, latest, processed, flags, query, moves, hist>>

Cache(w) ==
  /\ IsAt(w, "cache")
  /\ latest' = work[w].off
  /\ Step(w, "emit")
  /\ UNCHANGED <<raw, committed, owner, bars, processed, flags, query, moves, hist>>

Emit(w) ==
  /\ IsAt(w, "emit")
  /\ processed' = Append(processed, work[w].off)
  /\ Step(w, "idle")
  /\ UNCHANGED <<raw, committed, owner, bars, latest, flags, query, moves, hist>>

\* a variant that lets the error out of eachMessage: kafkajs reads the message again
ProcessRetries(w) ==
  /\ Faulty /\ Busy(w)
  /\ work' = [work EXCEPT ![w] = [at |-> "idle", off |-> @.off - 1]]
  /\ UNCHANGED <<raw, committed, owner, bars, latest, processed, flags, query, moves, hist>>

ProcessThrows(w) ==
  /\ Faulty /\ Busy(w)
  /\ Step(w, "idle")
  /\ hist' = [hist EXCEPT !.failed = @ \cup {work[w].off}]
  /\ UNCHANGED <<raw, committed, owner, bars, latest, processed, flags, query, moves>>

LatestExpires ==
  /\ latest # Nil
  /\ latest' = Nil
  /\ UNCHANGED <<raw, committed, owner, work, bars, processed, flags, query, moves, hist>>

(***************************************************************************)
(* The consumer group.                                                     *)
(***************************************************************************)
\* a variant that counts the message in hand as handled
HandledWithCurrent(w) == work[w].off
Handled(w) == IF Busy(w) THEN work[w].off - 1 ELSE work[w].off

Commit(w) ==
  /\ owner = w
  /\ Handled(w) > committed
  /\ committed' = Handled(w)
  /\ UNCHANGED <<raw, owner, work, bars, latest, processed, flags, query, moves, hist>>

\* The partition moves to w: the owner was too slow to heartbeat, was scaled away, or
\* lost the coordinator.  restart() brings w itself back the same way.
Rebalance(w) ==
  /\ moves < MaxMoves
  /\ moves' = moves + 1
  /\ ~ Busy(w)
  /\ owner' = w
  /\ work' = [work EXCEPT ![w].off = committed]
  /\ hist' = [hist EXCEPT !.overlap = @ \/ Busy(owner)]
  /\ UNCHANGED <<raw, committed, bars, latest, processed, flags, query>>

\* The process of the owner dies; w, perhaps its replacement, takes over.
Crash(w) ==
  /\ moves < MaxMoves
  /\ moves' = moves + 1
  /\ w = owner \/ ~ Busy(w)
  /\ owner' = w
  /\ work' = [v \in Workers |-> IF v = w THEN [at |-> "idle", off |-> committed]
                                ELSE IF v = owner THEN [at |-> "idle", off |-> 0]
                                ELSE work[v]]
  /\ UNCHANGED <<raw, committed, bars, latest, processed, flags, query, hist>>

(***************************************************************************)
(* getHistory(): ask the provider unless a key says not to.                *)
(***************************************************************************)
GetHistory(q) ==
  /\ query[q].at = "idle"
  /\ flags = {}
  /\ query' = [query EXCEPT ![q].at = "fetch"]
  /\ UNCHANGED <<stream, bars, flags, hist>>

\* The provider has the minutes published and, perhaps, the part of the next one.
Answers == {a \in [Times -> Closes \cup {Nil}] :
              \E n \in {0, Newest, Newest + 1} : \A ts \in Times : (a[ts] # Nil) <=> ts <= n}

\* an empty answer is remembered for a day; a failed call is answered with nothing
ProviderAnswers(q, a) ==
  /\ query[q].at = "fetch"
  /\ \/ /\ a # NoBars
        /\ query' = [query EXCEPT ![q] = [at |-> "write", ans |-> a]]
        /\ UNCHANGED flags
     \/ /\ a = NoBars
        /\ flags' \in {flags \cup {"no-data"}, flags}
        /\ query' = [query EXCEPT ![q].at = "idle"]
  /\ UNCHANGED <<stream, bars, hist>>

\* The bars of the answer that are still missing.
Filled(a, written) == [ts \in Times |-> IF ts \in written /\ bars[ts] = Nil THEN a[ts] ELSE bars[ts]]

\* a variant that sets the key even when the bulkWrite throws
WriteHistoryMarks(q) ==
  /\ query[q].at = "write"
  /\ \E written \in {Times} \cup (IF Faulty THEN SUBSET Times ELSE {}) :
       bars' = Filled(query[q].ans, written)
  /\ query' = [query EXCEPT ![q].at = "mark"]
  /\ UNCHANGED <<stream, flags, hist>>

\* an unordered bulkWrite that throws has written some of them
WriteHistory(q) ==
  LET a == query[q].ans IN
  /\ query[q].at = "write"
  /\ \/ /\ bars' = Filled(a, Times)
        /\ query' = [query EXCEPT ![q].at = "mark"]
     \/ /\ Faulty
        /\ \E written \in SUBSET Times : bars' = Filled(a, written)
        /\ query' = [query EXCEPT ![q] = [at |-> "idle", ans |-> NoBars]]
  /\ UNCHANGED <<stream, flags, hist>>

MarkFetched(q) ==
  /\ query[q].at = "mark"
  /\ flags' = flags \cup {"fetched"}
  /\ hist' = [hist EXCEPT !.served = query[q].ans]
  /\ query' = [query EXCEPT ![q] = [at |-> "idle", ans |-> NoBars]]
  /\ UNCHANGED <<stream, bars>>

\* 15 minutes, 24 hours
FlagExpires ==
  /\ flags # {}
  /\ flags' \in {flags \ {f} : f \in flags}
  /\ UNCHANGED <<stream, bars, query, hist>>

Process(w) == Fetch(w) \/ Store(w) \/ Cache(w) \/ Emit(w)

Next ==
  \/ \E ts \in Times, close \in Closes : Publish(ts, close)
  \/ \E w \in Workers : Process(w) \/ ProcessThrows(w) \/ Commit(w) \/ Rebalance(w) \/ Crash(w)
  \/ LatestExpires
  \/ \E q \in Queries :
       \/ GetHistory(q) \/ WriteHistory(q) \/ MarkFetched(q)
       \/ \E a \in Answers : ProviderAnswers(q, a)
  \/ FlagExpires

Spec == Init /\ [][Next]_vars

\* A member polls, handles what it polled and commits as long as it runs; the changes
\* of owner are bounded, so the last owner is left alone for long enough.
Fairness == \A w \in Workers : WF_vars(Process(w)) /\ WF_vars(Commit(w))
FairSpec == Spec /\ Fairness

----------------------------------------------------------------------------
\* Type correctness, with the positions of the group: the owner reads between the
\* committed message and the end of the log.
TypeOK ==
  /\ raw \in Seq([ts : Times, close : Closes])
  /\ committed \in 0..Len(raw)
  /\ owner \in Workers
  /\ work \in [Workers -> [at : {"idle", "store", "cache", "emit"}, off : 0..Len(raw)]]
  /\ \A w \in Workers : Busy(w) => work[w].off > 0
  /\ Handled(owner) >= committed
  /\ bars \in [Times -> Closes \cup {Nil}]
  /\ latest \in Offsets \cup {Nil}
  /\ processed \in Seq(Offsets)
  /\ flags \subseteq {"fetched", "no-data"}
  /\ query \in [Queries -> [at : {"idle", "fetch", "write", "mark"},
                          ans : [Times -> Closes \cup {Nil}]]]
  /\ moves \in 0..MaxMoves
  /\ hist \in [failed : SUBSET Offsets, overlap : BOOLEAN, served : [Times -> Closes \cup {Nil}]]

Emitted == {processed[i] : i \in 1..Len(processed)}

Done(off) == off \in hist.failed \/ (bars[raw[off].ts] # Nil /\ off \in Emitted)

\* At least once: a message is committed only when its bar is stored and it was emitted,
\* or an attempt at it threw and was swallowed.
CommittedIsDone == \A off \in 1..committed : Done(off)

\* Redelivery converges: with the log handled to its end, the last word on the topic and
\* in the cache is the newest bar, whatever was handled twice on the way.  Not so when an
\* owner that lost the partition was still inside process(), or when the newest bar threw.
SettlesOnNewest ==
  LET n == Len(raw) IN
  (/\ n > 0 /\ committed = n
   /\ \A w \in Workers : ~ Busy(w)
   /\ work[owner].off = n
   /\ ~ hist.overlap /\ n \notin hist.failed)
  => /\ processed # <<>> /\ processed[Len(processed)] = n
     /\ latest \in {n, Nil}

\* A bar in the history is never rewritten: not by a redelivered message, not by a second
\* message of the minute, not by an answer of the provider.
BarIsFinal == [][\A ts \in Times : bars[ts] # Nil => bars'[ts] = bars[ts]]_vars

\* While hist:fetched keeps requests from asking the provider again, the history has
\* every minute that the provider had served.
FreshHistoryIsWhole ==
  "fetched" \in flags => \A ts \in Times : hist.served[ts] # Nil => bars[ts] # Nil

\* When the stream pauses (MaxRaw), everything published is committed in the end and stays
\* so: no bar that always fails holds up the ones behind it.  With CommittedIsDone, every
\* bar is stored and emitted or has thrown.
EveryBarIsCommitted == <>[](committed = Len(raw))
============================================================================
