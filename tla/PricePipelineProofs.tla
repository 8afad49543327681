------------------------- MODULE PricePipelineProofs -------------------------
(* Proofs about PricePipeline, for any number of replicas, requests and bars. *)
EXTENDS PricePipeline, SequenceTheorems, TLAPS

\* Whatever a member counts as handled is done, whether it owns the partition or lost it.
HandledIsDone == \A w \in Workers : \A off \in 1..Handled(w) : Done(off)

\* Behind the store step the bar of the message in hand is there.
StoredInHand == \A w \in Workers : work[w].at \in {"cache", "emit"} => bars[Msg(w).ts] # Nil

\* Unless an owner was cut off inside process(), only the owner is in it.
OnlyOwnerWorks == ~ hist.overlap => \A w \in Workers : Busy(w) => w = owner

\* What the owner is about to emit is what it cached.
EmitsTheCached == ~ hist.overlap /\ work[owner].at = "emit" => latest \in {work[owner].off, Nil}

LastSaid(n) == processed # <<>> /\ processed[Len(processed)] = n /\ latest \in {n, Nil}

\* An owner that has handled the whole log has said the newest message last.  Nothing is
\* claimed while it is behind: then it may be repeating older messages.
NewestSaidLast ==
  ~ hist.overlap /\ Len(raw) > 0 /\ Handled(owner) = Len(raw) /\ Len(raw) \notin hist.failed
    => LastSaid(Len(raw))

\* A request that is about to set hist:fetched has its answer in the history.
MarkedIsStored ==
  \A q \in Queries : query[q].at = "mark" => \A ts \in Times : query[q].ans[ts] # Nil => bars[ts] # Nil

IInv ==
  /\ TypeOK /\ HandledIsDone /\ StoredInHand /\ CommittedIsDone
  /\ OnlyOwnerWorks /\ EmitsTheCached /\ NewestSaidLast
  /\ MarkedIsStored /\ FreshHistoryIsWhole

Minutes == [Times -> Closes \cup {Nil}]

LEMMA UpsertKeeps ==
  ASSUME NEW b \in Minutes, NEW t \in Times, NEW c \in Closes
  PROVE  /\ SetOnInsert(b, t, c) \in Minutes
         /\ SetOnInsert(b, t, c)[t] # Nil
         /\ \A u \in Times : b[u] # Nil => SetOnInsert(b, t, c)[u] = b[u]
BY NilAssumption DEF SetOnInsert, Minutes

LEMMA FilledKeeps ==
  ASSUME TypeOK, NEW a \in Minutes, NEW written
  PROVE  /\ Filled(a, written) \in Minutes
         /\ \A u \in Times : bars[u] # Nil => Filled(a, written)[u] = bars[u]
BY DEF Filled, Minutes, TypeOK

LEMMA Elements ==
  ASSUME TypeOK, NEW off \in 1..Len(raw)
  PROVE  raw[off] \in [ts : Times, close : Closes]
<1>1. raw \in Seq([ts : Times, close : Closes])
  BY DEF TypeOK
<1> QED
  BY <1>1, ElementOfSeq

\* The message a busy member has in hand.
LEMMA InHand ==
  ASSUME TypeOK, NEW w \in Workers, Busy(w)
  PROVE  /\ work[w].off \in 1..Len(raw)
         /\ Msg(w).ts \in Times /\ Msg(w).close \in Closes
<1>1. work[w].off \in 1..Len(raw)
  BY DEF TypeOK
<1>2. raw[work[w].off] \in [ts : Times, close : Closes]
  BY <1>1, Elements
<1> QED
  BY <1>1, <1>2 DEF Msg

LEMMA OffsetTimes ==
  ASSUME TypeOK, NEW off \in 1..Len(raw)
  PROVE  raw[off].ts \in Times
BY Elements

\* What is done stays done while messages are added, bars kept and emissions appended.
LEMMA DoneStays ==
  ASSUME TypeOK, NEW off \in 1..Len(raw), Done(off),
         raw'[off] = raw[off],
         \A u \in Times : bars[u] # Nil => bars'[u] = bars[u],
         Emitted \subseteq Emitted', hist.failed \subseteq hist'.failed
  PROVE  Done(off)'
BY OffsetTimes DEF Done

LEMMA EmitAdds ==
  ASSUME TypeOK, NEW off, off \in Offsets, processed' = Append(processed, off)
  PROVE  /\ processed' \in Seq(Offsets)
         /\ Emitted' = Emitted \cup {off}
<1>1. processed \in Seq(Offsets)
  BY DEF TypeOK
<1>2. /\ processed' \in Seq(Offsets)
      /\ Len(processed') = Len(processed) + 1
      /\ \A i \in 1..Len(processed) : processed'[i] = processed[i]
      /\ processed'[Len(processed) + 1] = off
  BY <1>1
<1>3. Emitted' \subseteq Emitted \cup {off}
  BY <1>1, <1>2 DEF Emitted
<1>4. Emitted \cup {off} \subseteq Emitted'
  BY <1>1, <1>2 DEF Emitted
<1> QED
  BY <1>2, <1>3, <1>4

\* Type correctness is preserved.
LEMMA TypeStep ==
  ASSUME TypeOK, [Next]_vars
  PROVE  TypeOK'
<1> USE NilAssumption, BoundsAssumption
<1>1. ASSUME NEW ts \in Times, NEW close \in Closes, Publish(ts, close)  PROVE TypeOK'
  <2>1. /\ raw' \in Seq([ts : Times, close : Closes])
        /\ Len(raw') = Len(raw) + 1 /\ Len(raw) \in Nat
    BY <1>1 DEF Publish, TypeOK
  <2>2. Offsets \subseteq Offsets'
    BY <2>1 DEF Offsets
  <2>3. processed' \in Seq(Offsets')
    BY <1>1, <2>2 DEF Publish, TypeOK
  <2> QED
    BY <1>1, <2>1, <2>2, <2>3 DEF Publish, TypeOK, Busy, Handled, Offsets
<1>2. ASSUME NEW w \in Workers, Fetch(w)  PROVE TypeOK'
  BY <1>2 DEF Fetch, TypeOK, Busy, Handled, Offsets
<1>3. ASSUME NEW w \in Workers, Store(w)  PROVE TypeOK'
  <2>1. bars' \in Minutes
    BY <1>3, InHand, UpsertKeeps DEF Store, TypeOK, Minutes, IsAt, Busy
  <2> QED
    BY <1>3, <2>1 DEF Store, Step, IsAt, TypeOK, Busy, Handled, Offsets, Minutes
<1>4. ASSUME NEW w \in Workers, Cache(w)  PROVE TypeOK'
  BY <1>4 DEF Cache, Step, IsAt, TypeOK, Busy, Handled, Offsets
<1>5. ASSUME NEW w \in Workers, Emit(w)  PROVE TypeOK'
  <2>1. work[w].off \in Offsets
    BY <1>5, InHand DEF Emit, IsAt, Busy, Offsets
  <2>2. processed' \in Seq(Offsets)
    BY <1>5, <2>1, EmitAdds DEF Emit
  <2> QED
    BY <1>5, <2>2 DEF Emit, Step, IsAt, TypeOK, Busy, Handled, Offsets
<1>6. ASSUME NEW w \in Workers, ProcessThrows(w)  PROVE TypeOK'
  <2>1. hist' \in [failed : SUBSET Offsets, overlap : BOOLEAN, served : Minutes]
    BY <1>6, InHand DEF ProcessThrows, TypeOK, Offsets, Minutes
  <2>2. work' \in [Workers -> [at : {"idle", "store", "cache", "emit"}, off : 0..Len(raw)]]
    BY <1>6 DEF ProcessThrows, Step, TypeOK
  <2>3. /\ \A v \in Workers : Busy(v)' => work'[v].off > 0
        /\ Handled(owner)' >= committed'
    BY <1>6 DEF ProcessThrows, Step, TypeOK, Busy, Handled
  <2> QED
    BY <1>6, <2>1, <2>2, <2>3 DEF ProcessThrows, TypeOK, Offsets, Minutes
<1>7. ASSUME NEW w \in Workers, Commit(w)  PROVE TypeOK'
  BY <1>7 DEF Commit, TypeOK, Busy, Handled, Offsets
<1>8. ASSUME NEW w \in Workers, Rebalance(w)  PROVE TypeOK'
  <2>1. hist' \in [failed : SUBSET Offsets, overlap : BOOLEAN, served : Minutes]
    BY <1>8 DEF Rebalance, TypeOK, Busy, Minutes
  <2>2. work' \in [Workers -> [at : {"idle", "store", "cache", "emit"}, off : 0..Len(raw)]]
    <3>1. /\ work \in [Workers -> [at : {"idle", "store", "cache", "emit"}, off : 0..Len(raw)]]
          /\ committed \in 0..Len(raw)
      BY DEF TypeOK
    <3>2. work' = [work EXCEPT ![w].off = committed]
      BY <1>8 DEF Rebalance
    <3> QED
      BY <3>1, <3>2
  <2>3. /\ \A v \in Workers : Busy(v)' => work'[v].off > 0
        /\ Handled(owner)' >= committed'
    BY <1>8 DEF Rebalance, TypeOK, Busy, Handled
  <2>4. moves' \in 0..MaxMoves
    BY <1>8 DEF Rebalance, TypeOK
  <2> QED
    BY <1>8, <2>1, <2>2, <2>3, <2>4 DEF Rebalance, TypeOK, Offsets, Minutes
<1>9. ASSUME NEW w \in Workers, Crash(w)  PROVE TypeOK'
  BY <1>9 DEF Crash, TypeOK, Busy, Handled, Offsets
<1>10. CASE LatestExpires
  BY <1>10 DEF LatestExpires, TypeOK, Busy, Handled, Offsets
<1>11. ASSUME NEW q \in Queries, GetHistory(q)  PROVE TypeOK'
  BY <1>11 DEF GetHistory, stream, TypeOK, Busy, Handled, Offsets
<1>12. ASSUME NEW q \in Queries, NEW a \in Answers, ProviderAnswers(q, a)  PROVE TypeOK'
  <2>1. a \in Minutes
    BY DEF Answers, Minutes
  <2>2. query' \in [Queries -> [at : {"idle", "fetch", "write", "mark"}, ans : Minutes]]
    <3>1. query \in [Queries -> [at : {"idle", "fetch", "write", "mark"}, ans : Minutes]]
      BY DEF TypeOK, Minutes
    <3> QED
      BY <1>12, <2>1, <3>1 DEF ProviderAnswers
  <2>3. flags' \subseteq {"fetched", "no-data"}
    BY <1>12 DEF ProviderAnswers, TypeOK
  <2> QED
    BY <1>12, <2>2, <2>3 DEF ProviderAnswers, stream, TypeOK, Busy, Handled, Offsets, Minutes
<1>13. ASSUME NEW q \in Queries, WriteHistory(q)  PROVE TypeOK'
  <2>1. query[q].ans \in Minutes
    BY DEF TypeOK, Minutes
  <2>2. bars' \in Minutes
    BY <1>13, <2>1, FilledKeeps DEF WriteHistory
  <2>3. query' \in [Queries -> [at : {"idle", "fetch", "write", "mark"}, ans : Minutes]]
    <3>1. query \in [Queries -> [at : {"idle", "fetch", "write", "mark"}, ans : Minutes]]
      BY DEF TypeOK, Minutes
    <3>2. NoBars \in Minutes
      BY DEF NoBars, Minutes
    <3> QED
      BY <1>13, <3>1, <3>2 DEF WriteHistory
  <2> QED
    BY <1>13, <2>2, <2>3 DEF WriteHistory, stream, TypeOK, Busy, Handled, Offsets, Minutes
<1>14. ASSUME NEW q \in Queries, MarkFetched(q)  PROVE TypeOK'
  BY <1>14 DEF MarkFetched, NoBars, stream, TypeOK, Busy, Handled, Offsets
<1>15. CASE FlagExpires
  BY <1>15 DEF FlagExpires, stream, TypeOK, Busy, Handled, Offsets
<1>16. CASE UNCHANGED vars
  BY <1>16 DEF vars, TypeOK, Busy, Handled, Offsets
<1> QED
  BY <1>1, <1>2, <1>3, <1>4, <1>5, <1>6, <1>7, <1>8, <1>9, <1>10, <1>11, <1>12, <1>13, <1>14,
     <1>15, <1>16 DEF Next, Process

\* No step rewrites a bar.
LEMMA BarsStay ==
  ASSUME TypeOK, [Next]_vars
  PROVE  \A u \in Times : bars[u] # Nil => bars'[u] = bars[u]
<1>1. ASSUME NEW w \in Workers, Store(w)
      PROVE  \A u \in Times : bars[u] # Nil => bars'[u] = bars[u]
  <2>1. /\ Msg(w).ts \in Times /\ Msg(w).close \in Closes
        /\ bars \in Minutes
    BY <1>1, InHand DEF Store, IsAt, Busy, TypeOK, Minutes
  <2>2. bars' = SetOnInsert(bars, Msg(w).ts, Msg(w).close)
    BY <1>1 DEF Store
  <2> QED
    BY <2>1, <2>2, UpsertKeeps
<1>2. ASSUME NEW q \in Queries, WriteHistory(q)
      PROVE  \A u \in Times : bars[u] # Nil => bars'[u] = bars[u]
  <2>1. query[q].ans \in Minutes
    BY DEF TypeOK, Minutes
  <2> QED
    BY <1>2, <2>1, FilledKeeps DEF WriteHistory
<1>3. CASE UNCHANGED bars
  BY <1>3
<1> QED
  BY <1>1, <1>2, <1>3 DEF Next, Process, vars, stream, Publish, Fetch, Cache, Emit, ProcessThrows,
     Commit, Rebalance, Crash, LatestExpires, GetHistory, ProviderAnswers, MarkFetched, FlagExpires

\* No step takes a message, an emission or a failure back.
LEMMA LogsGrow ==
  ASSUME TypeOK, [Next]_vars
  PROVE  /\ Emitted \subseteq Emitted'
         /\ hist.failed \subseteq hist'.failed
         /\ \A off \in 1..Len(raw) : off \in 1..Len(raw)' /\ raw'[off] = raw[off]
<1>1. Emitted \subseteq Emitted'
  <2>1. ASSUME NEW w \in Workers, Emit(w)  PROVE Emitted \subseteq Emitted'
    BY <2>1, InHand, EmitAdds DEF Emit, IsAt, Busy, Offsets
  <2>2. CASE UNCHANGED processed
    BY <2>2 DEF Emitted
  <2> QED
    BY <2>1, <2>2 DEF Next, Process, vars, stream, Publish, Fetch, Store, Cache, ProcessThrows,
       Commit, Rebalance, Crash, LatestExpires, GetHistory, ProviderAnswers, WriteHistory,
       MarkFetched, FlagExpires
<1>2. hist.failed \subseteq hist'.failed
  <2> DEFINE Hist == [failed : SUBSET Offsets, overlap : BOOLEAN, served : Minutes]
  <2>1. hist \in Hist
    BY DEF TypeOK, Minutes
  <2>2. ASSUME NEW w \in Workers, ProcessThrows(w)  PROVE hist.failed \subseteq hist'.failed
    BY <2>1, <2>2 DEF ProcessThrows
  <2>3. ASSUME NEW w \in Workers, Rebalance(w)  PROVE hist.failed \subseteq hist'.failed
    BY <2>1, <2>3 DEF Rebalance
  <2>4. ASSUME NEW q \in Queries, MarkFetched(q)  PROVE hist.failed \subseteq hist'.failed
    BY <2>1, <2>4 DEF MarkFetched
  <2>5. CASE UNCHANGED hist
    BY <2>5
  <2> QED
    BY <2>2, <2>3, <2>4, <2>5 DEF Next, Process, vars, stream, Publish, Fetch, Store, Cache, Emit,
       Commit, Crash, LatestExpires, GetHistory, ProviderAnswers, WriteHistory, FlagExpires
<1>3. \A off \in 1..Len(raw) : off \in 1..Len(raw)' /\ raw'[off] = raw[off]
  <2>1. raw \in Seq([ts : Times, close : Closes])
    BY DEF TypeOK
  <2>2. ASSUME NEW ts \in Times, NEW close \in Closes, Publish(ts, close)
        PROVE  \A off \in 1..Len(raw) : off \in 1..Len(raw)' /\ raw'[off] = raw[off]
    BY <2>1, <2>2 DEF Publish
  <2>3. CASE UNCHANGED raw
    BY <2>3
  <2> QED
    BY <2>2, <2>3 DEF Next, Process, vars, stream, Fetch, Store, Cache, Emit, ProcessThrows,
       Commit, Rebalance, Crash, LatestExpires, GetHistory, ProviderAnswers, WriteHistory,
       MarkFetched, FlagExpires
<1> QED
  BY <1>1, <1>2, <1>3

\* So what was done before a step is done after it.
LEMMA DoneRemains ==
  ASSUME TypeOK, [Next]_vars
  PROVE  \A off \in 1..Len(raw) : Done(off) => Done(off)'
BY BarsStay, LogsGrow, DoneStays

LEMMA HandledInLog ==
  ASSUME TypeOK, NEW w \in Workers
  PROVE  Handled(w) \in 0..Len(raw)
BY DEF TypeOK, Handled, Busy

\* The message in hand keeps its bar until the member puts it down.
LEMMA InHandStep ==
  ASSUME TypeOK, StoredInHand, [Next]_vars
  PROVE  StoredInHand'
<1> DEFINE Held(w) == work[w].at \in {"cache", "emit"} => bars[Msg(w).ts] # Nil
<1>1. ASSUME NEW w \in Workers,
             work'[w].at \in {"cache", "emit"} => work[w].at \in {"cache", "emit"} /\ work'[w] = work[w]
      PROVE  Held(w)'
  <2>1. work[w].at \in {"cache", "emit"} => work[w].off \in 1..Len(raw) /\ Msg(w).ts \in Times
    BY InHand DEF Busy
  <2> QED
    BY <1>1, <2>1, BarsStay, LogsGrow DEF StoredInHand, Msg
<1>2. ASSUME NEW v \in Workers, Store(v)  PROVE StoredInHand'
  <2>1. /\ Busy(v) /\ Msg(v).ts \in Times /\ Msg(v).close \in Closes
        /\ bars \in Minutes
    BY <1>2, InHand DEF Store, IsAt, Busy, TypeOK, Minutes
  <2>2. bars'[Msg(v).ts] # Nil
    BY <1>2, <2>1, UpsertKeeps DEF Store
  <2>3. work'[v].off = work[v].off /\ raw' = raw
    BY <1>2 DEF Store, Step, TypeOK
  <2>4. Held(v)'
    BY <2>2, <2>3 DEF Msg
  <2>5. ASSUME NEW w \in Workers, w # v  PROVE Held(w)'
    BY <1>1, <1>2, <2>5 DEF Store, Step, TypeOK
  <2> QED
    BY <2>4, <2>5 DEF StoredInHand
<1>3. ASSUME NEW v \in Workers, Cache(v)  PROVE StoredInHand'
  <2>1. Held(v)'
    BY <1>3 DEF Cache, Step, IsAt, StoredInHand, Msg, TypeOK
  <2>2. ASSUME NEW w \in Workers, w # v  PROVE Held(w)'
    BY <1>1, <1>3, <2>2 DEF Cache, Step, TypeOK
  <2> QED
    BY <2>1, <2>2 DEF StoredInHand
<1>4. CASE \A w \in Workers : work'[w].at \in {"cache", "emit"} =>
                              work[w].at \in {"cache", "emit"} /\ work'[w] = work[w]
  BY <1>1, <1>4 DEF StoredInHand
<1>5. ASSUME NEW v \in Workers, Fetch(v) \/ Emit(v) \/ ProcessThrows(v) \/ Rebalance(v) \/ Crash(v)
      PROVE  StoredInHand'
  <2>1. work \in [Workers -> [at : {"idle", "store", "cache", "emit"}, off : 0..Len(raw)]]
    BY DEF TypeOK
  <2> QED
    BY <1>4, <1>5, <2>1 DEF Fetch, Emit, ProcessThrows, Rebalance, Crash, Step, Busy
<1> QED
  BY <1>2, <1>3, <1>4, <1>5 DEF Next, Process, vars, stream, Publish, Commit, LatestExpires,
     GetHistory, ProviderAnswers, WriteHistory, MarkFetched, FlagExpires

\* Whatever is handled is done, whichever member handles it.
LEMMA HandledStep ==
  ASSUME TypeOK, StoredInHand, HandledIsDone, CommittedIsDone, [Next]_vars
  PROVE  HandledIsDone'
<1> DEFINE DoneUpTo(w) == \A off \in 1..Handled(w) : Done(off)
<1>1. \A w \in Workers : work[w].off \in 0..Len(raw) /\ Handled(w) \in 0..Len(raw)
  BY HandledInLog DEF TypeOK
<1>2. \A w \in Workers : \A off \in 1..Handled(w) : Done(off)'
  BY <1>1, DoneRemains DEF HandledIsDone
<1>3. \A off \in 1..committed : Done(off)'
  BY DoneRemains DEF CommittedIsDone, TypeOK
<1>4. ASSUME NEW w \in Workers, Handled(w)' = Handled(w)  PROVE DoneUpTo(w)'
  BY <1>2, <1>4
<1>5. ASSUME NEW v \in Workers, Emit(v) \/ ProcessThrows(v)  PROVE HandledIsDone'
  <2>1. PICK n \in 1..Len(raw) : n = work[v].off
    BY <1>5, InHand DEF Emit, ProcessThrows, IsAt, Busy
  <2>2. Handled(v) = n - 1 /\ Handled(v)' = n
    BY <1>5, <2>1 DEF Emit, ProcessThrows, Step, IsAt, Handled, Busy, TypeOK
  <2>3. ASSUME Emit(v)  PROVE Done(n)'
    <3>1. bars[raw[n].ts] # Nil /\ bars' = bars /\ raw' = raw
      BY <2>1, <2>3 DEF Emit, IsAt, StoredInHand, Msg
    <3>2. n \in Emitted'
      BY <2>1, <2>3, EmitAdds DEF Emit, Offsets
    <3> QED
      BY <3>1, <3>2 DEF Done
  <2>4. ASSUME ProcessThrows(v)  PROVE Done(n)'
    <3>1. hist \in [failed : SUBSET Offsets, overlap : BOOLEAN, served : Minutes]
      BY DEF TypeOK, Minutes
    <3> QED
      BY <2>1, <2>4, <3>1 DEF ProcessThrows, Done
  <2>5. \A off \in 1..n : off \in 1..Handled(v) \/ off = n
    BY <2>2
  <2>6. DoneUpTo(v)'
    BY <1>2, <1>5, <2>2, <2>3, <2>4, <2>5
  <2>7. ASSUME NEW w \in Workers, w # v  PROVE DoneUpTo(w)'
    BY <1>4, <1>5, <2>7 DEF Emit, ProcessThrows, Step, Handled, Busy, TypeOK
  <2> QED
    BY <2>6, <2>7 DEF HandledIsDone
<1>6. ASSUME NEW v \in Workers, Rebalance(v) \/ Crash(v)  PROVE HandledIsDone'
  <2> DEFINE Reset(w) == Handled(w)' \in {0, committed}
  <2>1. ASSUME NEW w \in Workers, Reset(w)  PROVE DoneUpTo(w)'
    BY <1>3, <2>1 DEF TypeOK
  <2>2. ASSUME NEW w \in Workers  PROVE Reset(w) \/ Handled(w)' = Handled(w)
    BY <1>6 DEF Rebalance, Crash, Handled, Busy, TypeOK
  <2> QED
    BY <1>4, <2>1, <2>2 DEF HandledIsDone
<1>7. CASE \A w \in Workers : Handled(w)' = Handled(w)
  BY <1>4, <1>7 DEF HandledIsDone
<1>8. ASSUME NEW v \in Workers, Fetch(v) \/ Store(v) \/ Cache(v)
      PROVE  \A w \in Workers : Handled(w)' = Handled(w)
  <2>1. work \in [Workers -> [at : {"idle", "store", "cache", "emit"}, off : 0..Len(raw)]]
    BY DEF TypeOK
  <2> QED
    BY <1>8, <2>1 DEF Fetch, Store, Cache, Step, IsAt, Handled, Busy
<1>9. CASE UNCHANGED work
  BY <1>7, <1>9 DEF Handled, Busy
<1> QED
  BY <1>5, <1>6, <1>7, <1>8, <1>9 DEF Next, Process, vars, stream, Publish, Commit, LatestExpires,
     GetHistory, ProviderAnswers, WriteHistory, MarkFetched, FlagExpires

\* The owner commits what it has handled, and nothing else moves the committed position.
LEMMA CommitStep ==
  ASSUME TypeOK, HandledIsDone, CommittedIsDone, [Next]_vars
  PROVE  CommittedIsDone'
<1>1. ASSUME NEW w \in Workers, Commit(w)  PROVE CommittedIsDone'
  <2>1. \A off \in 1..Handled(w) : Done(off)'
    BY HandledInLog, DoneRemains DEF HandledIsDone
  <2> QED
    BY <1>1, <2>1 DEF Commit, CommittedIsDone
<1>2. CASE UNCHANGED committed
  BY <1>2, DoneRemains DEF CommittedIsDone, TypeOK
<1> QED
  BY <1>1, <1>2 DEF Next, Process, vars, stream, Publish, Fetch, Store, Cache, Emit, ProcessThrows,
     Rebalance, Crash, LatestExpires, GetHistory, ProviderAnswers, WriteHistory, MarkFetched,
     FlagExpires

LEMMA FailedIn ==
  ASSUME TypeOK
  PROVE  hist \in [failed : SUBSET Offsets, overlap : BOOLEAN, served : Minutes]
BY DEF TypeOK, Minutes

\* The member in process() is the owner, until a change of owner cuts one off.
LEMMA OnlyOwnerStep ==
  ASSUME TypeOK, OnlyOwnerWorks, [Next]_vars
  PROVE  OnlyOwnerWorks'
<1> USE FailedIn DEF OnlyOwnerWorks, Busy, TypeOK
<1>1. ASSUME NEW v \in Workers, Process(v)  PROVE OnlyOwnerWorks'
  BY <1>1 DEF Process, Fetch, Store, Cache, Emit, Step, IsAt
<1>2. ASSUME NEW v \in Workers, ProcessThrows(v)  PROVE OnlyOwnerWorks'
  BY <1>2 DEF ProcessThrows, Step
<1>3. ASSUME NEW v \in Workers, Rebalance(v)  PROVE OnlyOwnerWorks'
  BY <1>3 DEF Rebalance
<1>4. ASSUME NEW v \in Workers, Crash(v)  PROVE OnlyOwnerWorks'
  BY <1>4 DEF Crash
<1>5. ASSUME NEW q \in Queries, MarkFetched(q)  PROVE OnlyOwnerWorks'
  BY <1>5 DEF MarkFetched, stream
<1>6. CASE UNCHANGED <<work, owner, hist>>
  BY <1>6
<1> QED
  BY <1>1, <1>2, <1>3, <1>4, <1>5, <1>6 DEF Next, vars, stream, Publish, Commit, LatestExpires,
     GetHistory, ProviderAnswers, WriteHistory, FlagExpires

LEMMA EmitsTheCachedStep ==
  ASSUME TypeOK, OnlyOwnerWorks, EmitsTheCached, [Next]_vars
  PROVE  EmitsTheCached'
<1> USE FailedIn DEF EmitsTheCached, TypeOK
<1>1. ASSUME NEW v \in Workers, Process(v)  PROVE EmitsTheCached'
  <2>1. hist.overlap \/ ~ Busy(owner) \/ v = owner
    BY <1>1 DEF Process, Fetch, Store, Cache, Emit, IsAt, OnlyOwnerWorks, Busy
  <2>2. ASSUME ~ hist.overlap, v # owner  PROVE work'[owner].at = "idle"
    BY <1>1, <2>1, <2>2 DEF Process, Fetch, Store, Cache, Emit, Step, Busy
  <2> QED
    BY <1>1, <2>2 DEF Process, Fetch, Store, Cache, Emit, Step, IsAt
<1>2. ASSUME NEW v \in Workers, ProcessThrows(v)  PROVE EmitsTheCached'
  BY <1>2 DEF ProcessThrows, Step
<1>3. ASSUME NEW v \in Workers, Rebalance(v)  PROVE EmitsTheCached'
  BY <1>3 DEF Rebalance, Busy
<1>4. ASSUME NEW v \in Workers, Crash(v)  PROVE EmitsTheCached'
  BY <1>4 DEF Crash
<1>5. ASSUME NEW q \in Queries, MarkFetched(q)  PROVE EmitsTheCached'
  BY <1>5 DEF MarkFetched, stream
<1>6. CASE LatestExpires
  BY <1>6 DEF LatestExpires
<1>7. CASE UNCHANGED <<work, owner, latest, hist>>
  BY <1>7
<1> QED
  BY <1>1, <1>2, <1>3, <1>4, <1>5, <1>6, <1>7 DEF Next, vars, stream, Publish, Commit,
     GetHistory, ProviderAnswers, WriteHistory, FlagExpires

\* A position that a change of owner takes back to the committed one is behind the log
\* unless the old owner had handled all of it.
LEMMA NewestSaidLastStep ==
  ASSUME TypeOK, OnlyOwnerWorks, EmitsTheCached, NewestSaidLast, [Next]_vars
  PROVE  NewestSaidLast'
<1> USE FailedIn
<1>0. /\ \A w \in Workers : work[w].off \in Nat /\ work[w].off <= Len(raw) /\ Handled(w) <= Len(raw)
      /\ Len(raw) \in Nat /\ committed \in Nat /\ committed <= Handled(owner) /\ owner \in Workers
  BY HandledInLog DEF TypeOK
<1>1. ASSUME NEW ts \in Times, NEW close \in Closes, Publish(ts, close)  PROVE NewestSaidLast'
  <2>1. Len(raw)' = Len(raw) + 1
    BY <1>1 DEF Publish, TypeOK
  <2>2. Handled(owner)' = Handled(owner)
    BY <1>1 DEF Publish, Handled, Busy
  <2>3. Handled(owner)' # Len(raw)'
    BY <1>0, <2>1, <2>2
  <2> QED
    BY <2>3 DEF NewestSaidLast
<1>2. ASSUME NEW v \in Workers, Fetch(v) \/ Store(v)  PROVE NewestSaidLast'
  <2>1. /\ Handled(owner)' = Handled(owner)
        /\ UNCHANGED <<raw, latest, processed, hist>>
    BY <1>0, <1>2 DEF Fetch, Store, Step, IsAt, Handled, Busy, TypeOK
  <2> QED
    BY <2>1 DEF NewestSaidLast, LastSaid
<1>3. ASSUME NEW v \in Workers, Cache(v)  PROVE NewestSaidLast'
  <2>1. hist.overlap \/ v = owner
    BY <1>3 DEF Cache, IsAt, OnlyOwnerWorks, Busy
  <2>2. v = owner => Handled(owner)' < Len(raw)
    BY <1>0, <1>3 DEF Cache, Step, IsAt, Handled, Busy, TypeOK
  <2>3. UNCHANGED <<raw, hist>>
    BY <1>3 DEF Cache
  <2> QED
    BY <1>0, <1>3, <2>1, <2>2, <2>3 DEF NewestSaidLast, Cache
<1>4. ASSUME NEW v \in Workers, Emit(v)  PROVE NewestSaidLast'
  <2>1. hist.overlap \/ v = owner
    BY <1>4 DEF Emit, IsAt, OnlyOwnerWorks, Busy
  <2>2. ASSUME v = owner, ~ hist.overlap  PROVE LastSaid(work[owner].off)'
    <3>1. work[owner].off \in Offsets /\ processed' = Append(processed, work[owner].off)
      BY <1>4, <2>2, InHand DEF Emit, IsAt, Busy, Offsets
    <3>2. processed' # <<>> /\ processed'[Len(processed')] = work[owner].off
      BY <3>1 DEF TypeOK
    <3>3. work'[owner].off = work[owner].off /\ latest' = latest /\ owner' = owner
      BY <1>4, <2>2 DEF Emit, Step, TypeOK
    <3> QED
      BY <1>4, <2>2, <3>2, <3>3 DEF LastSaid, EmitsTheCached, Emit, IsAt
  <2>3. v = owner => Handled(owner)' = work[owner].off /\ work'[owner].off = work[owner].off
    BY <1>4 DEF Emit, Step, Handled, Busy, TypeOK
  <2>4. UNCHANGED <<raw, hist, owner>>
    BY <1>4 DEF Emit
  <2> QED
    BY <2>1, <2>2, <2>3, <2>4 DEF NewestSaidLast, LastSaid
<1>5. ASSUME NEW v \in Workers, ProcessThrows(v)  PROVE NewestSaidLast'
  <2>1. hist.overlap \/ v = owner
    BY <1>5 DEF ProcessThrows, OnlyOwnerWorks
  <2>2. v = owner => Handled(owner)' \in hist'.failed
    BY <1>5 DEF ProcessThrows, Step, Handled, Busy, TypeOK
  <2>3. raw' = raw /\ owner' = owner /\ hist'.overlap = hist.overlap
    BY <1>5 DEF ProcessThrows
  <2> QED
    BY <2>1, <2>2, <2>3 DEF NewestSaidLast
<1>6. ASSUME NEW v \in Workers, Rebalance(v) \/ Crash(v)  PROVE NewestSaidLast'
  <2>1. Handled(owner)' = committed
    BY <1>0, <1>6 DEF Rebalance, Crash, Handled, Busy, TypeOK
  <2>2. /\ UNCHANGED <<raw, latest, processed>>
        /\ hist'.failed = hist.failed /\ (hist.overlap => hist'.overlap)
    BY <1>6 DEF Rebalance, Crash
  <2>3. committed = Len(raw) => Handled(owner) = Len(raw)
    BY <1>0, HandledInLog
  <2>4. Len(raw)' = Len(raw)
    BY <2>2
  <2> QED
    BY <2>1, <2>2, <2>3, <2>4 DEF NewestSaidLast, LastSaid
<1>7. CASE LatestExpires
  BY <1>7 DEF LatestExpires, NewestSaidLast, LastSaid, Handled, Busy
<1>8. ASSUME NEW q \in Queries, MarkFetched(q)  PROVE NewestSaidLast'
  BY <1>8 DEF MarkFetched, stream, NewestSaidLast, LastSaid, Handled, Busy
<1>9. CASE UNCHANGED <<raw, owner, work, latest, processed, hist>>
  BY <1>9 DEF NewestSaidLast, LastSaid, Handled, Busy
<1> QED
  BY <1>1, <1>2, <1>3, <1>4, <1>5, <1>6, <1>7, <1>8, <1>9 DEF Next, Process, vars, stream, Commit,
     GetHistory, ProviderAnswers, WriteHistory, FlagExpires

\* A request reaches MarkFetched only by writing its whole answer.
LEMMA MarkedStep ==
  ASSUME TypeOK, MarkedIsStored, [Next]_vars
  PROVE  MarkedIsStored'
<1>1. query \in [Queries -> [at : {"idle", "fetch", "write", "mark"}, ans : Minutes]]
  BY DEF TypeOK, Minutes
<1> DEFINE Kept(q) == query'[q].at = "mark" => query[q].at = "mark" /\ query'[q].ans = query[q].ans
<1>2. ASSUME \A q \in Queries : Kept(q)  PROVE MarkedIsStored'
  BY <1>2, BarsStay DEF MarkedIsStored
<1>3. ASSUME NEW q \in Queries, WriteHistory(q)  PROVE MarkedIsStored'
  <2>1. \A r \in Queries : r # q => Kept(r)
    BY <1>1, <1>3 DEF WriteHistory
  <2>2. ASSUME query'[q].at = "mark"
        PROVE  \A ts \in Times : query'[q].ans[ts] # Nil => bars'[ts] # Nil
    BY <1>1, <1>3, <2>2 DEF WriteHistory, Filled
  <2> QED
    BY <2>1, <2>2, BarsStay DEF MarkedIsStored
<1>4. ASSUME NEW q \in Queries, GetHistory(q) \/ MarkFetched(q)  PROVE MarkedIsStored'
  BY <1>1, <1>2, <1>4 DEF GetHistory, MarkFetched
<1>5. ASSUME NEW q \in Queries, NEW a \in Answers, ProviderAnswers(q, a)  PROVE MarkedIsStored'
  BY <1>1, <1>2, <1>5 DEF ProviderAnswers
<1>6. CASE UNCHANGED query
  BY <1>2, <1>6
<1> QED
  BY <1>3, <1>4, <1>5, <1>6 DEF Next, Process, vars, stream, Publish, Fetch, Store, Cache, Emit,
     ProcessThrows, Commit, Rebalance, Crash, LatestExpires, FlagExpires

LEMMA FreshStep ==
  ASSUME TypeOK, MarkedIsStored, FreshHistoryIsWhole, [Next]_vars
  PROVE  FreshHistoryIsWhole'
<1> USE FailedIn
<1>1. ASSUME NEW q \in Queries, MarkFetched(q)  PROVE FreshHistoryIsWhole'
  BY <1>1 DEF MarkFetched, MarkedIsStored, FreshHistoryIsWhole
<1>2. CASE ("fetched" \in flags' => "fetched" \in flags) /\ hist'.served = hist.served
  BY <1>2, BarsStay DEF FreshHistoryIsWhole
<1>3. ASSUME NEW w \in Workers, ProcessThrows(w) \/ Rebalance(w)  PROVE FreshHistoryIsWhole'
  BY <1>2, <1>3 DEF ProcessThrows, Rebalance
<1>4. ASSUME NEW q \in Queries, NEW a \in Answers, ProviderAnswers(q, a)  PROVE FreshHistoryIsWhole'
  BY <1>2, <1>4 DEF ProviderAnswers
<1>5. CASE FlagExpires
  BY <1>2, <1>5 DEF FlagExpires
<1>6. CASE UNCHANGED <<flags, hist>>
  BY <1>2, <1>6
<1> QED
  BY <1>1, <1>3, <1>4, <1>5, <1>6 DEF Next, Process, vars, stream, Publish, Fetch, Store, Cache, Emit,
     Commit, Crash, LatestExpires, GetHistory, WriteHistory

LEMMA InitHolds == Init => IInv
<1> SUFFICES ASSUME Init  PROVE IInv
  OBVIOUS
<1>1. raw = <<>> /\ processed = <<>> /\ Len(raw) = 0
  BY DEF Init
<1>2. TypeOK
  <2>1. raw \in Seq([ts : Times, close : Closes]) /\ processed \in Seq(Offsets)
    BY <1>1
  <2> QED
    BY <1>1, <2>1, BoundsAssumption DEF Init, TypeOK, NoBars, Busy, Handled
<1> QED
  BY <1>1, <1>2 DEF Init, IInv, HandledIsDone, StoredInHand, CommittedIsDone, Handled, Busy,
     OnlyOwnerWorks, EmitsTheCached, NewestSaidLast, MarkedIsStored, FreshHistoryIsWhole

\* Every reachable state satisfies the inductive invariant.
THEOREM Invariance == Spec => []IInv
<1>1. IInv /\ [Next]_vars => IInv'
  BY TypeStep, InHandStep, HandledStep, CommitStep, OnlyOwnerStep, EmitsTheCachedStep,
     NewestSaidLastStep, MarkedStep, FreshStep DEF IInv
<1> QED
  BY InitHolds, <1>1, PTL DEF Spec

\* price-processor's state has its types, and the owner never trails the committed position.
THEOREM TypeCorrect == Spec => []TypeOK
BY Invariance, PTL DEF IInv

\* At least once, for any number of replicas and moves of the partition: a committed
\* message has its bar stored and was emitted, or an attempt at it threw.
THEOREM CommittedMessagesAreDone == Spec => []CommittedIsDone
BY Invariance, PTL DEF IInv

\* Redelivery converges, for any number of replicas and moves of the partition: with the log
\* handled to its end, the topic and the cache end with the newest bar.
THEOREM RedeliveryConverges == Spec => []SettlesOnNewest
<1>1. TypeOK /\ NewestSaidLast => SettlesOnNewest
  <2> SUFFICES ASSUME TypeOK, NewestSaidLast, Len(raw) > 0, \A w \in Workers : ~ Busy(w),
                      work[owner].off = Len(raw), ~ hist.overlap, Len(raw) \notin hist.failed
               PROVE  LastSaid(Len(raw))
    BY DEF SettlesOnNewest, LastSaid
  <2>1. Handled(owner) = Len(raw)
    BY DEF Handled, TypeOK
  <2> QED
    BY <2>1 DEF NewestSaidLast
<1> QED
  BY Invariance, <1>1, PTL DEF IInv

\* Whatever requests and the stream write at once: while hist:fetched is set, the history has
\* every minute of the answer it was set for.
THEOREM FreshHistoriesAreWhole == Spec => []FreshHistoryIsWhole
BY Invariance, PTL DEF IInv

\* $setOnInsert on both writers: no step rewrites a bar of the history.
THEOREM BarsAreFinal == Spec => BarIsFinal
<1>1. TypeOK /\ [Next]_vars => [\A ts \in Times : bars[ts] # Nil => bars'[ts] = bars[ts]]_vars
  BY BarsStay
<1> QED
  BY TypeCorrect, <1>1, PTL DEF Spec, BarIsFinal
==============================================================================
