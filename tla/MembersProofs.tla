-------------------------- MODULE MembersProofs ---------------------------
(* Proofs about the models that lists are filtered in, and about the members' own:            *)
(* DailyHistory, for any days, bars of a day and limits; Profiles, for any users, values and  *)
(* requests and any number of events; SentimentPoll, for any symbols, finitely many articles  *)
(* and any number of polls; BrowserTab, for any members and any number of calls under way;    *)
(* and Predictor, for any symbols, horizons, visits and messages under way.                   *)
EXTENDS DailyHistory, Profiles, SentimentPoll, BrowserTab, Predictor, FiniteSetTheorems,
        NaturalsInduction, TLAPS

-----------------------------------------------------------------------------
(* The k-th of a finite set, in an order R of it. *)

Orders(R, S) ==
  /\ \A x \in S : <<x, x>> \notin R
  /\ \A x, y \in S : x = y \/ <<x, y>> \in R \/ <<y, x>> \in R
  /\ \A x, y, z \in S : <<x, y>> \in R /\ <<y, z>> \in R => <<x, z>> \in R

\* How many of S come before x.
Rank(R, S, x) == Cardinality({y \in S : <<y, x>> \in R})

\* Something less is before the lesser of two.
LEMMA RanksGrow ==
  ASSUME NEW S, IsFiniteSet(S), NEW R, Orders(R, S), NEW x \in S, NEW z \in S, <<x, z>> \in R
  PROVE  Rank(R, S, x) < Rank(R, S, z)
<1> DEFINE A == {y \in S : <<y, x>> \in R}
           B == {y \in S : <<y, z>> \in R}
<1> USE DEF Rank
<1>1. IsFiniteSet(A) /\ IsFiniteSet(B) /\ Cardinality(A) \in Nat /\ Cardinality(B) \in Nat
  BY FS_Subset, FS_CardinalityType
<1>2. A \subseteq B /\ x \in B /\ x \notin A
  BY DEF Orders
<1>3. Cardinality(A) <= Cardinality(B) /\ Cardinality(A) # Cardinality(B)
  BY <1>1, <1>2, FS_Subset
<1> QED
  BY <1>1, <1>3

\* As many numbers as elements: each number is one's.
LEMMA EachNumber ==
  ASSUME NEW S, IsFiniteSet(S), NEW n \in Nat, Cardinality(S) = n, NEW rank \in [S -> 0..(n - 1)],
         \A x, y \in S : rank[x] = rank[y] => x = y,
         NEW k \in 1..n
  PROVE  \E x \in S : rank[x] = k - 1
<1>1. rank \in Injection(S, 0..(n - 1))
  BY DEF Injection, IsInjective
<1>2. IsFiniteSet(0..(n - 1)) /\ Cardinality(0..(n - 1)) = n
  BY FS_Interval
<1>3. rank \in Surjection(S, 0..(n - 1))
  BY <1>1, <1>2, FS_Injection
<1> QED
  BY <1>3 DEF Surjection

LEMMA RankBound ==
  ASSUME NEW S, IsFiniteSet(S), NEW x \in S, NEW T \in SUBSET S, x \notin T
  PROVE  Cardinality(T) \in 0..(Cardinality(S) - 1)
<1>1. IsFiniteSet(S \ {x}) /\ Cardinality(S \ {x}) = Cardinality(S) - 1
  BY FS_RemoveElement
<1>2. T \in SUBSET (S \ {x})
  OBVIOUS
<1>3. IsFiniteSet(T) /\ Cardinality(T) <= Cardinality(S) - 1
  BY <1>1, <1>2, FS_Subset
<1> QED
  BY <1>1, <1>3, FS_CardinalityType

\* There is one for each number, when the lesser has the lower.
LEMMA EveryRank ==
  ASSUME NEW S, IsFiniteSet(S), NEW R, Orders(R, S), NEW n \in Nat, Cardinality(S) = n,
         NEW rank \in [S -> 0..(n - 1)], \A x, z \in S : <<x, z>> \in R => rank[x] < rank[z]
  PROVE  \A k \in 1..n : \E x \in S : rank[x] = k - 1
<1>1. ASSUME NEW x \in S, NEW z \in S, rank[x] = rank[z] PROVE x = z
  <2>1. <<x, z>> \notin R /\ <<z, x>> \notin R
    BY <1>1
  <2> QED
    BY <2>1 DEF Orders
<1> QED
  BY <1>1, EachNumber

\* How many are before each: another number for each element, and every number below theirs.
LEMMA Ranks ==
  ASSUME NEW S, IsFiniteSet(S), NEW R, Orders(R, S), NEW n \in Nat, n = Cardinality(S),
         NEW rank, rank \in [S -> Nat], \A x \in S : rank[x] = Rank(R, S, x)
  PROVE  /\ rank \in [S -> 0..(n - 1)]
         /\ \A x, z \in S : <<x, z>> \in R => rank[x] < rank[z]
<1>1. rank \in [S -> 0..(n - 1)]
  <2>1. ASSUME NEW x \in S PROVE Rank(R, S, x) \in 0..(n - 1)
    <3>1. x \notin {y \in S : <<y, x>> \in R} /\ {y \in S : <<y, x>> \in R} \in SUBSET S
      BY DEF Orders
    <3> QED
      BY <3>1, RankBound DEF Rank
  <2> QED
    BY <2>1
<1>2. ASSUME NEW x \in S, NEW z \in S, <<x, z>> \in R PROVE rank[x] < rank[z]
  BY <1>2, RanksGrow
<1> QED
  BY <1>1, <1>2

\* Who takes them one by one takes them in order, and takes them all.
LEMMA Enumerates ==
  ASSUME NEW S, NEW R, Orders(R, S), NEW n \in Nat, NEW rank \in [S -> 0..(n - 1)],
         \A x, z \in S : <<x, z>> \in R => rank[x] < rank[z],
         NEW nth, \A k \in 1..n : nth[k] \in S /\ rank[nth[k]] = k - 1
  PROVE  /\ \A k, l \in 1..n : k < l => <<nth[k], nth[l]>> \in R
         /\ \A x \in S : \E k \in 1..n : nth[k] = x
<1>1. ASSUME NEW k \in 1..n, NEW l \in 1..n, k < l PROVE <<nth[k], nth[l]>> \in R
  <2>1. nth[k] \in S /\ nth[l] \in S /\ rank[nth[k]] < rank[nth[l]]
    BY <1>1
  <2>2. nth[k] # nth[l] /\ <<nth[l], nth[k]>> \notin R
    BY <2>1
  <2> QED
    BY <2>1, <2>2 DEF Orders
<1>2. ASSUME NEW x \in S PROVE \E k \in 1..n : nth[k] = x
  <2>1. rank[x] + 1 \in 1..n
    OBVIOUS
  <2>2. nth[rank[x] + 1] \in S /\ rank[nth[rank[x] + 1]] = rank[x]
    BY <2>1
  <2>3. ASSUME NEW z \in S, rank[z] = rank[x] PROVE z = x
    <3>1. <<x, z>> \notin R /\ <<z, x>> \notin R
      BY <2>3
    <3> QED
      BY <3>1 DEF Orders
  <2>4. nth[rank[x] + 1] = x
    BY <2>2, <2>3
  <2> QED
    BY <2>1, <2>4
<1> QED
  BY <1>1, <1>2

Chooses(nth, R, S, n) ==
  \A k \in 1..n : (\E x \in S : Rank(R, S, x) = k - 1) => nth[k] \in S /\ Rank(R, S, nth[k]) = k - 1
Takes(nth, R, S, n) ==
  /\ \A k \in 1..n : nth[k] \in S
  /\ \A k, l \in 1..n : k < l => <<nth[k], nth[l]>> \in R
  /\ \A x \in S : \E k \in 1..n : nth[k] = x

\* Whoever chooses, for every k, an element with k - 1 others before it, where there is one,
\* takes all the elements in their order.
LEMMA InOrder ==
  ASSUME NEW S, IsFiniteSet(S), NEW R, Orders(R, S), NEW n \in Nat, n = Cardinality(S), NEW nth,
         Chooses(nth, R, S, n)
  PROVE  Takes(nth, R, S, n)
<1>0. \A x \in S : Rank(R, S, x) \in Nat
  <2>1. ASSUME NEW x \in S PROVE Rank(R, S, x) \in Nat
    BY FS_Subset, FS_CardinalityType DEF Rank
  <2> QED
    BY <2>1
<1>1. PICK rank \in [S -> Nat] : \A x \in S : rank[x] = Rank(R, S, x)
  <2>1. [x \in S |-> Rank(R, S, x)] \in [S -> Nat]
    BY <1>0
  <2> QED
    BY <2>1
<1>2. /\ rank \in [S -> 0..(n - 1)]
      /\ \A x, z \in S : <<x, z>> \in R => rank[x] < rank[z]
  BY <1>1, Ranks
<1>3. \A k \in 1..n : \E x \in S : rank[x] = k - 1
  BY <1>2, EveryRank
<1>4. \A k \in 1..n : nth[k] \in S /\ rank[nth[k]] = k - 1
  BY <1>1, <1>3 DEF Chooses
<1>5. /\ \A k, l \in 1..n : k < l => <<nth[k], nth[l]>> \in R
      /\ \A x \in S : \E k \in 1..n : nth[k] = x
  BY <1>2, <1>4, Enumerates
<1> QED
  BY <1>4, <1>5 DEF Takes

\* The numbers of a finite set, from the least.
LEMMA NthNumber ==
  ASSUME NEW S \in SUBSET Nat, NEW n \in Nat, IsFiniteSet(S), n = Cardinality(S)
  PROVE  /\ \A k \in 1..n : Nth(S, k) \in S
         /\ \A k, l \in 1..n : k < l => Nth(S, k) < Nth(S, l)
         /\ \A x \in S : \E k \in 1..n : Nth(S, k) = x
<1>1. PICK R : R = {p \in S \X S : p[1] < p[2]}
  OBVIOUS
<1>2. \A x, y \in S : <<x, y>> \in R <=> x < y
  BY <1>1
<1>3. Orders(R, S)
  BY <1>2 DEF Orders
<1>4. \A x \in S : {y \in S : <<y, x>> \in R} = {y \in S : y < x}
  BY <1>2
<1>5. PICK nth : nth = [k \in 1..n |-> Nth(S, k)]
  OBVIOUS
<1>6. ASSUME NEW k \in 1..n, \E x \in S : Rank(R, S, x) = k - 1
      PROVE  nth[k] \in S /\ Rank(R, S, nth[k]) = k - 1
  <2>1. \E x \in S : Cardinality({y \in S : y < x}) = k - 1
    BY <1>4, <1>6 DEF Rank
  <2>2. Nth(S, k) \in S /\ Cardinality({y \in S : y < Nth(S, k)}) = k - 1
    BY <2>1, Zenon DEF Nth
  <2> QED
    BY <1>4, <1>5, <2>2 DEF Rank
<1>7. Chooses(nth, R, S, n)
  BY <1>6 DEF Chooses
<1>8. Takes(nth, R, S, n)
  BY <1>3, <1>7, InOrder
<1> QED
  BY <1>2, <1>5, <1>8 DEF Takes

-----------------------------------------------------------------------------
(* DailyHistory: sequences of bars, the newest first. *)

Bars == Nat \X Nat
Descends(s) == s \in Seq(Bars) /\ \A i, j \in 1..Len(s) : i < j => Newer(s[i], s[j])
FirstAt(s) == {i \in DOMAIN s : \A j \in 1..(i - 1) : Day(s[j]) # Day(s[i])}

\* The first of each day are bars of the sequence, in its order, of other days, the newest of
\* them, and there is one of every day.
FirstsOf(s, h) ==
  /\ h \in Seq(Bars)
  /\ \A k \in 1..Len(h) : \E i \in 1..Len(s) : h[k] = s[i]
  /\ \A k, l \in 1..Len(h) : k < l => Day(h[k]) > Day(h[l])
  /\ \A k \in 1..Len(h), i \in 1..Len(s) : Day(s[i]) = Day(h[k]) => ~ Newer(s[i], h[k])
  /\ \A i \in 1..Len(s) : \E k \in 1..Len(h) : Day(h[k]) = Day(s[i])

LEMMA LeastNumber ==
  ASSUME NEW S \in SUBSET Nat, S # {}
  PROVE  \E m \in S : \A k \in S : m <= k
<1> DEFINE R == OpToRel(<, Nat)
<1>1. IsWellFoundedOn(R, Nat)
  BY NatLessThanWellFounded
<1>2. \A x, y \in Nat : y < x => <<y, x>> \in R
  BY DEF OpToRel
<1> HIDE DEF R
<1>3. PICK m \in S : \A y \in S : ~ (<<y, m>> \in R)
  BY <1>1, WFMin
<1>4. \A y \in S : ~ (y < m)
  BY <1>2, <1>3
<1> QED
  BY <1>4

\* What is picked of a sequence.
LEMMA PickedOf ==
  ASSUME NEW T, NEW s \in Seq(T), NEW S \in SUBSET (1..Len(s))
  PROVE  /\ IsFiniteSet(S) /\ Cardinality(S) \in Nat
         /\ Picked(s, S) \in Seq(T) /\ Len(Picked(s, S)) = Cardinality(S)
         /\ \A k \in 1..Cardinality(S) : Nth(S, k) \in S /\ Picked(s, S)[k] = s[Nth(S, k)]
         /\ \A k, l \in 1..Cardinality(S) : k < l => Nth(S, k) < Nth(S, l)
         /\ \A i \in S : \E k \in 1..Cardinality(S) : Nth(S, k) = i
<1>1. IsFiniteSet(S) /\ Cardinality(S) \in Nat /\ S \in SUBSET Nat
  <2>1. IsFiniteSet(1..Len(s)) /\ S \in SUBSET Nat
    BY FS_Interval
  <2> QED
    BY <2>1, FS_Subset, FS_CardinalityType
<1>2. PICK n \in Nat : n = Cardinality(S)
  BY <1>1
<1>3. /\ \A k \in 1..n : Nth(S, k) \in S
      /\ \A k, l \in 1..n : k < l => Nth(S, k) < Nth(S, l)
      /\ \A i \in S : \E k \in 1..n : Nth(S, k) = i
  BY <1>1, <1>2, NthNumber
<1>4. \A i \in 1..Len(s) : s[i] \in T
  OBVIOUS
<1>5. Picked(s, S) = [k \in 1..n |-> s[Nth(S, k)]]
  BY <1>2 DEF Picked
<1>6. \A k \in 1..n : s[Nth(S, k)] \in T
  BY <1>3, <1>4
<1>7. Picked(s, S) \in Seq(T) /\ Len(Picked(s, S)) = n
  BY <1>5, <1>6
<1> QED
  BY <1>1, <1>2, <1>3, <1>5, <1>7

LEMMA AmongOf ==
  ASSUME NEW T, NEW s \in Seq(T), NEW A
  PROVE  Among(s, A) \in Seq(T) /\ Len(Among(s, A)) \in 0..Len(s)
<1> DEFINE S == {i \in DOMAIN s : s[i] \in A}
<1>1. S \in SUBSET (1..Len(s)) /\ Len(s) \in Nat
  OBVIOUS
<1>2. Among(s, A) = Picked(s, S)
  BY DEF Among
<1> HIDE DEF S
<1>3. IsFiniteSet(1..Len(s)) /\ Cardinality(1..Len(s)) = Len(s)
  <2>1. PICK n \in Nat : n = Len(s)
    BY <1>1
  <2>2. IsFiniteSet(1..n) /\ Cardinality(1..n) = n
    BY FS_Interval
  <2> QED
    BY <2>1, <2>2
<1>4. Cardinality(S) <= Len(s)
  BY <1>1, <1>3, FS_Subset
<1> QED
  BY <1>1, <1>2, <1>4, PickedOf

LEMMA FirstOfDayOf ==
  ASSUME NEW s, Descends(s)
  PROVE  FirstsOf(s, FirstOfDay(s))
<1> DEFINE h == FirstOfDay(s)
           S == FirstAt(s)
           n == Cardinality(S)
<1>1. s \in Seq(Bars) /\ S \in SUBSET (1..Len(s)) /\ h = Picked(s, S) /\ Len(s) \in Nat /\ DOMAIN s = 1..Len(s)
  BY DEF Descends, FirstAt, FirstOfDay
<1>2. /\ n \in Nat /\ h \in Seq(Bars) /\ Len(h) = n
      /\ \A k \in 1..n : Nth(S, k) \in S /\ h[k] = s[Nth(S, k)]
      /\ \A k, l \in 1..n : k < l => Nth(S, k) < Nth(S, l)
      /\ \A i \in S : \E k \in 1..n : Nth(S, k) = i
  BY <1>1, PickedOf
<1>3. \A i \in S : i \in 1..Len(s) /\ \A j \in 1..(i - 1) : Day(s[j]) # Day(s[i])
  BY <1>1 DEF FirstAt
<1>4. \A i \in 1..Len(s) : (\A j \in 1..(i - 1) : Day(s[j]) # Day(s[i])) => i \in S
  BY <1>1 DEF FirstAt
<1>5. \A i \in 1..Len(s) : s[i] \in Bars /\ Day(s[i]) \in Nat
  BY <1>1 DEF Bars, Day
<1>6. \A i, j \in 1..Len(s) : i < j => Newer(s[i], s[j]) /\ ~ Newer(s[j], s[i]) /\ Day(s[i]) >= Day(s[j])
  <2>1. ASSUME NEW i \in 1..Len(s), NEW j \in 1..Len(s), i < j
        PROVE  Newer(s[i], s[j]) /\ ~ Newer(s[j], s[i]) /\ Day(s[i]) >= Day(s[j])
    <3>1. Newer(s[i], s[j])
      BY <2>1 DEF Descends
    <3> QED
      BY <1>5, <3>1 DEF Newer, Older, Day, Bars
  <2> QED
    BY <2>1
<1>7. \A i \in 1..Len(s) : ~ Newer(s[i], s[i])
  BY <1>5 DEF Newer, Older, Bars
<1> HIDE DEF h, S, n
<1>8. \A k \in 1..n : \E i \in 1..Len(s) : h[k] = s[i]
  BY <1>2, <1>3
<1>9. ASSUME NEW k \in 1..n, NEW l \in 1..n, k < l PROVE Day(h[k]) > Day(h[l])
  <2>1. PICK i, j : i = Nth(S, k) /\ j = Nth(S, l)
    OBVIOUS
  <2>2. i \in S /\ j \in S /\ i < j /\ h[k] = s[i] /\ h[l] = s[j]
    BY <1>2, <1>9, <2>1
  <2>3. i \in 1..Len(s) /\ j \in 1..Len(s) /\ i \in 1..(j - 1)
    BY <1>1, <1>3, <2>2
  <2>4. Day(s[i]) # Day(s[j]) /\ Day(s[i]) >= Day(s[j])
    BY <1>3, <1>6, <2>2, <2>3
  <2> QED
    BY <1>5, <2>2, <2>3, <2>4
<1>10. ASSUME NEW k \in 1..n, NEW i \in 1..Len(s), Day(s[i]) = Day(h[k]) PROVE ~ Newer(s[i], h[k])
  <2>1. PICK p : p = Nth(S, k)
    OBVIOUS
  <2>2. p \in S /\ h[k] = s[p] /\ p \in 1..Len(s)
    BY <1>2, <1>3, <2>1
  <2>3. ~ (i < p)
    <3> SUFFICES ASSUME i < p PROVE FALSE
      OBVIOUS
    <3>1. i \in 1..(p - 1)
      BY <1>1, <2>2
    <3> QED
      BY <1>3, <1>10, <2>2, <3>1
  <2>4. i = p \/ p < i
    BY <1>1, <2>2, <2>3
  <2> QED
    BY <1>6, <1>7, <2>2, <2>4
<1>11. ASSUME NEW i \in 1..Len(s) PROVE \E k \in 1..n : Day(h[k]) = Day(s[i])
  <2> DEFINE D == {j \in 1..Len(s) : Day(s[j]) = Day(s[i])}
  <2>1. D \in SUBSET Nat /\ i \in D
    OBVIOUS
  <2>2. PICK m \in D : \A j \in D : m <= j
    <3> HIDE DEF D
    <3> QED
      BY <2>1, LeastNumber
  <2>3. m \in 1..Len(s) /\ Day(s[m]) = Day(s[i])
    BY <2>2
  <2>4. ASSUME NEW j \in 1..(m - 1) PROVE Day(s[j]) # Day(s[m])
    <3>1. j \in 1..Len(s) /\ ~ (m <= j)
      BY <1>1, <2>3
    <3> QED
      BY <2>2, <2>3, <3>1
  <2>5. m \in S
    BY <1>4, <2>3, <2>4
  <2>6. PICK k \in 1..n : Nth(S, k) = m
    BY <1>2, <2>5
  <2> QED
    BY <1>2, <2>3, <2>6
<1>12. FirstsOf(s, h)
  BY <1>2, <1>8, <1>9, <1>10, <1>11 DEF FirstsOf
<1> QED
  BY <1>12 DEF h

-----------------------------------------------------------------------------
(* DailyHistory: what getHistory() answers. *)

HistoryIInv == today \in Nat /\ bars \in SUBSET Bars /\ IsFiniteSet(bars)

LEMMA HistoryInductive ==
  /\ HistoryInit => HistoryIInv
  /\ HistoryIInv /\ [HistoryNext]_historyVars => HistoryIInv'
<1>1. HistoryInit => HistoryIInv
  BY FS_EmptySet DEF HistoryInit, HistoryIInv
<1>2. ASSUME HistoryIInv, StoreBar PROVE HistoryIInv'
  <2>1. PICK d \in 1..today, o \in Offsets : bars' = bars \cup {<<d, o>>} /\ today' = today
    BY <1>2 DEF StoreBar
  <2>2. <<d, o>> \in Bars
    BY <1>2, HistoryBounds DEF HistoryIInv, Bars
  <2>3. IsFiniteSet(bars')
    BY <1>2, <2>1, FS_AddElement DEF HistoryIInv
  <2> QED
    BY <1>2, <2>1, <2>2, <2>3 DEF HistoryIInv
<1>3. ASSUME HistoryIInv, NewDay \/ GetFactorPerformance \/ FactorsExpire \/ UNCHANGED historyVars
      PROVE  HistoryIInv'
  BY <1>3 DEF HistoryIInv, NewDay, GetFactorPerformance, FactorsExpire, historyVars
<1> QED
  BY <1>1, <1>2, <1>3 DEF HistoryNext

\* The newest of the bars, and with them all the bars that are not older than all of them.
Reaches(s) ==
  /\ Descends(s) /\ Range(s) \subseteq bars
  /\ \A b \in bars : \/ \E i \in 1..Len(s) : s[i] = b
                     \/ s # <<>> /\ \A i \in 1..Len(s) : Newer(s[i], b)

LEMMA BarsInOrder ==
  ASSUME HistoryIInv, NEW limit \in Nat \ {0}
  PROVE  Reaches(Recent(limit))
<1> DEFINE s == Recent(limit)
<1>1. PICK R : R = {p \in bars \X bars : Newer(p[1], p[2])}
  OBVIOUS
<1>2. \A x, y \in bars : <<x, y>> \in R <=> Newer(x, y)
  BY <1>1
<1>3. Orders(R, bars)
  BY <1>2 DEF Orders, HistoryIInv, Bars, Newer, Older
<1>4. \A x \in bars : {y \in bars : <<y, x>> \in R} = {y \in bars : Newer(y, x)}
  BY <1>2
<1>5. PICK n \in Nat : n = Cardinality(bars)
  BY FS_CardinalityType DEF HistoryIInv
<1>6. PICK m \in Nat : m = Min({limit, Cardinality(bars)})
  BY <1>5 DEF Min
<1>7. (m = limit \/ m = n) /\ m <= n
  BY <1>5, <1>6 DEF Min
<1> DEFINE At(k) == CHOOSE b \in bars : Cardinality({c \in bars : Newer(c, b)}) = k - 1
<1>0. s = [k \in 1..m |-> At(k)]
  BY <1>6, Zenon DEF Recent
<1> HIDE DEF At
<1>8. PICK nth : nth = [k \in 1..n |-> At(k)]
  OBVIOUS
<1>9. ASSUME NEW k \in 1..n, \E x \in bars : Rank(R, bars, x) = k - 1
      PROVE  nth[k] \in bars /\ Rank(R, bars, nth[k]) = k - 1
  <2>1. PICK b : b = At(k)
    OBVIOUS
  <2>2. \E x \in bars : Cardinality({y \in bars : Newer(y, x)}) = k - 1
    BY <1>4, <1>9 DEF Rank
  <2>3. b \in bars /\ Cardinality({y \in bars : Newer(y, b)}) = k - 1
    BY <2>1, <2>2, Zenon DEF At
  <2>4. nth[k] = b
    BY <1>8, <2>1
  <2> QED
    BY <1>4, <2>3, <2>4 DEF Rank
<1>10. Chooses(nth, R, bars, n)
  BY <1>9 DEF Chooses
<1>11. Takes(nth, R, bars, n)
  BY <1>3, <1>5, <1>10, InOrder DEF HistoryIInv
<1>12. s = [k \in 1..m |-> nth[k]]
  BY <1>0, <1>7, <1>8
<1>13. s \in Seq(bars) /\ Len(s) = m /\ \A k \in 1..m : s[k] = nth[k] /\ nth[k] \in bars
  <2>1. \A k \in 1..m : nth[k] \in bars
    BY <1>7, <1>11 DEF Takes
  <2> QED
    BY <1>12, <2>1
<1> HIDE DEF s
<1>14. \A k, l \in 1..n : k < l => Newer(nth[k], nth[l])
  BY <1>2, <1>11 DEF Takes
<1>15. Descends(s) /\ Range(s) \subseteq bars
  BY <1>7, <1>13, <1>14 DEF Descends, HistoryIInv, Range
<1>16. ASSUME NEW b \in bars
       PROVE  \/ \E i \in 1..Len(s) : s[i] = b
              \/ s # <<>> /\ \A i \in 1..Len(s) : Newer(s[i], b)
  <2>1. PICK k \in 1..n : nth[k] = b
    BY <1>11 DEF Takes
  <2>2. CASE k <= m
    BY <1>13, <2>1, <2>2
  <2>3. CASE ~ (k <= m)
    <3>1. m = limit /\ m # 0 /\ \A i \in 1..m : i \in 1..n /\ i < k
      BY <1>7, <2>3
    <3> QED
      BY <1>13, <1>14, <2>1, <3>1
  <2> QED
    BY <2>2, <2>3
<1>17. Reaches(s)
  BY <1>15, <1>16 DEF Reaches
<1> QED
  BY <1>17 DEF s

\* Of every day they reach, the newest bar of that day.
LEMMA FirstsReach ==
  ASSUME HistoryIInv, NEW s, Reaches(s), NEW h, FirstsOf(s, h)
  PROVE  /\ \A i \in DOMAIN h : h[i] \in bars /\ \A b \in bars : Day(b) = Day(h[i]) => ~Newer(b, h[i])
         /\ \A i, j \in DOMAIN h : i < j => Day(h[i]) > Day(h[j])
         /\ \A b \in bars : h # <<>> /\ (\/ \E i \in DOMAIN h : Day(h[i]) = Day(b)
                                        \/ Day(b) < Day(h[Len(h)]))
<1>1. s \in Seq(Bars) /\ h \in Seq(Bars) /\ DOMAIN h = 1..Len(h) /\ Len(h) \in Nat /\ Len(s) \in Nat
  BY DEF Reaches, Descends, FirstsOf
<1>2. \A b \in bars : b \in Bars
  BY DEF HistoryIInv
<1>3. \A i \in 1..Len(s) : s[i] \in bars /\ s[i] \in Bars
  BY <1>1 DEF Reaches, Range
<1>4. \A k \in 1..Len(h) : \E i \in 1..Len(s) : h[k] = s[i]
  BY DEF FirstsOf
<1>5. ASSUME NEW k \in 1..Len(h) PROVE h[k] \in bars /\ \A b \in bars : Day(b) = Day(h[k]) => ~Newer(b, h[k])
  <2>1. PICK p \in 1..Len(s) : h[k] = s[p]
    BY <1>4
  <2>2. ASSUME NEW b \in bars, Day(b) = Day(h[k]) PROVE ~ Newer(b, h[k])
    <3>1. CASE \E i \in 1..Len(s) : s[i] = b
      BY <2>2, <3>1 DEF FirstsOf
    <3>2. CASE \A i \in 1..Len(s) : Newer(s[i], b)
      <4>1. Newer(h[k], b) /\ h[k] \in Bars /\ b \in Bars
        BY <1>2, <1>3, <2>1, <3>2
      <4> QED
        BY <4>1 DEF Newer, Older, Bars
    <3> QED
      BY <3>1, <3>2 DEF Reaches
  <2> QED
    BY <1>3, <2>1, <2>2
<1>6. \A i, j \in 1..Len(h) : i < j => Day(h[i]) > Day(h[j])
  BY DEF FirstsOf
<1>7. ASSUME NEW b \in bars
      PROVE  h # <<>> /\ ((\E i \in 1..Len(h) : Day(h[i]) = Day(b)) \/ Day(b) < Day(h[Len(h)]))
  <2>1. CASE \E i \in 1..Len(s) : s[i] = b
    <3>1. PICK k \in 1..Len(h) : Day(h[k]) = Day(b)
      BY <2>1 DEF FirstsOf
    <3> QED
      BY <1>1, <3>1
  <2>2. CASE s # <<>> /\ \A i \in 1..Len(s) : Newer(s[i], b)
    <3>1. 1 \in 1..Len(s)
      BY <1>1, <2>2
    <3>2. PICK k \in 1..Len(h) : Day(h[k]) = Day(s[1])
      BY <3>1 DEF FirstsOf
    <3>3. h # <<>> /\ Len(h) \in 1..Len(h)
      BY <1>1, <3>2
    <3>4. PICK p \in 1..Len(s) : h[Len(h)] = s[p]
      BY <1>4, <3>3
    <3>5. Newer(h[Len(h)], b) /\ h[Len(h)] \in Bars /\ b \in Bars
      BY <1>2, <1>3, <2>2, <3>4
    <3>6. Day(b) < Day(h[Len(h)]) \/ Day(b) = Day(h[Len(h)])
      BY <3>5 DEF Newer, Older, Bars, Day
    <3> QED
      BY <3>3, <3>6
  <2> QED
    BY <2>1, <2>2 DEF Reaches
<1> QED
  BY <1>1, <1>5, <1>6, <1>7

-----------------------------------------------------------------------------
(* DailyHistory: what the chart makes of it. *)

LEMMA ReverseOf ==
  ASSUME NEW T, NEW s \in Seq(T)
  PROVE  /\ Reverse(s) \in Seq(T) /\ Len(Reverse(s)) = Len(s)
         /\ Reverse(Reverse(s)) = s
<1>1. Reverse(s) = [i \in 1..Len(s) |-> s[(Len(s) - i) + 1]]
  BY DEF Reverse
<1>2. \A i \in 1..Len(s) : s[(Len(s) - i) + 1] \in T
  OBVIOUS
<1>3. Reverse(s) \in Seq(T) /\ Len(Reverse(s)) = Len(s)
  BY <1>1, <1>2
<1>4. Reverse(Reverse(s)) = [i \in 1..Len(s) |-> Reverse(s)[(Len(s) - i) + 1]]
  BY <1>3 DEF Reverse
<1>5. \A i \in 1..Len(s) : Reverse(s)[(Len(s) - i) + 1] = s[i]
  BY <1>1
<1>6. s = [i \in 1..Len(s) |-> s[i]]
  OBVIOUS
<1>7. Reverse(Reverse(s)) = s
  BY <1>4, <1>5, <1>6
<1> QED
  BY <1>3, <1>7

\* Sorted, the newest first is the oldest first.
LEMMA SortedBars ==
  ASSUME NEW s, Descends(s)
  PROVE  SortBars(s) = Reverse(s)
<1>1. PICK n \in Nat : n = Len(s)
  BY DEF Descends
<1>2. DOMAIN s = 1..n /\ \A i \in 1..n : s[i] \in Bars
  BY <1>1 DEF Descends
<1>3. \A i, j \in 1..n : i < j => Older(s[j], s[i])
  BY <1>1 DEF Descends, Newer
<1>4. ASSUME NEW i \in 1..n PROVE Cardinality(Before(s, i)) = n - i
  <2>1. ASSUME NEW j \in 1..n PROVE j \in Before(s, i) <=> i < j
    <3>1. CASE i < j
      BY <1>2, <1>3, <3>1 DEF Before
    <3>2. CASE i = j
      BY <1>2, <3>2 DEF Before, Older, Bars
    <3>3. CASE j < i
      <4>1. Older(s[i], s[j])
        BY <1>3, <3>3
      <4> QED
        BY <1>2, <3>3, <4>1 DEF Before, Older, Bars
    <3> QED
      BY <3>1, <3>2, <3>3
  <2>2. Before(s, i) = (i + 1)..n
    BY <1>2, <2>1 DEF Before
  <2> QED
    BY <2>2, FS_Interval
<1>5. ASSUME NEW k \in 1..n
      PROVE  (CHOOSE i \in 1..n : Cardinality(Before(s, i)) = k - 1) = (n - k) + 1
  <2>1. \A i \in 1..n : Cardinality(Before(s, i)) = k - 1 <=> i = (n - k) + 1
    BY <1>4
  <2> QED
    BY <2>1
<1>6. SortBars(s) = [k \in 1..n |-> s[CHOOSE i \in 1..n : Cardinality(Before(s, i)) = k - 1]]
  BY <1>2 DEF SortBars
<1>7. Reverse(s) = [k \in 1..n |-> s[(n - k) + 1]]
  BY <1>1 DEF Reverse
<1> QED
  BY <1>5, <1>6, <1>7

\* Of other days each, all are the first of theirs.
LEMMA AllFirst ==
  ASSUME NEW h \in Seq(Bars), \A i, j \in 1..Len(h) : i < j => Day(h[i]) > Day(h[j])
  PROVE  FirstOfDay(h) = h /\ Descends(h)
<1>1. PICK n \in Nat : n = Len(h)
  OBVIOUS
<1>2. DOMAIN h = 1..n /\ \A i \in 1..n : h[i] \in Bars /\ Day(h[i]) \in Nat
  BY <1>1 DEF Bars, Day
<1>3. Descends(h)
  BY <1>1, <1>2 DEF Descends, Newer, Older, Day
<1>4. {i \in DOMAIN h : \A j \in 1..(i - 1) : Day(h[j]) # Day(h[i])} = 1..n
  <2>1. ASSUME NEW i \in 1..n, NEW j \in 1..(i - 1) PROVE Day(h[j]) # Day(h[i])
    <3>1. j \in 1..n /\ j < i
      OBVIOUS
    <3>2. Day(h[j]) > Day(h[i])
      BY <1>1, <3>1
    <3> QED
      BY <1>2, <3>1, <3>2
  <2> QED
    BY <1>2, <2>1
<1>5. ASSUME NEW k \in 1..n PROVE Nth(1..n, k) = k
  <2>1. \A i \in 1..n : {j \in 1..n : j < i} = 1..(i - 1)
    OBVIOUS
  <2>2. \A i \in 1..n : Cardinality(1..(i - 1)) = i - 1
    BY FS_Interval
  <2>3. ASSUME NEW i \in 1..n PROVE Cardinality({j \in 1..n : j < i}) = k - 1 <=> i = k
    <3>1. Cardinality({j \in 1..n : j < i}) = i - 1
      BY <2>1, <2>2
    <3> QED
      BY <3>1
  <2> QED
    BY <2>3 DEF Nth
<1>6. Cardinality(1..n) = n
  BY FS_Interval
<1>7. FirstOfDay(h) = [k \in 1..n |-> h[Nth(1..n, k)]]
  BY <1>4, <1>6 DEF FirstOfDay, Picked
<1>8. h = [k \in 1..n |-> h[k]]
  BY <1>1
<1> QED
  BY <1>3, <1>5, <1>7, <1>8

LEMMA CleanOf ==
  ASSUME NEW s, Descends(s)
  PROVE  Clean(s) = Reverse(FirstOfDay(s))
<1>1. Reverse(SortBars(s)) = s
  BY SortedBars, ReverseOf DEF Descends
<1> QED
  BY <1>1 DEF Clean

LEMMA HistoryShown == HistoryIInv => ShownHistoryIsLatest
<1> SUFFICES ASSUME HistoryIInv, NEW limit \in 1..Month
             PROVE  LET h == GetDaily(limit) IN
               /\ /\ \A i \in DOMAIN h : h[i] \in bars /\ \A b \in bars : Day(b) = Day(h[i]) => ~Newer(b, h[i])
                  /\ \A i, j \in DOMAIN h : i < j => Day(h[i]) > Day(h[j])
                  /\ \A b \in bars : h # <<>> /\ (\/ \E i \in DOMAIN h : Day(h[i]) = Day(b)
                                                 \/ Day(b) < Day(h[Len(h)]))
               /\ Clean(h) = Reverse(h)
               /\ Clean(Recent(limit)) = Reverse(h)
  BY DEF ShownHistoryIsLatest, HistoryIsLatestPerDay, ChartShowsTheHistory
<1>1. PICK s : s = Recent(limit)
  OBVIOUS
<1>2. PICK h : h = FirstOfDay(s)
  OBVIOUS
<1>3. Reaches(s) /\ Descends(s)
  BY <1>1, BarsInOrder, HistoryBounds DEF Reaches
<1>4. FirstsOf(s, h)
  BY <1>2, <1>3, FirstOfDayOf
<1>5. FirstOfDay(h) = h /\ Descends(h)
  BY <1>4, AllFirst DEF FirstsOf
<1>6. Clean(h) = Reverse(h) /\ Clean(s) = Reverse(h)
  BY <1>2, <1>3, <1>5, CleanOf
<1>7. h = GetDaily(limit)
  BY <1>1, <1>2 DEF GetDaily
<1> QED
  BY <1>1, <1>3, <1>4, <1>6, <1>7, FirstsReach

\* getHistory() answers the latest bar of every day it reaches, newest first and without a gap,
\* and the chart shows those bars, for any days, bars of a day and limits.
THEOREM HistoryIsShown == HistorySpec => []ShownHistoryIsLatest
<1>1. HistoryInit => HistoryIInv
  BY HistoryInductive
<1>2. HistoryIInv /\ [HistoryNext]_historyVars => HistoryIInv'
  BY HistoryInductive
<1>3. HistoryIInv => ShownHistoryIsLatest
  BY HistoryShown
<1> QED
  BY <1>1, <1>2, <1>3, PTL DEF HistorySpec

-----------------------------------------------------------------------------
(* Profiles *)

Documents == [Fields -> Values \cup {Default}]

\* The message in the consumer's hand is the next one of the log, about a user, and only a
\* consumer that runs has one.
HandInLog ==
  hand.at # "free" => consumer.at = "running" /\ offset < Len(events) /\ hand.user \in Users

ProfilesIInv == ProfilesTypeOK /\ HandInLog /\ EntriesStay

\* An update sets values of the fields it names, and keeps or starts the others.
LEMMA PatchedType ==
  ASSUME NEW doc \in Documents \cup {NoProfile}, NEW patch \in Patches
  PROVE  Patched(doc, patch) \in Documents
BY DEF Patched, Patches, Documents

LEMMA BlankType == Blank \in Documents
BY DEF Blank, Documents

LEMMA Existing == \A d \in Documents : d # NoProfile
BY ProfilesAssumption DEF ProfilesAssumption, Documents, Fields

LEMMA BecomesType ==
  ASSUME NEW S, NEW at \in S, NEW w \in BOOLEAN, Becomes(at, w)
  PROVE  consumer' \in [at : S, watched : BOOLEAN]
BY Zenon DEF Becomes

LEMMA ProfilesInitHolds == ProfilesInit => ProfilesIInv
<1> SUFFICES ASSUME ProfilesInit PROVE ProfilesIInv
  OBVIOUS
<1>1. ProfilesTypeOK
  BY BlankType DEF ProfilesInit, ProfilesTypeOK, Free, Documents
<1>2. HandInLog
  BY DEF ProfilesInit, HandInLog, Free
<1>3. EntriesStay
  BY DEF ProfilesInit, EntriesStay, Blank
<1> QED
  BY <1>1, <1>2, <1>3 DEF ProfilesIInv

\* The steps of the consumer and its writer keep the types and the message in hand.
LEMMA ProfilesTypeStep ==
  ASSUME ProfilesIInv, [ProfilesNext]_profilesVars
  PROVE  ProfilesTypeOK' /\ HandInLog'
<1> USE DEF ProfilesIInv
<1>1. ASSUME NEW u \in Users, Register(u) \/ Write(u)
      PROVE  ProfilesTypeOK' /\ HandInLog'
  <2>1. CASE Register(u)
    BY <2>1 DEF Register, ProfilesTypeOK, HandInLog
  <2>2. CASE Write(u)
    <3>1. Append(events, u) \in Seq(Users) /\ Len(events) <= Len(Append(events, u))
      BY DEF ProfilesTypeOK
    <3>2. events' \in Seq(Users) /\ Len(events) <= Len(events')
      BY <2>2, <3>1 DEF Write, ProfilesTypeOK
    <3> QED
      BY <2>2, <3>2 DEF Write, ProfilesTypeOK, HandInLog
  <2> QED
    BY <1>1, <2>1, <2>2
<1>2. CASE StartConsumer
  <2>1. hand.at = "free"
    BY <1>2 DEF StartConsumer, HandInLog
  <2>2. {events[i] : i \in (offset + 1)..Len(events)} \subseteq Users
    BY DEF ProfilesTypeOK
  <2>3. offset' \in 0..Len(events) /\ missed' \subseteq Users
    BY <1>2, <2>2 DEF StartConsumer, Resume, SkipToEnd, ProfilesTypeOK
  <2>4. consumer' \in [at : {"running", "failed"}, watched : BOOLEAN]
    BY <1>2, BecomesType DEF StartConsumer, Start, Connected
  <2> QED
    BY <1>2, <2>1, <2>3, <2>4 DEF StartConsumer, ProfilesTypeOK, HandInLog
<1>3. CASE Deploy \/ Restart
  <2>1. hand.at = "free"
    BY <1>3 DEF Deploy, Restart, HandInLog
  <2>2. consumer.watched \in BOOLEAN
    BY DEF ProfilesTypeOK
  <2>3. consumer' \in [at : {"start", "restart"}, watched : BOOLEAN]
    BY <1>3, <2>2, BecomesType DEF Deploy, Restart
  <2> QED
    BY <1>3, <2>1, <2>3 DEF Deploy, Restart, ProfilesTypeOK, HandInLog
<1>4. CASE Crash
  BY <1>4 DEF Crash, Becomes, Free, ProfilesTypeOK, HandInLog
<1>5. CASE Poll
  <2>1. events[offset + 1] \in Users
    BY <1>5 DEF Poll, ProfilesTypeOK
  <2> QED
    BY <1>5, <2>1 DEF Poll, ProfilesTypeOK, HandInLog
<1>6. CASE CreateDefaultProfile
  <2>1. profile' \in [Users -> Documents \cup {NoProfile}] /\ missed' \subseteq Users
    BY <1>6, BlankType DEF CreateDefaultProfile, UpsertProfile, ProfilesTypeOK, HandInLog, Documents
  <2> QED
    BY <1>6, <2>1 DEF CreateDefaultProfile, ProfilesTypeOK, HandInLog, Documents
<1>7. CASE Commit
  BY <1>7 DEF Commit, Free, ProfilesTypeOK, HandInLog
<1>8. ASSUME NEW l \in Looks, CreateMine(l) \/ \E u \in Users : FindMine(l, u)
      PROVE  ProfilesTypeOK' /\ HandInLog'
  <2>1. profile' \in [Users -> Documents \cup {NoProfile}]
    BY <1>8, BlankType DEF CreateMine, FindMine, Insert, ProfilesTypeOK, Documents
  <2>2. look' \in [Looks -> [at : {"free", "create"}, user : Users \cup {NoUser}]]
    BY <1>8 DEF CreateMine, FindMine, Free, ProfilesTypeOK
  <2> QED
    BY <1>8, <2>1, <2>2 DEF CreateMine, FindMine, ProfilesTypeOK, HandInLog, Documents
<1>9. ASSUME NEW u \in Users, NEW patch \in Patches, UpdateMine(u, patch)
      PROVE  ProfilesTypeOK' /\ HandInLog'
  <2>1. profile[u] \in Documents \cup {NoProfile}
    BY DEF ProfilesTypeOK, Documents
  <2>2. profile' \in [Users -> Documents \cup {NoProfile}]
    BY <1>9, <2>1, PatchedType DEF UpdateMine, ProfilesTypeOK, Documents
  <2>3. [f \in Fields |-> IF f \in DOMAIN patch THEN patch[f] ELSE wanted[u][f]] \in Documents
    BY DEF Patches, ProfilesTypeOK, Documents
  <2>4. wanted' \in [Users -> Documents]
    BY <1>9, <2>3 DEF UpdateMine, ProfilesTypeOK, Documents
  <2> QED
    BY <1>9, <2>2, <2>4 DEF UpdateMine, ProfilesTypeOK, HandInLog, Documents
<1>10. CASE Unreachable \/ UNCHANGED profilesVars
  BY <1>10 DEF Unreachable, profilesVars, ProfilesTypeOK, HandInLog
<1> QED
  BY <1>1, <1>2, <1>3, <1>4, <1>5, <1>6, <1>7, <1>8, <1>9, <1>10 DEF ProfilesNext, ConsumerStep

\* A profile that is created where there was none holds nothing a user has entered yet.
LEMMA EntriesStep ==
  ASSUME ProfilesIInv, [ProfilesNext]_profilesVars
  PROVE  EntriesStay'
<1> USE DEF ProfilesIInv
<1>1. ASSUME NEW u, profile' = [profile EXCEPT ![u] = IF @ = NoProfile THEN Blank ELSE @], wanted' = wanted
      PROVE  EntriesStay'
  <2> SUFFICES ASSUME NEW v \in Users, NEW f \in Fields, wanted[v][f] # Default
               PROVE  profile'[v] # NoProfile /\ profile'[v][f] = wanted[v][f]
    BY <1>1 DEF EntriesStay
  <2>1. profile[v] # NoProfile /\ profile[v][f] = wanted[v][f]
    BY DEF EntriesStay
  <2>2. profile'[v] = profile[v]
    BY <1>1, <2>1 DEF ProfilesTypeOK
  <2> QED
    BY <2>1, <2>2
<1>2. ASSUME NEW u \in Users, NEW patch \in Patches, UpdateMine(u, patch)
      PROVE  EntriesStay'
  <2> SUFFICES ASSUME NEW v \in Users, NEW f \in Fields, wanted'[v][f] # Default
               PROVE  profile'[v] # NoProfile /\ profile'[v][f] = wanted'[v][f]
    BY DEF EntriesStay
  <2>1. profile[v] \in Documents \cup {NoProfile} /\ Patched(profile[u], patch) \in Documents
    BY PatchedType DEF ProfilesTypeOK, Documents
  <2>2. CASE v # u
    <3>1. wanted'[v] = wanted[v] /\ profile'[v] = profile[v]
      BY <1>2, <2>2 DEF UpdateMine, ProfilesTypeOK
    <3> QED
      BY <3>1 DEF EntriesStay
  <2>3. CASE v = u
    <3>1. profile'[v] = Patched(profile[v], patch)
      BY <1>2, <2>3 DEF UpdateMine, ProfilesTypeOK
    <3>2. wanted'[v][f] = IF f \in DOMAIN patch THEN patch[f] ELSE wanted[v][f]
      BY <1>2, <2>3 DEF UpdateMine, ProfilesTypeOK
    <3>3. profile'[v] # NoProfile
      BY <2>1, <2>3, <3>1, Existing
    <3>4. profile'[v][f] = IF f \in DOMAIN patch THEN patch[f]
                           ELSE IF profile[v] = NoProfile THEN Default ELSE profile[v][f]
      BY <3>1 DEF Patched
    <3>5. f \notin DOMAIN patch => profile[v] # NoProfile /\ profile[v][f] = wanted[v][f]
      BY <3>2 DEF EntriesStay
    <3> QED
      BY <3>2, <3>3, <3>4, <3>5
  <2> QED
    BY <2>2, <2>3
<1>3. CASE CreateDefaultProfile
  <2>1. CASE UpsertProfile(hand.user)
    BY <1>1, <1>3, <2>1 DEF CreateDefaultProfile, UpsertProfile
  <2> QED
    BY <1>3, <2>1 DEF CreateDefaultProfile, EntriesStay
<1>4. ASSUME NEW l \in Looks, CreateMine(l)
      PROVE  EntriesStay'
  <2>1. CASE Insert(look[l].user)
    BY <1>1, <1>4, <2>1 DEF CreateMine, Insert
  <2> QED
    BY <1>4, <2>1 DEF CreateMine, EntriesStay
<1>5. CASE UNCHANGED <<profile, wanted>>
  BY <1>5 DEF EntriesStay
<1> QED
  BY <1>2, <1>3, <1>4, <1>5
  DEF ProfilesNext, ConsumerStep, StartConsumer, Restart, Poll, Commit, Deploy, Crash, Unreachable,
      Register, Write, FindMine, profilesVars

\* The invariant that carries the two theorems.
THEOREM ProfilesInvariance == ProfilesSpec => []ProfilesIInv
<1>1. ProfilesIInv /\ [ProfilesNext]_profilesVars => ProfilesIInv'
  BY ProfilesTypeStep, EntriesStep DEF ProfilesIInv
<1> QED
  BY ProfilesInitHolds, <1>1, PTL DEF ProfilesSpec

\* Whatever the consumer, its crashes and the requests do, every variable has its type; no
\* offset passes the end of the log.
THEOREM TypeCorrect == ProfilesSpec => []ProfilesTypeOK
<1>1. ProfilesIInv => ProfilesTypeOK
  BY DEF ProfilesIInv
<1> QED
  BY ProfilesInvariance, <1>1, PTL

\* What a user entered stays, through any number of users, events and requests.
THEOREM EnteredValuesStay == ProfilesSpec => []EntriesStay
<1>1. ProfilesIInv => EntriesStay
  BY DEF ProfilesIInv
<1> QED
  BY ProfilesInvariance, <1>1, PTL

-----------------------------------------------------------------------------
(* SentimentPoll *)

Entries == [url : Urls, symbol : All]
Buffered(u) == \E a \in buffer : a.url = u

WorkOK ==
  /\ worker = [at |-> worker.at, ask |-> worker.ask, got |-> worker.got]
  /\ worker.got \in Seq(Entries)
  /\ worker.at \in {"save", "publish"} => worker.got # <<>>
  /\ news \subseteq Urls /\ buffer \subseteq Entries
  /\ articles \in [Urls -> All \cup {NoSymbol}] /\ signals \in [Urls -> Nat]

\* An article that is not saved has not been published; the one in hand is new until it is
\* saved, and not published before its turn; of a published one the buffer has one signal.
Unsaved == \A u \in Urls : articles[u] = NoSymbol => signals[u] = 0 /\ ~ Buffered(u)
InHand ==
  /\ worker.at = "save" => articles[Article.url] = NoSymbol
  /\ worker.at = "publish" => /\ articles[Article.url] # NoSymbol
                              /\ signals[Article.url] = 0 /\ ~ Buffered(Article.url)
BufferedOnce ==
  \A a \in buffer : signals[a.url] = 0 /\ \A b \in buffer : a.url = b.url => a = b

PollIInv == WorkOK /\ Unsaved /\ InHand /\ BufferedOnce /\ SignalledOnce

-----------------------------------------------------------------------------
\* The order of the worker's steps.
LEMMA Order ==
  /\ Proceeds("read") => worker' = [worker EXCEPT !.at = "save"]
  /\ Proceeds("save") => worker' = [worker EXCEPT !.at = "publish"]
  /\ Proceeds("publish") => worker' = [worker EXCEPT !.at = "read", !.got = Tail(@)]
<1>1. Len(Work) = 3 /\ Work[1] = "read" /\ Work[2] = "save" /\ Work[3] = "publish"
  BY DEF Work
<1>2. Last(Work) = "publish"
  BY <1>1 DEF Last
<1>3. /\ (CHOOSE i \in 1..Len(Work) : Work[i] = "read") = 1
      /\ (CHOOSE i \in 1..Len(Work) : Work[i] = "save") = 2
  BY <1>1
<1> QED
  BY <1>1, <1>2, <1>3 DEF Proceeds, Follows

\* What one request returns is a finite sequence of articles about the symbol asked for.
LEMMA FoundType ==
  ASSUME NEW s, NEW V \in SUBSET {u \in Urls : s \in About[u]},
         NEW found \in SetToSeqs({[url |-> u, symbol |-> s] : u \in V})
  PROVE  found \in Seq(Entries)
<1> DEFINE S == {[url |-> u, symbol |-> s] : u \in V}
           f == [u \in V |-> [url |-> u, symbol |-> s]]
<1>1. IsFiniteSet(V)
  BY FS_Subset, PollAssumption DEF PollAssumption
<1>2. f \in Surjection(V, S)
  BY DEF Surjection
<1>3. Cardinality(S) \in Nat
  BY <1>1, <1>2, FS_Surjection, FS_CardinalityType
<1>4. S \subseteq Entries
  BY PollAssumption DEF PollAssumption, Entries, All
<1>5. found \in [1..Cardinality(S) -> S]
  BY DEF SetToSeqs
<1>6. ASSUME NEW n \in Nat, NEW g \in [1..n -> Entries]
      PROVE  g \in Seq(Entries)
  OBVIOUS
<1>7. found \in [1..Cardinality(S) -> Entries]
  BY <1>4, <1>5
<1> QED
  BY <1>3, <1>6, <1>7

LEMMA PollInitHolds == PollInit => PollIInv
<1> SUFFICES ASSUME PollInit PROVE PollIInv
  OBVIOUS
<1>1. WorkOK
  BY DEF PollInit, WorkOK, Down, Sleeping
<1>2. Unsaved /\ InHand /\ BufferedOnce /\ SignalledOnce
  BY DEF PollInit, Unsaved, InHand, BufferedOnce, SignalledOnce, Buffered, Down, Sleeping
<1> QED
  BY <1>1, <1>2 DEF PollIInv

\* A step of the worker that touches no article, signal or buffer, and after which it has
\* nothing in hand.
LEMMA OnlyTheWorker ==
  ASSUME PollIInv, UNCHANGED <<articles, signals>>, buffer' \subseteq buffer, news' \subseteq Urls,
         worker' = [at |-> worker'.at, ask |-> worker'.ask, got |-> worker'.got],
         worker'.got \in Seq(Entries), worker'.at \notin {"save", "publish"}
  PROVE  PollIInv'
BY DEF PollIInv, WorkOK, Unsaved, InHand, BufferedOnce, SignalledOnce, Buffered

LEMMA FetchStep ==
  ASSUME PollIInv, Select \/ Fetch \/ Flush
  PROVE  PollIInv'
<1>1. WorkOK
  BY DEF PollIInv
<1>2. CASE Select
  BY <1>1, <1>2, OnlyTheWorker DEF Select, WorkOK
<1>3. CASE Fetch
  <2>1. CASE worker.ask = <<>> /\ worker' = [worker EXCEPT !.at = "read"]
    BY <1>1, <1>3, <2>1, OnlyTheWorker DEF Fetch, WorkOK
  <2>2. ASSUME NEW found \in SetToSeqs({[url |-> u, symbol |-> Head(worker.ask)] :
                                        u \in {v \in news : Head(worker.ask) \in About[v]}}),
               worker' = [worker EXCEPT !.ask = Tail(@), !.got = @ \o found]
        PROVE  PollIInv'
    <3>1. {v \in news : Head(worker.ask) \in About[v]} \in SUBSET {u \in Urls : Head(worker.ask) \in About[u]}
      BY <1>1 DEF WorkOK
    <3>2. found \in Seq(Entries)
      BY <3>1, FoundType
    <3>3. worker.got \o found \in Seq(Entries)
      BY <1>1, <3>2 DEF WorkOK
    <3>4. /\ worker' = [at |-> worker.at, ask |-> Tail(worker.ask), got |-> worker.got \o found]
          /\ worker.at = "fetch"
      BY <1>1, <1>3, <2>2 DEF WorkOK, Fetch
    <3> QED
      BY <1>1, <1>3, <3>3, <3>4, OnlyTheWorker DEF WorkOK, Fetch
  <2>3. CASE worker' = [Sleeping EXCEPT !.at = "read"]
    <3>1. worker' = [at |-> "read", ask |-> <<>>, got |-> <<>>]
      BY <2>3 DEF Sleeping
    <3>2. UNCHANGED <<articles, signals, buffer, news>>
      BY <1>3 DEF Fetch
    <3> QED
      BY <1>1, <3>1, <3>2, OnlyTheWorker DEF WorkOK
  <2> QED
    BY <1>3, <2>1, <2>2, <2>3 DEF Fetch
<1>4. CASE Flush
  BY <1>1, <1>4, OnlyTheWorker DEF Flush, Sleeping, WorkOK
<1> QED
  BY <1>2, <1>3, <1>4

LEMMA ReadStep ==
  ASSUME PollIInv, Read
  PROVE  PollIInv'
<1>1. WorkOK
  BY DEF PollIInv
<1>2. Article \in Entries /\ Tail(worker.got) \in Seq(Entries)
  BY <1>1 DEF Article, WorkOK, Read
<1>3. CASE articles[Article.url] = NoSymbol /\ Proceeds("read")
  <2>1. worker' = [at |-> "save", ask |-> worker.ask, got |-> worker.got]
    BY <1>1, <1>3, Order DEF WorkOK
  <2>2. WorkOK'
    BY <1>1, <2>1 DEF WorkOK, Read
  <2>3. InHand'
    BY <1>3, <2>1 DEF InHand, Article, Read
  <2> QED
    BY <2>2, <2>3 DEF PollIInv, Unsaved, BufferedOnce, SignalledOnce, Buffered, Read
<1>4. CASE worker' = [worker EXCEPT !.got = Tail(@)]
  <2>1. worker' = [at |-> worker.at, ask |-> worker.ask, got |-> Tail(worker.got)]
    BY <1>1, <1>4 DEF WorkOK
  <2> QED
    BY <1>1, <1>2, <2>1, OnlyTheWorker DEF Read, WorkOK
<1> QED
  BY <1>3, <1>4 DEF Read

LEMMA PollSaveStep ==
  ASSUME PollIInv, Save
  PROVE  PollIInv'
<1>1. WorkOK
  BY DEF PollIInv
<1>2. Article \in Entries
  BY <1>1 DEF Article, WorkOK, Save
<1>3. worker' = [at |-> "publish", ask |-> worker.ask, got |-> worker.got]
  BY <1>1, Order DEF WorkOK, Save
<1>4. articles' = [articles EXCEPT ![Article.url] = Article.symbol]
  BY DEF PollIInv, InHand, Save
<1>5. Article.url \in Urls /\ Article.symbol \in All /\ Article.symbol # NoSymbol
  BY <1>2, PollAssumption DEF Entries, PollAssumption, All
<1>6. WorkOK'
  BY <1>1, <1>3, <1>4, <1>5 DEF WorkOK, Save
<1>7. InHand'
  <2>1. Article' = Article
    BY <1>3 DEF Article
  <2>2. articles'[Article.url] = Article.symbol
    BY <1>1, <1>4, <1>5 DEF WorkOK
  <2>3. signals[Article.url] = 0 /\ ~ Buffered(Article.url)
    BY <1>5 DEF PollIInv, InHand, Unsaved, Save
  <2> QED
    BY <1>3, <1>5, <2>1, <2>2, <2>3 DEF InHand, Buffered, Save
<1>8. Unsaved'
  BY <1>1, <1>4, <1>5 DEF PollIInv, Unsaved, Buffered, WorkOK, Save
<1> QED
  BY <1>6, <1>7, <1>8 DEF PollIInv, BufferedOnce, SignalledOnce, Save

LEMMA ProduceStep ==
  ASSUME PollIInv, Produce
  PROVE  PollIInv'
<1>1. WorkOK
  BY DEF PollIInv
<1>2. Article \in Entries /\ Tail(worker.got) \in Seq(Entries)
  BY <1>1 DEF Article, WorkOK, Produce
<1>3. worker' = [at |-> "read", ask |-> worker.ask, got |-> Tail(worker.got)]
  BY <1>1, Order DEF WorkOK, Produce
<1>4. WorkOK'
  BY <1>1, <1>2, <1>3 DEF WorkOK, Produce
<1>5. Unsaved'
  BY DEF PollIInv, InHand, Unsaved, Buffered, Produce
<1>6. BufferedOnce'
  BY DEF PollIInv, InHand, BufferedOnce, Buffered, Produce
<1> QED
  BY <1>3, <1>4, <1>5, <1>6 DEF PollIInv, InHand, SignalledOnce, Produce

LEMMA SendStep ==
  ASSUME PollIInv, Send
  PROVE  PollIInv'
<1>1. PICK a \in buffer : /\ buffer' = buffer \ {a}
                          /\ \/ signals' = [signals EXCEPT ![a.url] = @ + 1]
                             \/ ~ fine /\ UNCHANGED signals
  BY DEF Send
<1>2. /\ a.url \in Urls /\ signals[a.url] = 0 /\ articles[a.url] # NoSymbol
      /\ \A b \in buffer : b.url = a.url => b = a
  BY DEF PollIInv, WorkOK, Entries, BufferedOnce, Unsaved, Buffered
<1>3. /\ signals' \in [Urls -> Nat] /\ signals'[a.url] \in {0, 1}
      /\ \A u \in Urls : u # a.url => signals'[u] = signals[u]
  BY <1>1, <1>2 DEF PollIInv, WorkOK
<1>4. WorkOK'
  BY <1>1, <1>3 DEF PollIInv, WorkOK, Send
<1>5. Unsaved'
  BY <1>1, <1>2, <1>3 DEF PollIInv, Unsaved, Buffered, Send
<1>6. InHand'
  <2>1. worker.at \in {"save", "publish"} => Article \in Entries
    BY DEF PollIInv, WorkOK, Article
  <2>2. worker.at = "publish" => Article.url # a.url
    BY <1>1 DEF PollIInv, InHand, Buffered
  <2> QED
    BY <1>1, <1>3, <2>1, <2>2 DEF PollIInv, InHand, Entries, Buffered, Article, Send
<1>7. BufferedOnce'
  BY <1>1, <1>2, <1>3 DEF PollIInv, WorkOK, Entries, BufferedOnce
<1>8. SignalledOnce'
  BY <1>3 DEF PollIInv, SignalledOnce
<1> QED
  BY <1>4, <1>5, <1>6, <1>7, <1>8 DEF PollIInv

\* The rest: the process ends and starts, and what happens outside it.
LEMMA OutsideStep ==
  ASSUME PollIInv, \/ WorkerEnds \/ WorkerStarts \/ DayEnds \/ Outage \/ UNCHANGED pollVars
               \/ (\E u \in Urls : Appears(u)) \/ (\E s \in All : UsersChange(s))
  PROVE  PollIInv'
<1>1. CASE WorkerEnds \/ WorkerStarts
  <2>1. \E at \in {"down", "sleep"} : worker' = [at |-> at, ask |-> <<>>, got |-> <<>>]
    BY <1>1 DEF WorkerEnds, WorkerStarts, Down, Sleeping
  <2>2. UNCHANGED <<articles, signals, news>> /\ buffer' \subseteq buffer
    BY <1>1 DEF WorkerEnds, WorkerStarts
  <2> QED
    BY <2>1, <2>2, OnlyTheWorker DEF PollIInv, WorkOK
<1>2. CASE \/ DayEnds \/ Outage \/ UNCHANGED pollVars
           \/ (\E u \in Urls : Appears(u)) \/ (\E s \in All : UsersChange(s))
  <2>1. UNCHANGED <<worker, articles, buffer, signals>> /\ news' \subseteq Urls
    BY <1>2 DEF PollIInv, WorkOK, DayEnds, Outage, Appears, UsersChange, pollVars
  <2> QED
    BY <2>1 DEF PollIInv, WorkOK, Unsaved, InHand, BufferedOnce, SignalledOnce, Buffered, Article
<1> QED
  BY <1>1, <1>2

-----------------------------------------------------------------------------
\* The invariant: what is known of an article at each step of the worker.
THEOREM PollInvariance == PollSpec => []PollIInv
<1>1. PollIInv /\ [PollNext]_pollVars => PollIInv'
  BY FetchStep, ReadStep, PollSaveStep, ProduceStep, SendStep, OutsideStep DEF PollNext, Loop
<1> QED
  BY PollInitHolds, <1>1, PTL DEF PollSpec

-----------------------------------------------------------------------------
(* SentimentPoll: the rotation through the symbols. *)

ChoiceOK ==
  /\ users \subseteq All /\ polled \subseteq All /\ fine \in BOOLEAN /\ cursor \in 0..Len(Baseline)
  /\ worker.at \in {"down", "sleep", "fetch", "read", "save", "publish"} /\ worker.ask \in Seq(All)

\* A poll asks for symbols, at most as many as it may, and the cursor stays within the list.
LEMMA Rotation ==
  ASSUME ChoiceOK, NEW known
  PROVE  Own(known) \o Turned(known) \in Seq(All) /\ NextCursor(known) \in 0..Len(Baseline)
<1>1. PICK rest : rest = Rest(known)
  OBVIOUS
<1>2. rest \in Seq(All) /\ Len(rest) \in 0..Len(Baseline)
  BY <1>1, AmongOf, PollAssumption DEF Rest, PollAssumption, All
<1>3. Own(known) \in Seq(All) /\ Len(Own(known)) \in 0..MaxPerPoll
  <2>1. PICK mine : mine = Among(Ordered, known)
    OBVIOUS
  <2>2. mine \in Seq(All)
    BY <2>1, AmongOf, PollAssumption DEF PollAssumption, All
  <2>3. PICK n \in Nat : n = (IF Len(mine) < MaxPerPoll THEN Len(mine) ELSE MaxPerPoll)
    BY <2>2, PollAssumption DEF PollAssumption
  <2>4. n <= Len(mine) /\ n <= MaxPerPoll
    BY <2>2, <2>3, PollAssumption DEF PollAssumption
  <2>5. Own(known) = SubSeq(mine, 1, n)
    BY <2>1, <2>3 DEF Own
  <2>6. SubSeq(mine, 1, n) \in Seq(All) /\ Len(SubSeq(mine, 1, n)) = n
    BY <2>2, <2>4
  <2> QED
    BY <2>4, <2>5, <2>6, PollAssumption DEF PollAssumption
<1>4. PICK w : w = Window(known)
  OBVIOUS
<1>5. w \in 0..Len(rest)
  BY <1>1, <1>2, <1>3, <1>4, PollAssumption DEF Window, PollAssumption
<1>6. \A c \in Nat : w # 0 => c % Len(rest) \in 0..(Len(rest) - 1)
  BY <1>2, <1>5
<1>7. Turned(known) \in Seq(All)
  <2>1. Turned(known) = [i \in 1..w |-> rest[1 + ((cursor + i - 1) % Len(rest))]]
    BY <1>1, <1>4 DEF Turned
  <2>2. ASSUME NEW i \in 1..w PROVE rest[1 + ((cursor + i - 1) % Len(rest))] \in All
    <3>1. cursor + i - 1 \in Nat /\ w # 0
      BY <1>5 DEF ChoiceOK
    <3>2. PICK r : r = (cursor + i - 1) % Len(rest)
      OBVIOUS
    <3>3. r \in 0..(Len(rest) - 1)
      BY <1>6, <3>1, <3>2
    <3>4. 1 + r \in 1..Len(rest)
      BY <1>2, <3>3
    <3> QED
      BY <1>2, <3>2, <3>4
  <2> QED
    BY <1>2, <1>5, <2>1, <2>2
<1>8. NextCursor(known) \in 0..Len(Baseline)
  <2>1. NextCursor(known) = IF w = 0 THEN cursor ELSE ((cursor % Len(rest)) + w) % Len(rest)
    BY <1>1, <1>4 DEF NextCursor, Advance
  <2>2. CASE w = 0
    BY <2>1, <2>2 DEF ChoiceOK
  <2>3. CASE w # 0
    <3>1. PICK c : c = cursor % Len(rest)
      OBVIOUS
    <3>2. c + w \in Nat
      BY <1>2, <1>5, <1>6, <2>3, <3>1 DEF ChoiceOK
    <3>3. PICK r : r = (c + w) % Len(rest)
      OBVIOUS
    <3>4. r \in 0..(Len(rest) - 1)
      BY <1>6, <2>3, <3>2, <3>3
    <3> QED
      BY <1>2, <2>1, <2>3, <3>1, <3>3, <3>4
  <2> QED
    BY <2>2, <2>3
<1> QED
  BY <1>3, <1>7, <1>8

LEMMA ChoiceStep == PollIInv /\ ChoiceOK /\ [PollNext]_pollVars => ChoiceOK'
<1> SUFFICES ASSUME PollIInv, ChoiceOK, [PollNext]_pollVars PROVE ChoiceOK'
  OBVIOUS
<1>0. worker = [at |-> worker.at, ask |-> worker.ask, got |-> worker.got]
  BY DEF PollIInv, WorkOK
<1>1. CASE Select
  <2>1. PICK known : LET chosen == Own(known) \o Turned(known) IN
                       /\ worker' = [at |-> "fetch", ask |-> chosen, got |-> <<>>]
                       /\ polled' = Range(chosen)
                       /\ cursor' = NextCursor(known)
    BY <1>1 DEF Select
  <2>2. PICK chosen : chosen = Own(known) \o Turned(known)
    OBVIOUS
  <2>3. chosen \in Seq(All) /\ cursor' \in 0..Len(Baseline)
    BY <2>1, <2>2, Rotation
  <2>4. worker' = [at |-> "fetch", ask |-> chosen, got |-> <<>>] /\ polled' = Range(chosen)
    BY <2>1, <2>2
  <2>5. polled' \subseteq All
    BY <2>3, <2>4 DEF Range
  <2> QED
    BY <1>1, <2>3, <2>4, <2>5 DEF ChoiceOK, Select
<1>2. CASE Fetch
  <2>1. UNCHANGED <<users, polled, fine, cursor>>
    BY <1>2 DEF Fetch
  <2>2. worker'.at \in {"fetch", "read"} /\ worker'.ask \in Seq(All)
    <3>1. CASE worker.ask = <<>> /\ worker' = [worker EXCEPT !.at = "read"]
      BY <1>0, <3>1 DEF ChoiceOK
    <3>2. ASSUME worker.ask # <<>>, NEW found, worker' = [worker EXCEPT !.ask = Tail(@), !.got = @ \o found]
          PROVE  worker'.at \in {"fetch", "read"} /\ worker'.ask \in Seq(All)
      <4>1. worker'.at = worker.at /\ worker'.ask = Tail(worker.ask)
        BY <1>0, <3>2
      <4>2. Tail(worker.ask) \in Seq(All)
        BY <3>2 DEF ChoiceOK
      <4> QED
        BY <1>2, <4>1, <4>2 DEF Fetch
    <3>3. CASE worker' = [Sleeping EXCEPT !.at = "read"]
      BY <3>3 DEF Sleeping
    <3> QED
      BY <1>2, <3>1, <3>2, <3>3 DEF Fetch
  <2> QED
    BY <2>1, <2>2 DEF ChoiceOK
<1>3. CASE Read \/ Save \/ Produce
  <2>1. UNCHANGED <<users, polled, fine, cursor>>
    BY <1>3 DEF Read, Save, Produce
  <2>2. worker'.ask = worker.ask /\ worker'.at \in {"read", "save", "publish"}
    BY <1>0, <1>3, Order DEF Read, Save, Produce
  <2> QED
    BY <2>1, <2>2 DEF ChoiceOK
<1>4. CASE Flush \/ WorkerEnds \/ WorkerStarts
  <2>1. \E at \in {"down", "sleep"} : worker' = [at |-> at, ask |-> <<>>, got |-> <<>>]
    BY <1>4 DEF Flush, WorkerEnds, WorkerStarts, Down, Sleeping
  <2>2. UNCHANGED <<users, polled, fine>> /\ cursor' \in {0, cursor}
    BY <1>4 DEF Flush, WorkerEnds, WorkerStarts
  <2>3. 0 \in 0..Len(Baseline)
    BY PollAssumption DEF PollAssumption
  <2> QED
    BY <2>1, <2>2, <2>3 DEF ChoiceOK
<1>5. CASE Send \/ DayEnds \/ Outage \/ UNCHANGED pollVars \/ \E u \in Urls : Appears(u)
  BY <1>5 DEF Send, DayEnds, Outage, pollVars, Appears, ChoiceOK
<1>6. CASE \E s \in All : UsersChange(s)
  BY <1>6 DEF UsersChange, ChoiceOK
<1> QED
  BY <1>1, <1>2, <1>3, <1>4, <1>5, <1>6 DEF PollNext, Loop

\* Type correctness of the worker: the cursor stays within the baseline, and a poll asks for
\* symbols, however the lists of symbols overlap and the users' symbols change.
THEOREM PollTypeCorrect == PollSpec => []PollTypeOK
<1>1. PollInit => ChoiceOK
  BY PollAssumption DEF PollInit, ChoiceOK, Down, Sleeping, PollAssumption
<1>2. Range(Work) = {"read", "save", "publish"}
  BY DEF Range, Work
<1>3. PollIInv /\ ChoiceOK => PollTypeOK
  BY <1>2 DEF PollIInv, WorkOK, ChoiceOK, PollTypeOK, Entries
<1> QED
  BY PollInvariance, ChoiceStep, <1>1, <1>3, PTL DEF PollSpec

\* An article is signalled at most once, for any number of articles, symbols and polls, and
\* wherever the worker ends and starts again.
THEOREM ArticlesAreSignalledOnce == PollSpec => []SignalledOnce
<1>1. PollIInv => SignalledOnce
  BY DEF PollIInv
<1> QED
  BY PollInvariance, <1>1, PTL

-----------------------------------------------------------------------------
(* BrowserTab *)

Called == [op : Protected \cup {"none", "mount", "profile", "load", "login", "verify", "logout"},
           as : Members \cup {Nobody}, of : Members \cup {Nobody},
           status : {"sent", "heard", "ok", "challenge", "expired", "refused", "error", "lost"},
           beside : {"none", "sent", "ok", "expired"}]
TabState == [user : Members \cup {Nobody}, asks : BOOLEAN, page : {"public", "login", "protected"}]

\* What a call carries: a login is of a member, a call of a guest does not find a session
\* expired, one that went well for a member is of the user it left as, and only a load has
\* a call beside it and may have been heard before that one.
CallSane(c) ==
  /\ call[c].op = "login" => call[c].of \in Members
  /\ Guest(c) => call[c].status # "expired"
  /\ ~ Guest(c) /\ call[c].status = "ok" => call[c].of = call[c].as
  /\ call[c].status = "heard" => call[c].op = "load" /\ call[c].of \in {Nobody, call[c].as}
  /\ call[c].beside # "none" => call[c].op = "load"

TabIInv ==
  /\ TabTypeOK /\ \A c \in Calls : CallSane(c)
  /\ unheard => jar = Nobody
  /\ ShownUserHasTheCookies

LEMMA TabTypes ==
  TabTypeOK <=>
    /\ jar \in Members \cup {Nobody} /\ ticket \in Members \cup {Nobody} /\ live \subseteq Members
    /\ tab \in TabState /\ call \in [Calls -> Called]
    /\ online \in BOOLEAN /\ unheard \in BOOLEAN /\ lapped \in BOOLEAN
BY DEF TabTypeOK, TabState, Called

LEMMA SentIs ==
  ASSUME NEW op \in Protected \cup {"mount", "profile", "load", "login", "verify", "logout"},
         NEW as \in Members \cup {Nobody}, NEW of \in Members \cup {Nobody}
  PROVE  /\ Sent(op, as, of) \in Called /\ Sent(op, as, of).op = op /\ Sent(op, as, of).as = as
         /\ Sent(op, as, of).of = of /\ Sent(op, as, of).status = "sent"
         /\ Sent(op, as, of).beside # "none" => op = "load"
BY DEF Sent, Called

LEMMA NoneIs ==
  None \in Called /\ None.op = "none" /\ None.status = "sent" /\ None.beside = "none"
BY DEF None, Called

LEMMA FreshIs ==
  ASSUME NEW page \in {"public", "login", "protected"}
  PROVE  Fresh(page) \in TabState /\ Fresh(page).user = Nobody
BY DEF Fresh, TabState

LEMMA DocumentIs ==
  ASSUME NEW cookie \in Members \cup {Nobody}
  PROVE  /\ Document(cookie) \in [Calls -> Called]
         /\ \A c \in Calls : \/ Document(cookie)[c] = None
                             \/ Document(cookie)[c] = Sent("mount", cookie, Nobody)
<1>1. Sent("mount", cookie, Nobody) \in Called
  BY SentIs
<1> QED
  BY <1>1, NoneIs DEF Document

\* A document that starts shows nobody, and asks with the cookies of now.
LEMMA DocumentStep ==
  ASSUME TabIInv, NEW page \in {"public", "login", "protected"},
         tab' = Fresh(page), call' = Document(jar'), lapped' \in BOOLEAN, unheard' \in BOOLEAN,
         unheard' => jar' = Nobody,
         jar' \in Members \cup {Nobody}, ticket' \in Members \cup {Nobody}, UNCHANGED <<live, online>>
  PROVE  TabIInv'
<1> DEFINE first == Sent("mount", jar', Nobody)
<1>1. /\ tab' \in TabState /\ tab'.user = Nobody
      /\ call' \in [Calls -> Called] /\ \A c \in Calls : call'[c] = None \/ call'[c] = first
  BY FreshIs, DocumentIs
<1>2. first.op = "mount" /\ first.status = "sent" /\ first.beside = "none"
  BY DEF Sent
<1> HIDE DEF first
<1>3. \A c \in Calls : CallSane(c)'
  BY <1>1, <1>2, NoneIs DEF CallSane, Guest
<1>4. TabTypeOK'
  BY <1>1 DEF TabIInv, TabTypeOK, TabState, Called
<1>5. ShownUserHasTheCookies'
  BY <1>1 DEF ShownUserHasTheCookies
<1> QED
  BY <1>3, <1>4, <1>5 DEF TabIInv

LEMMA TabInitHolds == TabInit => TabIInv
<1> SUFFICES ASSUME TabInit  PROVE TabIInv
  OBVIOUS
<1>1. tab \in TabState /\ tab.user = Nobody /\ \A c \in Calls : call[c] = None
  BY FreshIs DEF TabInit
<1>2. TabTypeOK
  BY <1>1, NoneIs, TabTypes DEF TabInit
<1>3. \A c \in Calls : CallSane(c)
  BY <1>1, NoneIs DEF CallSane, Guest
<1>4. ShownUserHasTheCookies /\ ~ unheard
  BY <1>1 DEF ShownUserHasTheCookies, TabInit
<1> QED
  BY <1>2, <1>3, <1>4 DEF TabIInv

LEMMA BeginStep ==
  ASSUME TabIInv, NEW c \in Calls, NEW op \in Protected \cup {"login", "verify", "logout"},
         NEW of \in Members \cup {Nobody}, op = "login" => of \in Members, Begin(c, op, jar, of)
  PROVE  TabIInv'
<1> DEFINE sent == Sent(op, jar, of)
<1>1. /\ jar \in Members \cup {Nobody} /\ call \in [Calls -> Called] /\ Unused(c)
      /\ call' = [call EXCEPT ![c] = sent] /\ UNCHANGED <<jar, ticket, live, tab, online, unheard, lapped>>
  BY TabTypes DEF TabIInv, Begin
<1>2. /\ sent \in Called /\ sent.op = op /\ sent.as = jar /\ sent.of = of /\ sent.status = "sent"
      /\ op \notin {"load"} /\ sent.beside = "none"
  BY <1>1, SentIs DEF Protected
<1> HIDE DEF sent
<1>3. /\ call' \in [Calls -> Called] /\ \A d \in Calls \ {c} : call'[d] = call[d]
      /\ call'[c] = sent
  BY <1>1, <1>2
<1>4. \A d \in Calls : CallSane(d)'
  BY <1>2, <1>3 DEF TabIInv, CallSane, Guest
<1>5. TabTypeOK'
  BY <1>1, <1>3 DEF TabIInv, TabTypeOK, Called
<1>6. ShownUserHasTheCookies'
  BY <1>1, <1>3 DEF TabIInv, ShownUserHasTheCookies, Calling, Unused
<1> QED
  BY <1>1, <1>4, <1>5, <1>6 DEF TabIInv

\* A service answers: the call stays what it was, and of whom it was sent as.
LEMMA TabServeStep ==
  ASSUME TabIInv, NEW c \in Calls, Serve(c)
  PROVE  TabIInv'
<1>1. /\ call \in [Calls -> Called] /\ ~ Unused(c) /\ live \subseteq Members /\ CallSane(c)
      /\ UNCHANGED <<jar, ticket, tab, online, unheard, lapped>>
  BY TabTypes DEF TabIInv, Serve
<1>2. PICK status \in {"ok", "challenge", "expired", "refused", "error", "lost"}, of \in Members \cup {Nobody} :
        /\ Replies(c, status, of) /\ live' \subseteq Members
        /\ call[c].op = "login" => of \in Members
        /\ Guest(c) => status # "expired"
        /\ ~ Guest(c) /\ status = "ok" => of = call[c].as
  <2> DEFINE Right(status, of) ==
               /\ status \in {"ok", "challenge", "expired", "refused", "error", "lost"} /\ of \in Members \cup {Nobody}
               /\ Replies(c, status, of) /\ live' \subseteq Members
               /\ call[c].op = "login" => of \in Members
               /\ Guest(c) => status # "expired"
               /\ ~ Guest(c) /\ status = "ok" => of = call[c].as
  <2>1. call[c].as \in Members \cup {Nobody} /\ call[c].of \in Members \cup {Nobody}
    BY <1>1 DEF Called
  <2>2. CASE call[c].op = "login" /\ ServeLogin(c)
    <3>1. \E status \in {"ok", "challenge", "refused", "error"} : Right(status, call[c].of)
      BY <1>1, <2>1, <2>2 DEF ServeLogin, CallSane, Guest
    <3> QED
      BY <3>1
  <2>3. CASE call[c].op = "verify" /\ ServeVerify(c)
    <3>1. \E status \in {"ok", "refused", "error"} : Right(status, call[c].of)
      BY <1>1, <2>1, <2>3 DEF ServeVerify, Guest
    <3> QED
      BY <3>1
  <2>4. CASE call[c].op = "logout" /\ ServeLogout(c)
    <3>1. Right("ok", Nobody)
      BY <1>1, <2>4 DEF ServeLogout, Guest
    <3> QED
      BY <3>1
  <2>5. CASE ~ Guest(c) /\ ServeMember(c)
    <3>1. \E status \in {"ok", "refused", "error"} : Right(status, call[c].as)
      BY <1>1, <2>1, <2>5 DEF ServeMember, Guest
    <3> QED
      BY <3>1
  <2>6. CASE ~ Guest(c) /\ Replies(c, "expired", Nobody) /\ UNCHANGED live
    <3>1. Right("expired", Nobody)
      BY <1>1, <2>6 DEF Guest
    <3> QED
      BY <3>1
  <2>7. CASE \E status \in {"error", "lost"} : Replies(c, status, call[c].of) /\ UNCHANGED live
    <3>1. \E status \in {"error", "lost"} : Right(status, call[c].of)
      BY <1>1, <2>1, <2>7 DEF CallSane
    <3> QED
      BY <3>1
  <2> QED
    BY <2>2, <2>3, <2>4, <2>5, <2>6, <2>7 DEF Serve
<1>3. /\ call' \in [Calls -> Called] /\ \A d \in Calls \ {c} : call'[d] = call[d]
      /\ call'[c].op = call[c].op /\ call'[c].as = call[c].as /\ call'[c].beside = call[c].beside
      /\ call'[c].of = of /\ call'[c].status = status
  <2>1. [call[c] EXCEPT !.status = status, !.of = of] \in Called
    BY <1>1 DEF Called
  <2>2. call' = [call EXCEPT ![c] = [call[c] EXCEPT !.status = status, !.of = of]]
    BY <1>2 DEF Replies
  <2> QED
    BY <1>1, <2>1, <2>2 DEF Called
<1>4. \A d \in Calls : CallSane(d)'
  BY <1>1, <1>2, <1>3 DEF TabIInv, CallSane, Guest
<1>5. TabTypeOK'
  BY <1>1, <1>2, <1>3 DEF TabIInv, TabTypeOK, Called
<1>6. ShownUserHasTheCookies'
  BY <1>1, <1>3 DEF TabIInv, ShownUserHasTheCookies, Calling
<1> QED
  BY <1>1, <1>4, <1>5, <1>6 DEF TabIInv

LEMMA ServeBesideStep ==
  ASSUME TabIInv, NEW c \in Calls, ServeBeside(c)
  PROVE  TabIInv'
<1>1. /\ call \in [Calls -> Called] /\ call[c].beside = "sent"
      /\ UNCHANGED <<jar, ticket, live, tab, online, unheard, lapped>>
  BY TabTypes DEF TabIInv, ServeBeside
<1>2. PICK answer \in {"ok", "expired"} : call' = [call EXCEPT ![c] = [call[c] EXCEPT !.beside = answer]]
  BY <1>1 DEF ServeBeside
<1>3. [call[c] EXCEPT !.beside = answer] \in Called
  BY <1>1 DEF Called
<1>4. /\ call' \in [Calls -> Called] /\ \A d \in Calls \ {c} : call'[d] = call[d]
      /\ call'[c].op = call[c].op /\ call'[c].as = call[c].as /\ call'[c].of = call[c].of
      /\ call'[c].status = call[c].status
  BY <1>1, <1>2, <1>3 DEF Called
<1>5. \A d \in Calls : CallSane(d)'
  BY <1>1, <1>4 DEF TabIInv, CallSane, Guest
<1>6. TabTypeOK'
  BY <1>1, <1>4 DEF TabIInv, TabTypeOK, Called
<1>7. ShownUserHasTheCookies'
  BY <1>1, <1>4 DEF TabIInv, ShownUserHasTheCookies, Calling
<1> QED
  BY <1>1, <1>5, <1>6, <1>7 DEF TabIInv

\* What an answer leaves in the cookies: the session it signs in, nothing, what they held,
\* or the session it left with.
LEMMA CookiesAre ==
  ASSUME TabIInv, NEW c \in Calls, NEW status, SetCookies(c, status)
  PROVE  /\ jar' \in Members \cup {Nobody} /\ unheard' \in BOOLEAN /\ (unheard' => jar' = Nobody)
         /\ \/ Signs(c, status)
            \/ Leaves(c, status) /\ jar' = Nobody
            \/ ~ Signs(c, status) /\ ~ Leaves(c, status) /\ jar' \in {jar, call[c].as}
<1>1. /\ jar \in Members \cup {Nobody} /\ unheard \in BOOLEAN
      /\ call[c].as \in Members \cup {Nobody} /\ call[c].of \in Members \cup {Nobody}
  BY TabTypes DEF TabIInv, Called
<1> QED
  BY <1>1 DEF SetCookies, Renewed

\* An answer that signs nobody in and shows nobody new: what empties the cookies empties the
\* tab, or is a read that is not heard.
LEMMA ShownKept ==
  ASSUME TabIInv, NEW c \in Calls, NEW status, SetCookies(c, status), Lapses(c),
         ~ Signs(c, status), tab'.user \in {Nobody, tab.user},
         Leaves(c, status) =>
           tab'.user = Nobody \/ (status = "expired" /\ call[c].op \in {"mount", "load", "profile"}),
         call[c].op # "load", \A d \in Calls \ {c} : call'[d] = call[d]
  PROVE  ShownUserHasTheCookies'
<1> SUFFICES ASSUME ~ lapped', ~ Calling({"load"})', tab'.user # Nobody
             PROVE  tab'.user = jar' \/ (unheard' /\ jar' = Nobody)
  BY DEF ShownUserHasTheCookies
<1>1. /\ jar \in Members \cup {Nobody} /\ lapped \in BOOLEAN /\ unheard \in BOOLEAN
      /\ tab'.user = tab.user
  BY TabTypes DEF TabIInv
<1>2. ~ lapped /\ ~ (call[c].as \notin {Nobody, jar} /\ jar' = call[c].as)
  BY DEF Lapses
<1>3. ~ Calling({"load"})
  BY DEF Calling
<1>4. tab.user = jar \/ (unheard /\ jar = Nobody)
  BY <1>1, <1>2, <1>3 DEF TabIInv, ShownUserHasTheCookies
<1>5. CASE Leaves(c, status)
  BY <1>1, <1>5 DEF SetCookies
<1>6. CASE ~ Leaves(c, status)
  <2>1. jar' = jar
    BY <1>2, <1>6 DEF SetCookies, Renewed
  <2> QED
    BY <1>1, <1>4, <2>1 DEF SetCookies
<1> QED
  BY <1>5, <1>6

\* An answer that shows its user: the cookies are that user's, unless it was late or a read
\* that was not heard has emptied them.
LEMMA ShownSet ==
  ASSUME TabIInv, NEW c \in Calls, NEW status, SetCookies(c, status), Lapses(c),
         call[c].op \in {"mount", "load"}, tab'.user \in {Nobody, call[c].as}
  PROVE  ShownUserHasTheCookies'
<1> SUFFICES ASSUME ~ lapped', tab'.user = call[c].as, tab'.user # Nobody
             PROVE  tab'.user = jar' \/ (unheard' /\ jar' = Nobody)
  BY DEF ShownUserHasTheCookies
<1>1. jar \in Members \cup {Nobody} /\ unheard \in BOOLEAN /\ (unheard => jar = Nobody)
  BY TabTypes DEF TabIInv
<1>2. call[c].as = jar \/ (unheard /\ jar' # call[c].as)
  BY DEF Lapses
<1>3. CASE status = "expired"
  BY <1>3 DEF SetCookies, Signs, Leaves
<1>4. CASE status # "expired"
  <2>1. jar' \in {jar, call[c].as}
    BY <1>4 DEF SetCookies, Signs, Leaves, Renewed
  <2> QED
    BY <1>1, <1>2, <2>1 DEF SetCookies
<1> QED
  BY <1>3, <1>4

\* What an answer does: the call ends, or goes on to load the user it signed in, to read the
\* profile, or to await the call beside it.
LEMMA DeliverStep ==
  ASSUME TabIInv, NEW c \in Calls, Deliver(c)
  PROVE  TabIInv'
<1> DEFINE a == call[c]
           status == call[c].status
           next(op) == Sent(op, jar', Nobody)
           heard == [a EXCEPT !.status = "heard", !.of = IF Ok(c) THEN a.of ELSE Nobody]
<1>1. /\ call \in [Calls -> Called] /\ tab \in TabState /\ ~ Unused(c) /\ CallSane(c)
      /\ jar \in Members \cup {Nobody} /\ ticket \in Members \cup {Nobody} /\ live \subseteq Members
      /\ unheard \in BOOLEAN /\ lapped \in BOOLEAN /\ online \in BOOLEAN
      /\ SetCookies(c, status) /\ SetTicket(c) /\ Lapses(c) /\ UNCHANGED <<live, online>>
  BY TabTypes DEF TabIInv, Deliver
<1>2. a \in Called /\ a.as \in Members \cup {Nobody} /\ a.of \in Members \cup {Nobody}
  BY <1>1 DEF Called
<1>3. /\ jar' \in Members \cup {Nobody} /\ unheard' \in BOOLEAN /\ (unheard' => jar' = Nobody)
      /\ ticket' \in Members \cup {Nobody} /\ lapped' \in BOOLEAN
  <2>1. ticket' \in Members \cup {Nobody}
    BY <1>1, <1>2 DEF SetTicket
  <2>2. lapped' \in BOOLEAN
    BY <1>1 DEF Lapses
  <2> QED
    BY <1>1, <2>1, <2>2, CookiesAre
<1>4. CASE a.op = "read" /\ Unauthorized(c)
  BY <1>1, <1>3, <1>4, DocumentStep DEF Deliver, ReadPage
<1>5. ASSUME ~ (a.op = "read" /\ Unauthorized(c))  PROVE TabIInv'
  <2>1. /\ next("load") \in Called /\ next("load").op = "load" /\ next("load").status = "sent"
        /\ next("profile") \in Called /\ next("profile").op = "profile" /\ next("profile").status = "sent"
        /\ next("profile").beside = "none"
    BY <1>3, SentIs
  <2>2. /\ heard \in Called /\ heard.op = a.op /\ heard.as = a.as /\ heard.status = "heard"
        /\ heard.of = (IF Ok(c) THEN a.of ELSE Nobody) /\ heard.beside = a.beside
    BY <1>2 DEF Called
  <2> HIDE DEF next, heard
  <2>3. \/ call' = [call EXCEPT ![c] = None] /\ ~ Signs(c, status)
        \/ call' = [call EXCEPT ![c] = next("load")] /\ Signs(c, status)
        \/ call' = [call EXCEPT ![c] = next("profile")] /\ a.op = "mount"
        \/ call' = [call EXCEPT ![c] = heard] /\ a.op = "load"
    <3>1. CASE a.op = "load"
      BY <3>1, <1>1 DEF Deliver, LoadUserData, Loaded, Ends, Signs, heard
    <3>2. CASE a.op # "load"
      BY <3>2, <1>1, <1>5 DEF Deliver, Mount, ReadProfile, Login, VerifyMFALogin, Logout, Change,
         DeleteAccount, ReadPage, Ends, Continues, Ok, Signs, next
    <3> QED
      BY <3>1, <3>2
  <2>4. /\ call' \in [Calls -> Called] /\ \A d \in Calls \ {c} : call'[d] = call[d]
        /\ \/ call'[c] = None /\ ~ Signs(c, status)
           \/ call'[c] = next("load")
           \/ call'[c] = next("profile")
           \/ call'[c] = heard /\ a.op = "load"
        /\ Signs(c, status) => call'[c].op = "load"
    BY <1>1, <2>1, <2>2, <2>3, NoneIs DEF Signs
  <2>5. \A d \in Calls : CallSane(d)'
    <3>1. ASSUME call'[c] = heard, a.op = "load"  PROVE CallSane(c)'
      BY <1>1, <2>2, <3>1 DEF CallSane, Guest, Ok
    <3>2. ASSUME call'[c] \in {None, next("load"), next("profile")}  PROVE CallSane(c)'
      BY <2>1, <3>2, NoneIs DEF CallSane, Guest
    <3>3. ASSUME NEW d \in Calls \ {c}  PROVE CallSane(d)'
      BY <2>4, <3>3 DEF TabIInv, CallSane, Guest
    <3> QED
      BY <2>4, <3>1, <3>2, <3>3
  <2>6. /\ tab' \in TabState
        /\ a.op \notin {"mount", "load"} => tab'.user \in {Nobody, tab.user}
        /\ a.op \in {"logout", "change", "delete"} /\ Leaves(c, status) => tab'.user = Nobody
        /\ a.op = "mount" => \/ tab'.user = a.as
                             \/ tab'.user = tab.user
        /\ a.op = "load" => \/ call'[c] = heard
                            \/ tab'.user \in {Nobody, a.as}
    <3>1. CASE a.op = "mount"
      BY <1>1, <1>2, <3>1 DEF Deliver, Mount, Ok, TabState, CallSane, Guest
    <3>2. CASE a.op = "load"
      BY <1>1, <1>2, <3>2 DEF Deliver, LoadUserData, Loaded, Ok, TabState, CallSane, Guest, heard
    <3>3. CASE a.op = "login"
      BY <1>1, <3>3 DEF Deliver, Login, TabState
    <3>4. CASE a.op = "verify"
      BY <1>1, <3>4 DEF Deliver, VerifyMFALogin, TabState
    <3>5. CASE a.op = "logout"
      BY <1>1, <3>5 DEF Deliver, Logout, ClearSession, TabState
    <3>6. CASE a.op = "change"
      BY <1>1, <3>6 DEF Deliver, Change, AuthedFetch, Unauthorized, ClearSession, TabState, Leaves
    <3>7. CASE a.op = "delete"
      BY <1>1, <3>7 DEF Deliver, DeleteAccount, AuthedFetch, Unauthorized, ClearSession, Ok, TabState, Leaves
    <3>8. CASE a.op \in {"read", "profile"}
      BY <1>1, <1>5, <3>8 DEF Deliver, ReadPage, ReadProfile
    <3> QED
      BY <1>1, <3>1, <3>2, <3>3, <3>4, <3>5, <3>6, <3>7, <3>8 DEF Deliver
  <2>7. TabTypeOK'
    BY <1>1, <1>3, <2>4, <2>6 DEF TabIInv, TabTypeOK, TabState, Called
  <2>8. ShownUserHasTheCookies'
    <3>1. CASE \E d \in Calls : call'[d].op = "load"
      BY <3>1 DEF ShownUserHasTheCookies, Calling
    <3>2. CASE ~ \E d \in Calls : call'[d].op = "load"
      <4>1. (~ Signs(c, status) /\ call'[c] # heard) \/ a.op # "load"
        BY <2>2, <2>4, <3>2
      <4>2. ~ Signs(c, status)
        BY <2>4, <3>2
      <4>3. CASE a.op = "load"
        BY <1>1, <2>6, <4>1, <4>3, ShownSet
      <4>4. CASE a.op = "mount" /\ tab'.user = a.as
        BY <1>1, <4>4, ShownSet
      <4>5. CASE a.op # "load" /\ ~ (a.op = "mount" /\ tab'.user = a.as)
        <5>1. tab'.user \in {Nobody, tab.user}
          BY <2>6, <4>5
        <5>2. Leaves(c, status) => tab'.user = Nobody \/ (status = "expired" /\ a.op \in {"mount", "load", "profile"})
          <6>1. status = "expired" => a.op \in {"mount", "profile", "load", "change", "delete", "read"}
            BY <1>1, <1>2 DEF CallSane, Guest, Unused, Called, Protected
          <6> QED
            BY <1>5, <2>6, <6>1 DEF Leaves, Unauthorized
        <5> QED
          BY <1>1, <2>4, <4>2, <4>5, <5>1, <5>2, ShownKept
      <4> QED
        BY <4>3, <4>4, <4>5
    <3> QED
      BY <3>1, <3>2
  <2> QED
    BY <1>3, <2>5, <2>7, <2>8 DEF TabIInv
<1> QED
  BY <1>4, <1>5

LEMMA DeliverBesideStep ==
  ASSUME TabIInv, NEW c \in Calls, DeliverBeside(c)
  PROVE  TabIInv'
<1> DEFINE a == call[c]
           status == call[c].beside
           left == [a EXCEPT !.beside = "none"]
<1>1. /\ call \in [Calls -> Called] /\ tab \in TabState /\ CallSane(c) /\ status \in {"ok", "expired"}
      /\ jar \in Members \cup {Nobody} /\ ticket \in Members \cup {Nobody} /\ live \subseteq Members
      /\ unheard \in BOOLEAN /\ lapped \in BOOLEAN /\ online \in BOOLEAN
      /\ SetCookies(c, status) /\ LoadedBeside(c) /\ Lapses(c) /\ UNCHANGED <<ticket, live, online>>
  BY TabTypes DEF TabIInv, DeliverBeside
<1>2. a \in Called /\ a.as \in Members \cup {Nobody} /\ a.op = "load"
  BY <1>1 DEF Called, CallSane
<1>3. jar' \in Members \cup {Nobody} /\ unheard' \in BOOLEAN /\ (unheard' => jar' = Nobody) /\ lapped' \in BOOLEAN
  BY <1>1, CookiesAre DEF Lapses
<1>4. /\ left \in Called /\ left.op = a.op /\ left.as = a.as /\ left.of = a.of /\ left.status = a.status
      /\ left.beside = "none"
  BY <1>2 DEF Called
<1> HIDE DEF left
<1>5. /\ \/ call' = [call EXCEPT ![c] = None] /\ tab'.user \in {Nobody, a.as}
         \/ call' = [call EXCEPT ![c] = left] /\ tab' = tab
      /\ tab' \in TabState
  BY <1>1, <1>2 DEF LoadedBeside, Loaded, Ends, CallSane, TabState, left
<1>6. /\ call' \in [Calls -> Called] /\ \A d \in Calls \ {c} : call'[d] = call[d]
      /\ call'[c] \in {None, left}
  BY <1>1, <1>4, <1>5, NoneIs
<1>7. \A d \in Calls : CallSane(d)'
  <2>1. CallSane(c)'
    BY <1>1, <1>2, <1>4, <1>6, NoneIs DEF CallSane, Guest
  <2> QED
    BY <1>6, <2>1 DEF TabIInv, CallSane, Guest
<1>8. TabTypeOK'
  BY <1>1, <1>3, <1>5, <1>6 DEF TabIInv, TabTypeOK, TabState, Called
<1>9. ShownUserHasTheCookies'
  <2>1. CASE tab'.user \in {Nobody, a.as}
    BY <1>1, <1>2, <2>1, ShownSet
  <2>2. CASE tab'.user \notin {Nobody, a.as}
    <3>1. call'[c].op = "load"
      BY <1>1, <1>2, <1>4, <1>5, <2>2
    <3> QED
      BY <3>1 DEF ShownUserHasTheCookies, Calling
  <2> QED
    BY <2>1, <2>2
<1> QED
  BY <1>3, <1>7, <1>8, <1>9 DEF TabIInv

LEMMA AroundStep ==
  ASSUME TabIInv,
         \/ \E page \in {"public", "login", "protected"} : Navigate(page) \/ Reload(page)
         \/ Redirect \/ TabOutage \/ UNCHANGED tabVars
         \/ (\E u \in Members \cup {Nobody} : OtherTab(u)) \/ (\E u \in Members : SessionEnds(u))
  PROVE  TabIInv'
<1>1. ASSUME UNCHANGED <<jar, call, unheard, lapped>>, tab' \in TabState, tab'.user = tab.user,
             ticket' = ticket, live' \subseteq Members, online' \in BOOLEAN
      PROVE  TabIInv'
  <2>1. TabTypeOK'
    BY <1>1 DEF TabIInv, TabTypeOK, TabState
  <2>2. \A c \in Calls : CallSane(c)'
    BY <1>1 DEF TabIInv, CallSane, Guest
  <2> QED
    BY <1>1, <2>1, <2>2 DEF TabIInv, ShownUserHasTheCookies, Calling
<1>2. /\ tab \in TabState /\ live \subseteq Members /\ online \in BOOLEAN
      /\ jar \in Members \cup {Nobody} /\ ticket \in Members \cup {Nobody}
  BY TabTypes DEF TabIInv
<1>3. ASSUME NEW page \in {"public", "login", "protected"}, Navigate(page)  PROVE TabIInv'
  <2>1. Reached(page) \in {"public", "login", "protected"}
    BY DEF Reached
  <2> QED
    BY <1>1, <1>2, <1>3, <2>1 DEF Navigate, TabState
<1>4. ASSUME NEW page \in {"public", "login", "protected"}, Reload(page)  PROVE TabIInv'
  <2>1. Reached(page) \in {"public", "login", "protected"}
    BY DEF Reached
  <2>2. /\ tab' = Fresh(Reached(page)) /\ call' = Document(jar') /\ lapped' \in BOOLEAN
        /\ unheard' \in BOOLEAN /\ (unheard' => jar' = Nobody)
        /\ jar' \in Members \cup {Nobody} /\ ticket' \in Members \cup {Nobody} /\ UNCHANGED <<live, online>>
    BY <1>2, <1>4 DEF Reload
  <2> QED
    BY <2>1, <2>2, DocumentStep
<1>5. CASE Redirect
  BY <1>1, <1>2, <1>5 DEF Redirect, TabState
<1>6. CASE TabOutage
  BY <1>1, <1>2, <1>6 DEF TabOutage
<1>7. CASE UNCHANGED tabVars
  BY <1>1, <1>2, <1>7 DEF tabVars
<1>8. ASSUME NEW u \in Members \cup {Nobody}, OtherTab(u)  PROVE TabIInv'
  <2>1. TabTypeOK'
    BY <1>2, <1>8 DEF OtherTab, TabIInv, TabTypeOK
  <2>2. \A c \in Calls : CallSane(c)'
    BY <1>8 DEF OtherTab, TabIInv, CallSane, Guest
  <2> QED
    BY <1>8, <2>1, <2>2 DEF OtherTab, TabIInv, ShownUserHasTheCookies
<1>9. ASSUME NEW u \in Members, SessionEnds(u)  PROVE TabIInv'
  BY <1>1, <1>2, <1>9 DEF SessionEnds
<1> QED
  BY <1>3, <1>4, <1>5, <1>6, <1>7, <1>8, <1>9

\* The invariant that carries the two theorems.
THEOREM TabInvariance == TabSpec => []TabIInv
<1>1. ASSUME TabIInv, NEW c \in Calls,
             \/ SubmitCode(c) \/ SignOut(c)
             \/ (\E u \in Members : SubmitCredentials(c, u)) \/ (\E op \in Protected : UsePage(c, op))
      PROVE  TabIInv'
  <2>1. ticket \in Members \cup {Nobody}
    BY <1>1, TabTypes DEF TabIInv
  <2>2. "login" \notin Protected
    BY DEF Protected
  <2>3. CASE SubmitCode(c)
    BY <1>1, <2>1, <2>3, BeginStep DEF SubmitCode
  <2>4. CASE SignOut(c)
    BY <1>1, <2>4, BeginStep DEF SignOut
  <2>5. ASSUME NEW u \in Members, SubmitCredentials(c, u)  PROVE TabIInv'
    BY <1>1, <2>5, BeginStep DEF SubmitCredentials
  <2>6. ASSUME NEW op \in Protected, UsePage(c, op)  PROVE TabIInv'
    BY <1>1, <2>2, <2>6, BeginStep DEF UsePage
  <2> QED
    BY <1>1, <2>3, <2>4, <2>5, <2>6
<1>2. TabIInv /\ [TabNext]_tabVars => TabIInv'
  BY <1>1, TabServeStep, ServeBesideStep, DeliverStep, DeliverBesideStep, AroundStep DEF TabNext
<1> QED
  BY TabInitHolds, <1>2, PTL DEF TabSpec

\* The tab, its calls and the cookies have their types.
THEOREM TabTypeCorrect == TabSpec => []TabTypeOK
<1>1. TabIInv => TabTypeOK
  BY DEF TabIInv
<1> QED
  BY TabInvariance, <1>1, PTL

\* The tab shows nobody but the user of the cookies, for any number of members and of calls
\* under way: unless a sign-in is about to show its user, a read that was not heard emptied
\* the cookies, or a late answer or another tab brought others.
THEOREM ShownUserIsSignedIn == TabSpec => []ShownUserHasTheCookies
<1>1. TabIInv => ShownUserHasTheCookies
  BY DEF TabIInv
<1> QED
  BY TabInvariance, <1>1, PTL

-----------------------------------------------------------------------------
(* Predictor *)

Messages == [symbol : Symbols, horizon : Range(Horizons), run : Runs]
Working == {"model", "begin", "predict"}
ThreadStates == [at : {"idle", "model", "begin", "predict", "over", "down"},
                 todo : Seq(Symbols), run : Runs \cup {NoRun}, step : Steps]
ThreadSane(x) ==
  /\ x \in ThreadStates
  /\ x.at \in Working => x.todo # <<>>
  /\ x.at \in {"model", "begin"} => x.step = 1
  /\ x.at = "predict" => x.run \in Runs
ThreadsSane == thread = [t \in Threads |-> thread[t]] /\ \A t \in Threads : ThreadSane(thread[t])

\* A thread that a call of ensureTracking() will start is at rest until then, and no thread
\* is left when the process has stopped.
AtRest ==
  /\ \A v \in Visits : visit[v].at # "away" =>
       thread[v].at \in {"idle", "down"} /\ visit[v].symbol \in Symbols
  /\ ~ Up => \A t \in Threads : thread[t] = Off

\* What a thread, a message or the shown signal tells of a symbol.
On(t, s) == Busy(t) /\ Current(t) = s
SaysOf(s, sig, i) == topic[i].symbol = s => topic[i].horizon = sig.horizon /\ topic[i].run = sig.run
NoneOf(s, i) == \A j \in i + 1 .. Len(topic) : topic[j].symbol # s
LastHeard(s, sig) ==
  /\ \A i \in 1..Len(topic) : NoneOf(s, i) => SaysOf(s, sig, i)
  /\ (\A i \in 1..Len(topic) : topic[i].symbol # s) => shown[s] \in {NoSignal, sig}

\* The run of a symbol that nothing came across has written its first k - 1 horizons, and the
\* last message about the symbol, or else the page, tells of the last of these.
RunAt(s, k) ==
  /\ \A t \in Threads : On(t, s) => thread[t].step = k /\ thread[t].run = "last"
  /\ (\A t \in Threads : ~ On(t, s)) => k = Len(Horizons) + 1
  /\ \A i \in Steps : i < k => stored[s][i] = "last"
  /\ k > 1 => LastHeard(s, [horizon |-> Horizons[k - 1], run |-> "last"])
SoloRun(s) ==
  /\ \A t, u \in Threads : On(t, s) /\ On(u, s) => t = u
  /\ \E k \in 1..Len(Horizons) + 1 : RunAt(s, k)

PredictorIInv ==
  /\ PredictorTypeOK /\ topic \in Seq(Messages) /\ ThreadsSane /\ AtRest
  /\ \A s \in solo : SoloRun(s)

LEMMA TrackedType ==
  ASSUME NEW users0
  PROVE  Tracked(users0) \in Seq(Symbols)
<1>1. Among(Alphabet, users0) \in Seq(Symbols)
  BY AmongOf, PredictorAssumption
<1>2. Among(BaseSymbols, Range(BaseSymbols) \ users0) \in Seq(Symbols)
  BY AmongOf, PredictorAssumption
<1> QED
  BY <1>1, <1>2 DEF Tracked

LEMMA HorizonFacts ==
  /\ Len(Horizons) \in Nat \ {0} /\ Steps = 1..Len(Horizons) /\ 1 \in Steps
  /\ \A i \in Steps : Horizons[i] \in Range(Horizons)
<1>1. Len(Horizons) \in Nat \ {0} /\ DOMAIN Horizons = 1..Len(Horizons)
  BY PredictorAssumption
<1> QED
  BY <1>1 DEF Steps, Range

LEMMA RestingSane ==
  /\ ThreadSane(Idle) /\ ThreadSane(Ended) /\ ThreadSane(Off)
  /\ \A t \in Threads : ThreadSane(Over(t)) /\ Over(t).at # "predict"
  /\ \A q \in Seq(Symbols) : ThreadSane(Starts(q)) /\ Starts(q).at # "predict"
<1>1. /\ Idle = [at |-> "idle", todo |-> <<>>, run |-> NoRun, step |-> 1]
      /\ Ended = [at |-> "over", todo |-> <<>>, run |-> NoRun, step |-> 1]
      /\ Off = [at |-> "down", todo |-> <<>>, run |-> NoRun, step |-> 1]
  BY DEF Idle, Ended, Off
<1>2. <<>> \in Seq(Symbols)
  OBVIOUS
<1>3. ThreadSane(Idle) /\ ThreadSane(Ended) /\ ThreadSane(Off)
  BY <1>1, <1>2, HorizonFacts DEF ThreadSane, ThreadStates, Working
<1>4. ASSUME NEW q \in Seq(Symbols)  PROVE ThreadSane(Starts(q)) /\ Starts(q).at # "predict"
  <2>1. CASE q = <<>>
    BY <1>1, <1>3, <2>1 DEF Starts
  <2>2. CASE q # <<>>
    <3>1. Starts(q) = [at |-> "model", todo |-> q, run |-> NoRun, step |-> 1]
      BY <1>1, <2>2 DEF Starts
    <3> QED
      BY <2>2, <3>1, HorizonFacts DEF ThreadSane, ThreadStates, Working
  <2> QED
    BY <2>1, <2>2
<1> QED
  BY <1>1, <1>3, <1>4 DEF Over

LEMMA NextSane ==
  ASSUME NEW t \in Threads, ThreadSane(thread[t]), thread[t].at \in Working
  PROVE  /\ ThreadSane(NextSymbol(t)) /\ NextSymbol(t).at # "predict"
         /\ Current(t) \in Symbols
<1>1. thread[t].todo \in Seq(Symbols) /\ thread[t].todo # <<>>
  BY DEF ThreadSane, ThreadStates
<1>2. Tail(thread[t].todo) \in Seq(Symbols) /\ Current(t) \in Symbols
  BY <1>1 DEF Current
<1> QED
  BY <1>2, RestingSane DEF NextSymbol

\* A thread goes somewhere; the others stay.
LEMMA GoesSane ==
  ASSUME ThreadsSane, NEW t \in Threads, NEW x, ThreadSane(x), Goes(t, x)
  PROVE  ThreadsSane' /\ thread'[t] = x /\ \A u \in Threads \ {t} : thread'[u] = thread[u]
BY DEF Goes, ThreadsSane

-----------------------------------------------------------------------------
(* The order of the messages. *)

LEMMA HeardAppended ==
  ASSUME topic \in Seq(Messages), NEW m \in Messages, topic' = Append(topic, m), NEW s
  PROVE  /\ topic' \in Seq(Messages)
         /\ m.symbol = s => LastHeard(s, [horizon |-> m.horizon, run |-> m.run])'
         /\ \A sig : m.symbol # s /\ LastHeard(s, sig) /\ shown'[s] = shown[s] => LastHeard(s, sig)'
<1>1. /\ topic' \in Seq(Messages) /\ Len(topic) \in Nat /\ Len(topic') = Len(topic) + 1
      /\ topic'[Len(topic) + 1] = m
      /\ \A i \in 1..Len(topic) : topic'[i] = topic[i]
  OBVIOUS
<1>2. ASSUME m.symbol = s  PROVE LastHeard(s, [horizon |-> m.horizon, run |-> m.run])'
  <2> DEFINE sig == [horizon |-> m.horizon, run |-> m.run]
  <2>1. ASSUME NEW i \in 1..Len(topic'), \A j \in i + 1 .. Len(topic') : topic'[j].symbol # s
        PROVE  topic'[i].horizon = sig.horizon /\ topic'[i].run = sig.run
    <3>1. i = Len(topic')
      BY <1>1, <1>2, <2>1
    <3> QED
      BY <1>1, <3>1
  <2>2. ~ \A i \in 1..Len(topic') : topic'[i].symbol # s
    BY <1>1, <1>2
  <2> QED
    BY <2>1, <2>2 DEF LastHeard, NoneOf, SaysOf
<1>3. ASSUME NEW sig, m.symbol # s, LastHeard(s, sig), shown'[s] = shown[s]
      PROVE  LastHeard(s, sig)'
  <2>1. ASSUME NEW i \in 1..Len(topic'), \A j \in i + 1 .. Len(topic') : topic'[j].symbol # s,
               topic'[i].symbol = s
        PROVE  topic'[i].horizon = sig.horizon /\ topic'[i].run = sig.run
    <3>1. i \in 1..Len(topic) /\ topic[i].symbol = s
      BY <1>1, <1>3, <2>1
    <3>2. \A j \in i + 1 .. Len(topic) : topic[j].symbol # s
      BY <1>1, <2>1
    <3> QED
      BY <1>1, <1>3, <3>1, <3>2 DEF LastHeard, NoneOf, SaysOf
  <2>2. ASSUME \A i \in 1..Len(topic') : topic'[i].symbol # s
        PROVE  shown'[s] \in {NoSignal, sig}
    <3>1. \A i \in 1..Len(topic) : topic[i].symbol # s
      BY <1>1, <2>2
    <3> QED
      BY <1>3, <3>1 DEF LastHeard
  <2> QED
    BY <2>1, <2>2 DEF LastHeard, NoneOf, SaysOf
<1> QED
  BY <1>1, <1>2, <1>3

LEMMA HeardHandled ==
  ASSUME topic \in Seq(Messages), topic # <<>>, topic' = Tail(topic), NEW s, NEW sig,
         sig = [horizon |-> sig.horizon, run |-> sig.run],
         LastHeard(s, sig),
         IF Head(topic).symbol = s
         THEN shown'[s] = [horizon |-> Head(topic).horizon, run |-> Head(topic).run]
         ELSE shown'[s] = shown[s]
  PROVE  LastHeard(s, sig)'
<1>1. /\ Len(topic) \in Nat \ {0} /\ Len(topic') = Len(topic) - 1 /\ Head(topic) = topic[1]
      /\ \A i \in 1..Len(topic') : topic'[i] = topic[i + 1]
  OBVIOUS
<1>2. ASSUME NEW i \in 1..Len(topic'), \A j \in i + 1 .. Len(topic') : topic'[j].symbol # s,
             topic'[i].symbol = s
      PROVE  topic'[i].horizon = sig.horizon /\ topic'[i].run = sig.run
  <2>1. i + 1 \in 1..Len(topic) /\ topic[i + 1].symbol = s
    BY <1>1, <1>2
  <2>2. ASSUME NEW j \in (i + 1) + 1 .. Len(topic)  PROVE topic[j].symbol # s
    <3>1. j - 1 \in i + 1 .. Len(topic') /\ topic'[j - 1] = topic[(j - 1) + 1] /\ (j - 1) + 1 = j
      BY <1>1, <2>2
    <3> QED
      BY <1>2, <3>1
  <2> QED
    BY <1>1, <2>1, <2>2 DEF LastHeard, NoneOf, SaysOf
<1>3. ASSUME \A i \in 1..Len(topic') : topic'[i].symbol # s
      PROVE  shown'[s] \in {NoSignal, sig}
  <2>1. ASSUME NEW j \in 2..Len(topic)  PROVE topic[j].symbol # s
    <3>1. j - 1 \in 1..Len(topic') /\ topic'[j - 1] = topic[(j - 1) + 1] /\ (j - 1) + 1 = j
      BY <1>1, <2>1
    <3> QED
      BY <1>3, <3>1
  <2>2. CASE topic[1].symbol = s
    <3>1. topic[1].horizon = sig.horizon /\ topic[1].run = sig.run
      BY <1>1, <2>1, <2>2 DEF LastHeard, NoneOf, SaysOf
    <3> QED
      BY <1>1, <2>2, <3>1
  <2>3. CASE topic[1].symbol # s
    <3>1. \A i \in 1..Len(topic) : topic[i].symbol # s
      BY <1>1, <2>1, <2>3
    <3> QED
      BY <1>1, <2>3, <3>1 DEF LastHeard
  <2> QED
    BY <2>2, <2>3
<1> QED
  BY <1>2, <1>3 DEF LastHeard, NoneOf, SaysOf

LEMMA HeardLost ==
  ASSUME topic \in Seq(Messages), NEW n \in 1..Len(topic), topic' = RemoveAt(topic, n), NEW s, NEW sig,
         topic[n].symbol # s, LastHeard(s, sig), shown'[s] = shown[s]
  PROVE  LastHeard(s, sig)'
<1>1. /\ Len(topic) \in Nat \ {0} /\ Len(topic') = Len(topic) - 1
      /\ \A i \in 1..Len(topic') : topic'[i] = IF i < n THEN topic[i] ELSE topic[i + 1]
  <2> DEFINE before == SubSeq(topic, 1, n - 1)
             after == SubSeq(topic, n + 1, Len(topic))
  <2>1. Len(topic) \in Nat \ {0} /\ n \in 1..Len(topic)
    OBVIOUS
  <2>2. /\ before \in Seq(Messages) /\ Len(before) = n - 1
        /\ \A i \in 1..n - 1 : before[i] = topic[i]
    BY <2>1
  <2>3. /\ after \in Seq(Messages) /\ Len(after) = Len(topic) - n
        /\ \A i \in 1..Len(topic) - n : after[i] = topic[n + i]
    BY <2>1
  <2>4. topic' = before \o after
    BY DEF RemoveAt
  <2> HIDE DEF before, after
  <2>5. /\ Len(topic') = (n - 1) + (Len(topic) - n)
        /\ \A i \in 1..Len(topic') : topic'[i] = IF i <= n - 1 THEN before[i] ELSE after[i - (n - 1)]
    <3>1. ASSUME NEW a \in Seq(Messages), NEW b \in Seq(Messages)
          PROVE  /\ Len(a \o b) = Len(a) + Len(b)
                 /\ \A i \in 1..Len(a) + Len(b) :
                      (a \o b)[i] = IF i <= Len(a) THEN a[i] ELSE b[i - Len(a)]
      OBVIOUS
    <3>2. /\ Len(topic') = Len(before) + Len(after)
          /\ \A i \in 1..Len(before) + Len(after) :
               topic'[i] = IF i <= Len(before) THEN before[i] ELSE after[i - Len(before)]
      BY <2>2, <2>3, <2>4, <3>1
    <3> QED
      BY <2>2, <2>3, <3>2
  <2>6. ASSUME NEW i \in 1..Len(topic')
        PROVE  topic'[i] = IF i < n THEN topic[i] ELSE topic[i + 1]
    <3>1. CASE i < n
      BY <2>1, <2>2, <2>5, <2>6, <3>1
    <3>2. CASE ~ (i < n)
      <4>1. i - (n - 1) \in 1..Len(topic) - n /\ n + (i - (n - 1)) = i + 1 /\ ~ (i <= n - 1)
        BY <2>1, <2>5, <2>6, <3>2
      <4>2. topic'[i] = after[i - (n - 1)]
        BY <2>5, <2>6, <4>1
      <4> QED
        BY <2>3, <3>2, <4>1, <4>2
    <3> QED
      BY <3>1, <3>2
  <2> QED
    BY <2>1, <2>5, <2>6
<1> DEFINE Was(i) == IF i < n THEN i ELSE i + 1
<1>2. \A i \in 1..Len(topic') : Was(i) \in 1..Len(topic) /\ topic'[i] = topic[Was(i)]
  BY <1>1
<1>3. ASSUME NEW j \in 1..Len(topic), j # n
      PROVE  \E i \in 1..Len(topic') : Was(i) = j
  <2>1. CASE j < n
    <3>1. j \in 1..Len(topic') /\ Was(j) = j
      BY <1>1, <2>1
    <3> QED
      BY <3>1
  <2>2. CASE j > n
    <3>1. j - 1 \in 1..Len(topic') /\ Was(j - 1) = j
      BY <1>1, <2>2
    <3> QED
      BY <3>1
  <2> QED
    BY <1>3, <2>1, <2>2
<1>4. \A i, j \in 1..Len(topic') : Was(i) < Was(j) => i < j
  BY <1>1
<1> HIDE DEF Was
<1>5. ASSUME NEW i \in 1..Len(topic'), \A j \in i + 1 .. Len(topic') : topic'[j].symbol # s,
             topic'[i].symbol = s
      PROVE  topic'[i].horizon = sig.horizon /\ topic'[i].run = sig.run
  <2>1. ASSUME NEW j \in Was(i) + 1 .. Len(topic)  PROVE topic[j].symbol # s
    <3>1. CASE j = n
      BY <3>1
    <3>2. CASE j # n
      <4>1. j \in 1..Len(topic) /\ Was(i) < j
        BY <1>1, <1>2, <2>1
      <4>2. PICK k \in 1..Len(topic') : Was(k) = j
        BY <1>3, <3>2, <4>1
      <4>3. k \in i + 1 .. Len(topic')
        BY <1>1, <1>4, <4>1, <4>2
      <4> QED
        BY <1>2, <1>5, <4>2, <4>3
    <3> QED
      BY <3>1, <3>2
  <2> QED
    BY <1>2, <1>5, <2>1 DEF LastHeard, NoneOf, SaysOf
<1>6. ASSUME \A i \in 1..Len(topic') : topic'[i].symbol # s
      PROVE  shown'[s] \in {NoSignal, sig}
  <2>1. \A j \in 1..Len(topic) : topic[j].symbol # s
    BY <1>2, <1>3, <1>6
  <2> QED
    BY <2>1 DEF LastHeard
<1> QED
  BY <1>5, <1>6 DEF LastHeard, NoneOf, SaysOf

\* Other messages grow older.
LEMMA HeardAged ==
  ASSUME topic \in Seq(Messages), NEW o, topic' = [i \in 1..Len(topic) |-> AgedOf(o, topic[i])]
  PROVE  /\ topic' \in Seq(Messages) /\ Len(topic') = Len(topic)
         /\ \A s, sig : s # o /\ LastHeard(s, sig) /\ shown'[s] = shown[s] => LastHeard(s, sig)'
<1>1. \A i \in 1..Len(topic) : topic[i] \in Messages /\ AgedOf(o, topic[i]) \in Messages
  <2>1. ASSUME NEW m \in Messages  PROVE AgedOf(o, m) \in Messages
    <3>1. Aged(m.run) \in Runs
      BY DEF Aged, Runs, Messages
    <3> QED
      BY <3>1 DEF AgedOf, Messages
  <2> QED
    BY <2>1
<1>2. topic' \in Seq(Messages) /\ Len(topic') = Len(topic) /\ Len(topic) \in Nat
  BY <1>1
<1>3. \A i \in 1..Len(topic) : /\ topic'[i].symbol = topic[i].symbol
                               /\ topic'[i].symbol # o => topic'[i] = topic[i]
  BY <1>1 DEF AgedOf, Messages
<1>4. ASSUME NEW s, NEW sig, s # o, LastHeard(s, sig), shown'[s] = shown[s]
      PROVE  LastHeard(s, sig)'
  <2>1. ASSUME NEW i \in 1..Len(topic), NoneOf(s, i)'  PROVE NoneOf(s, i)
    <3>1. ASSUME NEW j \in i + 1 .. Len(topic)  PROVE topic[j].symbol # s
      <4>1. j \in 1..Len(topic) /\ j \in i + 1 .. Len(topic')
        BY <1>2, <3>1
      <4> QED
        BY <1>3, <2>1, <4>1 DEF NoneOf
    <3> QED
      BY <3>1 DEF NoneOf
  <2> QED
    BY <1>2, <1>3, <1>4, <2>1 DEF LastHeard, SaysOf
<1> QED
  BY <1>2, <1>4

-----------------------------------------------------------------------------
(* The steps. *)

\* A step that leaves the threads on a symbol, its stored runs and its last word alone.
LEMMA SoloKept ==
  ASSUME NEW s, SoloRun(s),
         \A t \in Threads : (On(t, s)' <=> On(t, s)) /\ (On(t, s) => thread'[t] = thread[t]),
         stored'[s] = stored[s],
         \A h, r : LastHeard(s, [horizon |-> h, run |-> r]) => LastHeard(s, [horizon |-> h, run |-> r])'
  PROVE  SoloRun(s)'
<1>1. PICK k \in 1..Len(Horizons) + 1 : RunAt(s, k)
  BY DEF SoloRun
<1>2. RunAt(s, k)'
  BY <1>1 DEF RunAt
<1> QED
  BY <1>1, <1>2 DEF SoloRun

\* No message, no run, no thread.
LEMMA HeardSame ==
  ASSUME UNCHANGED topic, NEW s, shown'[s] \in {shown[s], NoSignal}
  PROVE  \A sig : LastHeard(s, sig) => LastHeard(s, sig)'
BY DEF LastHeard, NoneOf, SaysOf

LEMMA SameRuns ==
  ASSUME UNCHANGED <<thread, stored, topic, shown>>, NEW s, SoloRun(s)
  PROVE  SoloRun(s)'
<1>1. \A sig : LastHeard(s, sig) => LastHeard(s, sig)'
  BY HeardSame
<1> QED
  BY <1>1, SoloKept DEF On, Busy, Current

LEMMA QuietStep ==
  ASSUME PredictorIInv,
         \/ LockExpires \/ Trouble \/ UNCHANGED predictorVars
         \/ \E v \in Visits : \/ TakeLock(v) \/ Backfill(v)
                              \/ \E s \in Symbols : Visit(v, s) \/ AddSymbol(v, s)
         \/ \E s \in Symbols : RemoveSymbol(s) \/ BarArrives(s)
  PROVE  PredictorIInv'
<1>1. PredictorTypeOK /\ AtRest
  BY DEF PredictorIInv
<1>2. UNCHANGED <<thread, stored, topic, shown, solo, models>>
  BY DEF LockExpires, Trouble, predictorVars, TakeLock, Backfill, Visit, AddSymbol, RemoveSymbol, BarArrives
<1>3. \A s \in solo' : SoloRun(s)'
  BY <1>2, SameRuns DEF PredictorIInv
<1>4. PredictorTypeOK' /\ AtRest'
  <2>1. ASSUME NEW v \in Visits, TakeLock(v) \/ Backfill(v)
        PROVE  PredictorTypeOK' /\ AtRest'
    <3>1. visit[v].symbol \in Symbols /\ visit[v].at # "away"
      BY <1>1, <2>1 DEF TakeLock, Backfill, AtRest
    <3>2. PICK at \in {"away", "lock", "history", "track"}, x \in Symbols \cup {NoRun} :
            /\ visit' = [visit EXCEPT ![v] = [at |-> at, symbol |-> x]]
            /\ at # "away" => x \in Symbols
      BY <2>1, <3>1 DEF TakeLock, Backfill, Moves, Away
    <3>3. visit' \in [Visits -> [at : {"away", "lock", "history", "track"}, symbol : Symbols \cup {NoRun}]]
      BY <1>1, <3>2 DEF PredictorTypeOK
    <3>4. lock' \subseteq Symbols /\ history' \in [Symbols -> {"none", "few", "enough"}]
      BY <1>1, <2>1, <3>1 DEF TakeLock, Backfill, PredictorTypeOK
    <3>5. AtRest'
      BY <1>1, <1>2, <2>1, <3>1, <3>2 DEF AtRest, Up, TakeLock, Backfill, PredictorTypeOK
    <3> QED
      BY <1>1, <1>2, <2>1, <3>3, <3>4, <3>5 DEF TakeLock, Backfill, PredictorTypeOK
  <2>2. ASSUME NEW v \in Visits, NEW s \in Symbols, Visit(v, s) \/ AddSymbol(v, s)
        PROVE  PredictorTypeOK' /\ AtRest'
    <3>1. visit' = [visit EXCEPT ![v] = [at |-> "lock", symbol |-> s]] /\ thread[v] \in {Idle, Off}
      BY <2>2 DEF Visit, AddSymbol, EnsureTracking, Moves
    <3>2. thread[v].at \in {"idle", "down"}
      BY <3>1 DEF Idle, Off
    <3>3. visit' \in [Visits -> [at : {"away", "lock", "history", "track"}, symbol : Symbols \cup {NoRun}]]
      BY <1>1, <3>1 DEF PredictorTypeOK
    <3>4. AtRest'
      BY <1>1, <1>2, <3>1, <3>2 DEF AtRest, Up, PredictorTypeOK
    <3> QED
      BY <1>1, <1>2, <2>2, <3>3, <3>4 DEF Visit, AddSymbol, PredictorTypeOK
  <2>3. CASE \/ LockExpires \/ Trouble \/ UNCHANGED predictorVars
             \/ \E s \in Symbols : RemoveSymbol(s) \/ BarArrives(s)
    <3>1. UNCHANGED visit
      BY <2>3 DEF LockExpires, Trouble, RemoveSymbol, BarArrives, predictorVars
    <3>2. AtRest'
      BY <1>1, <1>2, <3>1 DEF AtRest, Up
    <3> QED
      BY <1>1, <1>2, <2>3, <3>1, <3>2
         DEF LockExpires, Trouble, RemoveSymbol, BarArrives, predictorVars, PredictorTypeOK
  <2> QED
    BY <2>1, <2>2, <2>3
<1> QED
  BY <1>2, <1>3, <1>4 DEF PredictorIInv, ThreadsSane

\* A thread that was not in a run and is not in one afterwards.
LEMMA OtherThread ==
  ASSUME ThreadsSane, NEW t \in Threads, NEW x, ThreadSane(x), x.at # "predict", Goes(t, x)
  PROVE  /\ ThreadsSane'
         /\ \A s : \A u \in Threads :
              /\ On(u, s)' <=> (On(u, s) /\ u # t)
              /\ On(u, s)' => thread'[u] = thread[u]
<1>1. ThreadsSane' /\ thread'[t] = x /\ \A u \in Threads \ {t} : thread'[u] = thread[u]
  BY GoesSane
<1> QED
  BY <1>1 DEF On, Busy, Current

LEMMA ThreadStarts ==
  ASSUME PredictorIInv,
         \/ RefreshDue \/ PredictorStarts
         \/ \E t \in Threads : Load(t)
         \/ \E v \in Visits : Track(v)
  PROVE  PredictorIInv'
<1>1. PredictorTypeOK /\ AtRest /\ ThreadsSane
  BY DEF PredictorIInv
<1>2. UNCHANGED <<stored, topic, shown, solo, held, history, broken, lock, well>>
  BY DEF RefreshDue, PredictorStarts, Load, Track
<1>3. \A s, sig : LastHeard(s, sig) => LastHeard(s, sig)'
  BY <1>2, HeardSame
<1>4. ASSUME ThreadsSane', AtRest', models' \subseteq Symbols,
             visit' \in [Visits -> [at : {"away", "lock", "history", "track"}, symbol : Symbols \cup {NoRun}]],
             \A s : \A t \in Threads : (On(t, s)' <=> On(t, s)) /\ (On(t, s) => thread'[t] = thread[t])
      PROVE  PredictorIInv'
  <2>1. \A s \in solo' : SoloRun(s)'
    BY <1>2, <1>3, <1>4, SoloKept DEF PredictorIInv
  <2>2. thread' \in [Threads -> ThreadStates]
    BY <1>4 DEF ThreadsSane, ThreadSane
  <2>3. PredictorTypeOK'
    BY <1>1, <1>2, <1>4, <2>2 DEF PredictorTypeOK, ThreadStates
  <2> QED
    BY <1>2, <1>4, <2>1, <2>3 DEF PredictorIInv
<1>5. \A v \in Visits : v \in Threads /\ v # "refresh" /\ v # "initialize"
  BY PredictorAssumption DEF Threads
<1>6. \A t \in Threads : ThreadSane(thread[t])
  BY <1>1 DEF ThreadsSane
<1>7. Off.at = "down"
  BY DEF Off, Idle
<1>8. "refresh" \in Threads /\ "initialize" \in Threads
  BY DEF Threads
<1>9. CASE RefreshDue
  <2>1. PICK fetched \in SUBSET Symbols : Goes("refresh", Starts(Tracked(fetched)))
    BY <1>1, <1>9 DEF RefreshDue, PredictorTypeOK
  <2>2. Tracked(fetched) \in Seq(Symbols)
    BY TrackedType
  <2>3. ThreadSane(Starts(Tracked(fetched))) /\ Starts(Tracked(fetched)).at # "predict"
    BY <2>2, RestingSane
  <2>4. thread["refresh"] = Idle
    BY <1>9 DEF RefreshDue
  <2>5. \A s : ~ On("refresh", s)
    BY <2>4 DEF On, Busy, Idle
  <2>6. Starts(Tracked(fetched)) # Off
    BY <1>7 DEF Starts, Idle, Off
  <2>7. /\ thread'["refresh"] = Starts(Tracked(fetched))
        /\ \A u \in Threads \ {"refresh"} : thread'[u] = thread[u]
    BY <1>1, <1>8, <2>1, <2>3, GoesSane
  <2>8. AtRest'
    BY <1>1, <1>5, <1>9, <2>6, <2>7 DEF AtRest, Up, RefreshDue
  <2> QED
    BY <1>1, <1>4, <1>8, <1>9, <2>1, <2>3, <2>5, <2>8, OtherThread DEF RefreshDue, PredictorTypeOK
<1>10. CASE PredictorStarts
  <2>1. \A t \in Threads : thread[t] = Off /\ ~ Busy(t)
    BY <1>1, <1>7, <1>10 DEF PredictorStarts, AtRest, Busy
  <2>2. Tracked(held) \in Seq(Symbols)
    BY TrackedType
  <2>3. thread' = AtStart(held) /\ UNCHANGED <<visit, models>>
    BY <1>10 DEF PredictorStarts
  <2>4. \A t \in Threads :
          thread'[t] = IF t # "initialize" THEN Idle
                       ELSE IF Tracked(held) = <<>> THEN Ended ELSE Starts(Tracked(held))
    BY <2>3 DEF AtStart
  <2>5. \A t \in Threads : ThreadSane(thread'[t]) /\ thread'[t].at # "predict"
    BY <2>2, <2>4, RestingSane DEF Idle, Ended
  <2>6. thread' = [t \in Threads |-> thread'[t]]
    BY <2>3 DEF AtStart
  <2>7. ThreadsSane'
    BY <2>5, <2>6 DEF ThreadsSane
  <2>8. Idle.at = "idle"
    BY DEF Idle
  <2>9. AtRest'
    BY <1>1, <1>5, <1>7, <1>8, <2>3, <2>4, <2>8 DEF AtRest, Up
  <2> QED
    BY <1>1, <1>4, <2>1, <2>3, <2>5, <2>7, <2>9 DEF On, Busy, PredictorTypeOK
<1>11. ASSUME NEW t \in Threads, Load(t)  PROVE PredictorIInv'
  <2>1. ThreadSane(thread[t]) /\ thread[t].at = "model"
    BY <1>6, <1>11 DEF Load
  <2>2. Current(t) \in Symbols /\ ThreadSane(NextSymbol(t)) /\ NextSymbol(t).at # "predict"
    BY <2>1, NextSane DEF Working
  <2>3. LET x == [thread[t] EXCEPT !.at = "begin"] IN ThreadSane(x) /\ x.at = "begin"
    BY <2>1 DEF ThreadSane, ThreadStates, Working
  <2>4. PICK x : ThreadSane(x) /\ x.at # "predict" /\ Goes(t, x) /\ x # Off
    <3>1. NextSymbol(t) # Off
      BY <1>7 DEF NextSymbol, Over, Starts, Ended, Idle, Off
    <3> QED
      BY <1>7, <1>11, <2>2, <2>3, <3>1 DEF Load
  <2>5. models' \subseteq Symbols /\ visit' = visit
    BY <1>1, <1>11, <2>2 DEF Load, Saves, PredictorTypeOK
  <2>6. \A s : ~ On(t, s)
    BY <2>1 DEF On, Busy
  <2>7. thread'[t] = x /\ \A u \in Threads \ {t} : thread'[u] = thread[u]
    BY <1>1, <2>4, GoesSane
  <2>8. AtRest'
    <3>1. \A v \in Visits : visit[v].at # "away" => v # t
      BY <1>1, <2>1 DEF AtRest
    <3> QED
      BY <1>1, <1>5, <1>7, <1>8, <2>1, <2>4, <2>5, <2>7, <3>1 DEF AtRest, Up
  <2> QED
    BY <1>1, <1>4, <2>4, <2>5, <2>6, <2>8, OtherThread DEF PredictorTypeOK
<1>12. ASSUME NEW v \in Visits, Track(v)  PROVE PredictorIInv'
  <2>1. visit[v].symbol \in Symbols /\ thread[v].at \in {"idle", "down"} /\ v \in Threads
    BY <1>1, <1>5, <1>12 DEF Track, AtRest
  <2>2. visit' = [visit EXCEPT ![v] = [at |-> "away", symbol |-> NoRun]] /\ models' = models
    BY <1>12 DEF Track, Away
  <2>3. visit' \in [Visits -> [at : {"away", "lock", "history", "track"}, symbol : Symbols \cup {NoRun}]]
    BY <1>1, <2>2 DEF PredictorTypeOK
  <2>4. CASE thread' = thread
    <3>1. AtRest'
      BY <1>1, <2>2, <2>4 DEF AtRest, Up, PredictorTypeOK
    <3> QED
      BY <1>1, <1>4, <2>2, <2>3, <2>4, <3>1 DEF ThreadsSane, On, Busy, Current, PredictorTypeOK
  <2>5. CASE Up /\ Goes(v, Starts(<<visit[v].symbol>>))
    <3>1. ThreadSane(Starts(<<visit[v].symbol>>)) /\ Starts(<<visit[v].symbol>>).at # "predict"
      <4>1. <<visit[v].symbol>> \in Seq(Symbols)
        BY <2>1
      <4> QED
        BY <4>1, RestingSane
    <3>2. \A u \in Threads \ {v} : thread'[u] = thread[u]
      BY <1>1, <2>1, <2>5, <3>1, GoesSane
    <3>3. AtRest'
      BY <1>1, <1>5, <1>8, <2>2, <2>5, <3>2 DEF AtRest, Up, PredictorTypeOK
    <3>4. \A s : ~ On(v, s)
      BY <2>1 DEF On, Busy
    <3> QED
      BY <1>1, <1>4, <2>1, <2>2, <2>3, <2>5, <3>1, <3>3, <3>4, OtherThread DEF PredictorTypeOK
  <2> QED
    BY <1>12, <2>4, <2>5 DEF Track
<1> QED
  BY <1>9, <1>10, <1>11, <1>12

\* A run begins: it is alone unless it meets another.
LEMMA BeginRunStep ==
  ASSUME PredictorIInv, NEW t \in Threads, BeginRun(t)
  PROVE  PredictorIInv'
<1>0. PICK o : o = Current(t)
  OBVIOUS
<1>1. PredictorTypeOK /\ AtRest /\ ThreadsSane /\ topic \in Seq(Messages)
  BY DEF PredictorIInv
<1>2. thread[t].at = "begin" /\ ThreadSane(thread[t]) /\ o \in Symbols
  BY <1>0, <1>1, NextSane DEF BeginRun, ThreadsSane, Working
<1>3. UNCHANGED <<held, history, broken, models, lock, visit, well>>
  BY DEF BeginRun
<1>4. \A r \in Runs \cup {NoRun} : Aged(r) \in Runs \cup {NoRun} /\ (r \in Runs => Aged(r) \in Runs)
  BY DEF Aged, Runs
<1>5. /\ stored' \in [Symbols -> [Steps -> Runs \cup {NoRun}]]
      /\ \A s \in Symbols \ {o} : stored'[s] = stored[s]
  <2>1. stored' = [stored EXCEPT ![o] = [i \in Steps |-> Aged(stored[o][i])]]
    BY <1>0 DEF BeginRun, AgeRuns
  <2>2. [i \in Steps |-> Aged(stored[o][i])] \in [Steps -> Runs \cup {NoRun}]
    BY <1>1, <1>2, <1>4 DEF PredictorTypeOK
  <2> QED
    BY <1>1, <1>2, <2>1, <2>2 DEF PredictorTypeOK
<1>6. /\ shown' \in [Symbols -> [horizon : Range(Horizons), run : Runs] \cup {NoSignal}]
      /\ \A s \in Symbols \ {o} : shown'[s] = shown[s]
  <2>1. shown' = [shown EXCEPT ![o] = [shown[o] EXCEPT !.run = Aged(@)]]
    BY <1>0 DEF BeginRun, AgeRuns
  <2>2. shown[o] \in [horizon : Range(Horizons), run : Runs] \cup {NoSignal}
    BY <1>1, <1>2 DEF PredictorTypeOK
  <2>3. [shown[o] EXCEPT !.run = Aged(@)] \in [horizon : Range(Horizons), run : Runs] \cup {NoSignal}
    <3>1. CASE shown[o] = NoSignal
      BY <3>1, PredictorAssumption DEF NoSignal, Aged, Runs
    <3>2. CASE shown[o] # NoSignal
      BY <2>2, <3>2 DEF Aged, Runs
    <3> QED
      BY <3>1, <3>2
  <2> QED
    BY <1>1, <1>2, <2>1, <2>3 DEF PredictorTypeOK
<1>7. /\ topic' \in Seq(Messages) /\ Len(topic') = Len(topic)
      /\ \A s, sig : s # o /\ LastHeard(s, sig) /\ shown'[s] = shown[s] => LastHeard(s, sig)'
  BY <1>0, <1>1, HeardAged DEF BeginRun, AgeRuns
<1>8. \A i \in 1..Len(topic') : topic'[i] \in [symbol : Symbols, horizon : Range(Horizons), run : Runs]
  <2>1. topic' \in Seq(Messages)
    BY <1>7
  <2>2. \A i \in 1..Len(topic') : topic'[i] \in Messages
    BY <2>1
  <2> QED
    BY <2>2 DEF Messages
\* The threads.
<1>9. \A u \in Threads : thread'[u] =
        IF u = t THEN [thread[t] EXCEPT !.at = "predict", !.run = "last"]
        ELSE IF On(u, o) THEN [thread[u] EXCEPT !.run = Aged(@)] ELSE thread[u]
  BY <1>0 DEF BeginRun, On
<1>10. ASSUME NEW u \in Threads
       PROVE  /\ ThreadSane(thread'[u])
              /\ thread'[u].todo = thread[u].todo /\ thread'[u].step = thread[u].step
              /\ thread'[u].at = IF u = t THEN "predict" ELSE thread[u].at
              /\ ~ On(u, o) /\ u # t => thread'[u] = thread[u]
              /\ u = t => thread'[u].run = "last"
  <2>1. ThreadSane(thread[u])
    BY <1>1 DEF ThreadsSane
  <2>2. CASE u = t
    BY <1>2, <1>9, <2>1, <2>2 DEF ThreadSane, ThreadStates, Working, Runs
  <2>3. CASE u # t /\ On(u, o)
    <3>1. Aged(thread[u].run) \in Runs
      BY <1>4, <2>1, <2>3 DEF On, Busy, ThreadSane
    <3>2. thread'[u] = [thread[u] EXCEPT !.run = Aged(thread[u].run)]
      BY <1>9, <2>3
    <3> QED
      BY <2>1, <2>3, <3>1, <3>2 DEF ThreadSane, ThreadStates, Working
  <2>4. CASE u # t /\ ~ On(u, o)
    BY <1>9, <2>1, <2>4
  <2> QED
    BY <2>2, <2>3, <2>4
<1>11. ThreadsSane'
  <2>1. thread' = [u \in Threads |-> thread'[u]]
    BY DEF BeginRun
  <2> QED
    BY <1>10, <2>1 DEF ThreadsSane
<1>12. \A u \in Threads : \A s : On(u, s)' <=> (IF u = t THEN s = o ELSE On(u, s))
  BY <1>0, <1>2, <1>10 DEF On, Busy, Current
<1>13. AtRest'
  <2>1. Up /\ Up'
    <3>1. "refresh" \in Threads /\ Off.at = "down"
      BY DEF Threads, Off, Idle
    <3>2. Up
      BY <1>1, <1>2, <3>1 DEF AtRest
    <3>3. thread'["refresh"] # Off
      <4>1. thread["refresh"] # Off
        BY <3>2 DEF Up
      <4>2. CASE "refresh" = t \/ On("refresh", o)
        <5>1. thread'["refresh"].at = "predict"
          BY <1>10, <3>1, <4>2 DEF On, Busy
        <5> QED
          BY <3>1, <5>1
      <4> QED
        BY <1>10, <3>1, <4>1, <4>2
    <3> QED
      BY <3>1, <3>2, <3>3 DEF Up
  <2> QED
    BY <1>1, <1>2, <1>3, <1>10, <2>1, PredictorAssumption DEF AtRest, Threads
\* The runs.
<1>14. ASSUME NEW s \in solo', s # o  PROVE SoloRun(s)'
  <2>1. s \in solo /\ s \in Symbols
    BY <1>0, <1>1, <1>14 DEF BeginRun, PredictorTypeOK
  <2>2. \A u \in Threads : (On(u, s)' <=> On(u, s)) /\ (On(u, s) => thread'[u] = thread[u])
    <3>1. ASSUME NEW u \in Threads  PROVE (On(u, s)' <=> On(u, s)) /\ (On(u, s) => thread'[u] = thread[u])
      <4>1. ~ On(t, s)
        BY <1>2 DEF On, Busy
      <4>2. On(u, s) => ~ On(u, o)
        BY <1>14 DEF On
      <4> QED
        BY <1>10, <1>12, <1>14, <4>1, <4>2
    <3> QED
      BY <3>1
  <2> QED
    BY <1>5, <1>6, <1>7, <1>14, <2>1, <2>2, SoloKept DEF PredictorIInv
<1>15. ASSUME o \in solo'  PROVE SoloRun(o)'
  <2>1. ~ Meets(t)
    BY <1>0, <1>15 DEF BeginRun
  <2>2. \A u \in Threads : On(u, o)' <=> u = t
    BY <1>0, <1>12, <2>1 DEF Meets, On
  <2>3. thread'[t].run = "last" /\ thread'[t].step = 1
    BY <1>2, <1>10 DEF ThreadSane
  <2>4. RunAt(o, 1)'
    <3>1. \A i \in Steps : ~ (i < 1)
      BY HorizonFacts
    <3>2. /\ \A u \in Threads : On(u, o)' => thread'[u].step = 1 /\ thread'[u].run = "last"
          /\ ~ \A u \in Threads : ~ On(u, o)'
      BY <2>2, <2>3
    <3> QED
      BY <3>1, <3>2 DEF RunAt
  <2> QED
    BY <2>2, <2>4, HorizonFacts DEF SoloRun
<1>16. PredictorTypeOK'
  BY <1>0, <1>1, <1>2, <1>3, <1>5, <1>6, <1>8, <1>11 DEF PredictorTypeOK, BeginRun, ThreadsSane, ThreadSane, ThreadStates
<1>17. \A s \in solo' : SoloRun(s)'
  BY <1>14, <1>15
<1>18. topic' \in Seq(Messages)
  BY <1>7
<1> QED
  BY <1>11, <1>13, <1>16, <1>17, <1>18 DEF PredictorIInv

\* What a thread does next is never to be down.
LEMMA NeverDown ==
  ASSUME NEW t
  PROVE  /\ NextSymbol(t) # Off /\ Over(t) # Off
         /\ \A x : x.at = "predict" => x # Off
<1>1. Off.at = "down" /\ Idle.at = "idle" /\ Ended.at = "over"
  BY DEF Off, Ended, Idle
<1>2. \A q : Starts(q).at \in {"idle", "model"}
  BY DEF Starts, Idle
<1> QED
  BY <1>1, <1>2 DEF NextSymbol, Over

\* A horizon is written and told of.
LEMMA PredictStep ==
  ASSUME PredictorIInv, NEW t \in Threads, Predict(t)
  PROVE  PredictorIInv'
<1>0. PICK o, n, r, m : /\ o = Current(t) /\ n = thread[t].step /\ r = thread[t].run
                        /\ m = [symbol |-> o, horizon |-> Horizons[n], run |-> r]
  OBVIOUS
<1> DEFINE next == IF n < Len(Horizons) THEN [thread[t] EXCEPT !.step = @ + 1] ELSE NextSymbol(t)
<1>1. PredictorTypeOK /\ AtRest /\ ThreadsSane /\ topic \in Seq(Messages)
  BY DEF PredictorIInv
<1>2. ThreadSane(thread[t]) /\ thread[t].at = "predict"
  BY <1>1 DEF Predict, Busy, ThreadsSane
<1>3. /\ o \in Symbols /\ n \in Steps /\ r \in Runs
      /\ ThreadSane(NextSymbol(t)) /\ NextSymbol(t).at # "predict"
  BY <1>0, <1>2, NextSane DEF ThreadSane, ThreadStates, Working
<1>4. UNCHANGED <<held, history, broken, models, shown, lock, visit, well, solo>>
  BY DEF Predict
<1>5. m \in Messages /\ topic' = Append(topic, m)
  BY <1>0, <1>3, HorizonFacts DEF Predict, Sends, Messages
<1>6. /\ stored' \in [Symbols -> [Steps -> Runs \cup {NoRun}]]
      /\ stored'[o] = [stored[o] EXCEPT ![n] = r]
      /\ \A s \in Symbols \ {o} : stored'[s] = stored[s]
  <2>1. stored' = [stored EXCEPT ![o] = [stored[o] EXCEPT ![n] = r]]
    BY <1>0 DEF Predict, Upsert
  <2>2. [stored[o] EXCEPT ![n] = r] \in [Steps -> Runs \cup {NoRun}]
    BY <1>1, <1>3 DEF PredictorTypeOK
  <2> QED
    BY <1>1, <1>3, <2>1, <2>2 DEF PredictorTypeOK
<1>7. ThreadSane(next) /\ Goes(t, next)
  <2>1. CASE n < Len(Horizons)
    <3>1. next = [thread[t] EXCEPT !.step = n + 1] /\ n + 1 \in Steps
      BY <1>0, <1>3, <2>1, HorizonFacts
    <3> QED
      BY <1>0, <1>2, <2>1, <3>1 DEF Predict, ThreadSane, ThreadStates, Working
  <2>2. CASE ~ (n < Len(Horizons))
    BY <1>0, <1>3, <2>2 DEF Predict
  <2> QED
    BY <2>1, <2>2
<1>8. ThreadsSane' /\ thread'[t] = next /\ \A u \in Threads \ {t} : thread'[u] = thread[u]
  BY <1>1, <1>7, GoesSane
<1>9. /\ topic' \in Seq(Messages)
      /\ \A s : /\ m.symbol = s => LastHeard(s, [horizon |-> m.horizon, run |-> m.run])'
                /\ \A sig : m.symbol # s /\ LastHeard(s, sig) /\ shown'[s] = shown[s] => LastHeard(s, sig)'
  BY <1>1, <1>5, HeardAppended
<1>10. AtRest'
  <2>1. thread'[t] # Off
    <3>1. n < Len(Horizons) => next.at = "predict"
      BY <1>2 DEF ThreadSane, ThreadStates
    <3> QED
      BY <1>0, <1>8, <3>1, NeverDown
  <2>2. "refresh" \in Threads
    BY DEF Threads
  <2>3. Up
    BY <1>1, <1>2 DEF AtRest, Off, Idle
  <2>4. Up'
    BY <1>8, <2>1, <2>2, <2>3 DEF Up
  <2>5. \A v \in Visits : visit[v].at # "away" => v # t
    BY <1>1, <1>2 DEF AtRest
  <2> QED
    BY <1>1, <1>4, <1>8, <2>4, <2>5 DEF AtRest, Threads
<1> HIDE DEF next
<1>11. ASSUME NEW s \in solo', s # o  PROVE SoloRun(s)'
  <2>1. s \in solo /\ s \in Symbols
    BY <1>1, <1>4, <1>11 DEF PredictorTypeOK
  <2>2. next.at = "predict" => next.todo = thread[t].todo
    BY <1>0, <1>2, <1>3 DEF next, ThreadSane, ThreadStates
  <2>3. \A u \in Threads : (On(u, s)' <=> On(u, s)) /\ (On(u, s) => thread'[u] = thread[u])
    BY <1>0, <1>2, <1>8, <1>11, <2>2 DEF On, Busy, Current
  <2>4. \A h, x : LastHeard(s, [horizon |-> h, run |-> x]) => LastHeard(s, [horizon |-> h, run |-> x])'
    BY <1>0, <1>4, <1>9, <1>11
  <2> QED
    BY <1>6, <1>11, <2>1, <2>3, <2>4, SoloKept DEF PredictorIInv
<1>12. ASSUME o \in solo'  PROVE SoloRun(o)'
  <2>1. SoloRun(o)
    BY <1>4, <1>12 DEF PredictorIInv
  <2>2. On(t, o) /\ \A u \in Threads : On(u, o) => u = t
    BY <1>0, <1>2, <2>1 DEF On, Busy, SoloRun
  <2>3. PICK k \in 1..Len(Horizons) + 1 : RunAt(o, k)
    BY <2>1 DEF SoloRun
  <2>4. k = n /\ r = "last"
    BY <1>0, <2>2, <2>3 DEF RunAt
  <2>5. \A i \in Steps : i < n + 1 => stored'[o][i] = "last"
    <3>1. \A i \in Steps : i < n => stored[o][i] = "last"
      BY <2>3, <2>4 DEF RunAt
    <3>2. stored[o] \in [Steps -> Runs \cup {NoRun}]
      BY <1>1, <1>3 DEF PredictorTypeOK
    <3> QED
      BY <1>3, <1>6, <2>4, <3>1, <3>2, HorizonFacts
  <2>6. LastHeard(o, [horizon |-> Horizons[n], run |-> "last"])'
    BY <1>0, <1>9, <2>4
  <2>7. n + 1 \in 1..Len(Horizons) + 1 /\ n + 1 > 1 /\ (n + 1) - 1 = n
    BY <1>3, HorizonFacts
  <2>8. CASE n < Len(Horizons)
    <3>1. /\ next.at = "predict" /\ next.todo = thread[t].todo
          /\ next.step = n + 1 /\ next.run = "last"
      BY <1>0, <1>2, <2>4, <2>8 DEF next, ThreadSane, ThreadStates
    <3>2. \A u \in Threads : On(u, o)' <=> u = t
      BY <1>0, <1>8, <2>2, <3>1 DEF On, Busy, Current
    <3>3. RunAt(o, n + 1)'
      BY <1>8, <2>5, <2>6, <2>7, <3>1, <3>2 DEF RunAt
    <3> QED
      BY <2>7, <3>2, <3>3 DEF SoloRun
  <2>9. CASE ~ (n < Len(Horizons))
    <3>1. n = Len(Horizons) /\ next.at # "predict"
      BY <1>0, <1>3, <2>9, HorizonFacts DEF next
    <3>2. \A u \in Threads : ~ On(u, o)'
      BY <1>0, <1>8, <2>2, <3>1 DEF On, Busy, Current
    <3>3. RunAt(o, n + 1)'
      BY <2>5, <2>6, <2>7, <3>1, <3>2 DEF RunAt
    <3> QED
      BY <2>7, <3>2, <3>3 DEF SoloRun
  <2> QED
    BY <2>8, <2>9
<1>13. PredictorTypeOK'
  <2>1. \A i \in 1..Len(topic') : topic'[i] \in Messages
    BY <1>9
  <2> QED
    BY <1>1, <1>4, <1>6, <1>8, <2>1 DEF PredictorTypeOK, ThreadsSane, ThreadSane, ThreadStates, Messages
<1>14. \A s \in solo' : SoloRun(s)'
  BY <1>11, <1>12
<1> QED
  BY <1>8, <1>9, <1>10, <1>13, <1>14 DEF PredictorIInv

\* A run that an exception or a stop cuts off is no longer one of those.
LEMMA ThreadEnds ==
  ASSUME PredictorIInv, PredictorStops \/ \E t \in Threads : Raises(t)
  PROVE  PredictorIInv'
<1>1. PredictorTypeOK /\ AtRest /\ ThreadsSane
  BY DEF PredictorIInv
<1>2. UNCHANGED <<held, history, broken, models, stored, topic, shown, lock, visit, well>>
  BY DEF PredictorStops, Raises
<1>3. \A s, sig : LastHeard(s, sig) => LastHeard(s, sig)'
  BY <1>2, HeardSame
<1>4. ASSUME ThreadsSane', AtRest', solo' \subseteq solo,
             \A s \in solo', t \in Threads : (On(t, s)' <=> On(t, s)) /\ (On(t, s) => thread'[t] = thread[t])
      PROVE  PredictorIInv'
  <2>1. \A s \in solo' : SoloRun(s)'
    BY <1>2, <1>3, <1>4, SoloKept DEF PredictorIInv
  <2>2. thread' \in [Threads -> ThreadStates]
    BY <1>4 DEF ThreadsSane, ThreadSane
  <2>3. PredictorTypeOK'
    BY <1>1, <1>2, <1>4, <2>2 DEF PredictorTypeOK, ThreadStates
  <2> QED
    BY <1>2, <1>4, <2>1, <2>3 DEF PredictorIInv
<1>5. CASE PredictorStops
  <2>1. thread' = [t \in Threads |-> Off]
    BY <1>5 DEF PredictorStops
  <2>2. Off.at = "down" /\ ThreadSane(Off)
    BY RestingSane DEF Off, Idle
  <2>3. ThreadsSane' /\ AtRest'
    BY <1>1, <1>2, <2>1, <2>2 DEF ThreadsSane, AtRest, Threads
  <2>4. \A s \in solo', t \in Threads : ~ On(t, s) /\ ~ On(t, s)'
    BY <1>5, <2>1, <2>2 DEF PredictorStops, On, Busy
  <2> QED
    BY <1>4, <1>5, <2>3, <2>4 DEF PredictorStops
<1>6. ASSUME NEW t \in Threads, Raises(t)  PROVE PredictorIInv'
  <2>1. ThreadSane(thread[t]) /\ thread[t].at \in Working
    BY <1>1, <1>6 DEF Raises, ThreadsSane, Working
  <2> DEFINE next == IF t = "refresh" THEN NextSymbol(t) ELSE Over(t)
  <2>2. ThreadSane(next) /\ next.at # "predict" /\ Goes(t, next)
    BY <1>6, <2>1, NextSane, RestingSane DEF Raises, Caught
  <2>3. /\ ThreadsSane'
        /\ \A s : \A u \in Threads :
             /\ On(u, s)' <=> (On(u, s) /\ u # t)
             /\ On(u, s)' => thread'[u] = thread[u]
    BY <1>1, <2>2, OtherThread
  <2>4. thread'[t] = next /\ \A u \in Threads \ {t} : thread'[u] = thread[u]
    BY <1>1, <2>2, GoesSane
  <2>5. AtRest'
    <3>1. next # Off
      BY DEF NextSymbol, Over, Starts, Ended, Idle, Off
    <3>2. Up /\ "refresh" \in Threads
      BY <1>1, <2>1 DEF AtRest, Off, Idle, Working, Threads
    <3>3. Up'
      BY <2>4, <3>1, <3>2 DEF Up
    <3>4. \A v \in Visits : visit[v].at # "away" => v # t
      BY <1>1, <2>1 DEF AtRest, Working
    <3> QED
      BY <1>1, <1>2, <2>4, <3>3, <3>4 DEF AtRest, Threads
  <2>6. \A s \in solo' : ~ On(t, s)
    BY <1>6 DEF Raises, On
  <2> QED
    BY <1>4, <1>6, <2>3, <2>5, <2>6 DEF Raises
<1> QED
  BY <1>5, <1>6

\* Messages arrive, are lost, and what they told expires.
LEMMA MessageStep ==
  ASSUME PredictorIInv, HandlePrediction \/ DeliveryFails \/ SignalExpires
  PROVE  PredictorIInv'
<1>1. PredictorTypeOK /\ AtRest /\ ThreadsSane /\ topic \in Seq(Messages)
  BY DEF PredictorIInv
<1>2. UNCHANGED <<held, history, broken, models, stored, lock, visit, thread, well>>
  BY DEF HandlePrediction, DeliveryFails, SignalExpires
<1>3. ASSUME topic' \in Seq(Messages), solo' \subseteq solo,
             shown' \in [Symbols -> [horizon : Range(Horizons), run : Runs] \cup {NoSignal}],
             \A s \in solo' : \A h, x : LastHeard(s, [horizon |-> h, run |-> x])
                                          => LastHeard(s, [horizon |-> h, run |-> x])'
      PROVE  PredictorIInv'
  <2>1. \A s \in solo' : SoloRun(s)'
    BY <1>2, <1>3, SoloKept DEF PredictorIInv, On, Busy, Current
  <2>2. \A i \in 1..Len(topic') : topic'[i] \in Messages
    BY <1>3
  <2>3. PredictorTypeOK'
    BY <1>1, <1>2, <1>3, <2>2 DEF PredictorTypeOK, Messages
  <2>4. ThreadsSane' /\ AtRest'
    BY <1>1, <1>2 DEF ThreadsSane, AtRest, Up
  <2> QED
    BY <1>3, <2>1, <2>3, <2>4 DEF PredictorIInv
<1>4. CASE HandlePrediction
  <2> DEFINE m == Head(topic)
  <2>1. topic # <<>> /\ topic' = Tail(topic)
    BY <1>4 DEF HandlePrediction
  <2>2. m \in Messages /\ topic' \in Seq(Messages)
    BY <1>1, <2>1
  <2>3. CASE shown' = [shown EXCEPT ![m.symbol] = [horizon |-> m.horizon, run |-> m.run]] /\ solo' = solo
    <3>1. \A s \in Symbols : IF m.symbol = s THEN shown'[s] = [horizon |-> m.horizon, run |-> m.run]
                             ELSE shown'[s] = shown[s]
      BY <1>1, <2>3 DEF PredictorTypeOK
    <3>2. shown' \in [Symbols -> [horizon : Range(Horizons), run : Runs] \cup {NoSignal}]
      BY <1>1, <2>2, <2>3 DEF PredictorTypeOK, Messages
    <3>3. ASSUME NEW s \in solo', NEW h, NEW x, LastHeard(s, [horizon |-> h, run |-> x])
          PROVE  LastHeard(s, [horizon |-> h, run |-> x])'
      <4>1. s \in Symbols
        BY <1>1, <2>3 DEF PredictorTypeOK
      <4> QED
        BY <1>1, <2>1, <3>1, <3>3, <4>1, HeardHandled
    <3> QED
      BY <1>3, <2>2, <2>3, <3>2, <3>3
  <2>4. CASE solo' = solo \ {m.symbol} /\ shown' = shown
    <3>1. ASSUME NEW s \in solo', NEW h, NEW x, LastHeard(s, [horizon |-> h, run |-> x])
          PROVE  LastHeard(s, [horizon |-> h, run |-> x])'
      <4>1. m.symbol # s /\ shown'[s] = shown[s]
        BY <2>4
      <4> QED
        BY <1>1, <2>1, <3>1, <4>1, HeardHandled
    <3> QED
      BY <1>1, <1>3, <2>2, <2>4, <3>1 DEF PredictorTypeOK
  <2> QED
    BY <1>4, <2>3, <2>4 DEF HandlePrediction
<1>5. CASE DeliveryFails
  <2>1. PICK n \in 1..Len(topic) : topic' = RemoveAt(topic, n) /\ solo' = solo \ {topic[n].symbol}
    BY <1>5 DEF DeliveryFails
  <2>2. shown' = shown
    BY <1>5 DEF DeliveryFails
  <2>3. topic' \in Seq(Messages)
    <3>1. /\ SubSeq(topic, 1, n - 1) \in Seq(Messages)
          /\ SubSeq(topic, n + 1, Len(topic)) \in Seq(Messages)
      BY <1>1
    <3> QED
      BY <2>1, <3>1 DEF RemoveAt
  <2>4. ASSUME NEW s \in solo', NEW h, NEW x, LastHeard(s, [horizon |-> h, run |-> x])
        PROVE  LastHeard(s, [horizon |-> h, run |-> x])'
    <3>1. topic[n].symbol # s /\ shown'[s] = shown[s]
      BY <2>1, <2>2, <2>4
    <3> QED
      BY <1>1, <2>1, <2>4, <3>1, HeardLost
  <2> QED
    BY <1>1, <1>3, <2>1, <2>2, <2>3, <2>4 DEF PredictorTypeOK
<1>6. CASE SignalExpires
  <2>1. topic' = topic /\ solo' = solo
    BY <1>6 DEF SignalExpires
  <2>2. shown' \in [Symbols -> [horizon : Range(Horizons), run : Runs] \cup {NoSignal}]
        /\ \A s \in Symbols : shown'[s] \in {shown[s], NoSignal}
    BY <1>1, <1>6 DEF SignalExpires, PredictorTypeOK
  <2>3. \A s \in Symbols : \A sig : LastHeard(s, sig) => LastHeard(s, sig)'
    BY <2>1, <2>2, HeardSame
  <2> QED
    BY <1>1, <1>3, <2>1, <2>2, <2>3 DEF PredictorTypeOK
<1> QED
  BY <1>4, <1>5, <1>6

LEMMA PredictorInitHolds == PredictorInit => PredictorIInv
<1> SUFFICES ASSUME PredictorInit  PROVE PredictorIInv
  OBVIOUS
<1>1. Off.at = "down" /\ ThreadSane(Off)
  BY RestingSane DEF Off, Idle
<1>2. thread = [t \in Threads |-> Off] /\ topic = <<>> /\ solo = {} /\ visit = [v \in Visits |-> Away]
  BY DEF PredictorInit
<1>3. ThreadsSane /\ AtRest
  BY <1>1, <1>2 DEF ThreadsSane, AtRest, Threads, Away
<1>4. PredictorTypeOK
  BY <1>1, <1>2 DEF PredictorInit, PredictorTypeOK, ThreadSane, ThreadStates, Away
<1> QED
  BY <1>2, <1>3, <1>4 DEF PredictorIInv

\* The threads of ml-predictor, the messages and the calls of ensureTracking() stay in the
\* inductive invariant: a run that nothing comes across is written and told in its order.
THEOREM PredictorInvariance == PredictorSpec => []PredictorIInv
<1>1. PredictorIInv /\ [PredictorNext]_predictorVars => PredictorIInv'
  BY QuietStep, ThreadStarts, BeginRunStep, PredictStep, ThreadEnds, MessageStep
     DEF PredictorNext, ThreadStep, VisitStep
<1> QED
  BY PredictorInitHolds, <1>1, PTL DEF PredictorSpec

\* Threads, stored runs, messages and the calls of ensureTracking() have their types.
THEOREM PredictorTypeCorrect == PredictorSpec => []PredictorTypeOK
BY PredictorInvariance, PTL DEF PredictorIInv

\* After a run of a symbol that no other run and no failure came across, every horizon
\* stored is of that run and the page shows the last of them, for any symbols, horizons and
\* threads and any number of messages under way.
THEOREM RunsAreWhole == PredictorSpec => []HorizonsOfOneRun
<1>1. ASSUME PredictorIInv, NEW s \in solo, Settled(s)
      PROVE  /\ \A i \in Steps : stored[s][i] = "last"
             /\ shown[s] \in {NoSignal, [horizon |-> Last(Horizons), run |-> "last"]}
  <2>1. PICK k \in 1..Len(Horizons) + 1 : RunAt(s, k)
    BY <1>1 DEF PredictorIInv, SoloRun
  <2>2. k = Len(Horizons) + 1
    BY <1>1, <2>1 DEF RunAt, Settled, On
  <2>3. \A i \in Steps : i < k
    BY <2>2, HorizonFacts
  <2>4. k > 1 /\ k - 1 = Len(Horizons)
    BY <2>2, HorizonFacts
  <2>5. LastHeard(s, [horizon |-> Horizons[k - 1], run |-> "last"])
    BY <2>1, <2>4 DEF RunAt
  <2>6. shown[s] \in {NoSignal, [horizon |-> Horizons[k - 1], run |-> "last"]}
    BY <1>1, <2>5 DEF LastHeard, Settled
  <2> QED
    BY <2>1, <2>3, <2>4, <2>6 DEF RunAt, Last
<1>2. PredictorIInv => HorizonsOfOneRun
  BY <1>1 DEF HorizonsOfOneRun
<1> QED
  BY PredictorInvariance, <1>2, PTL
==============================================================================
