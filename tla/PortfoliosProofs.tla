-------------------------- MODULE PortfoliosProofs --------------------------
(***************************************************************************)
(* Proofs about Portfolios, for any number of purchases, items, portfolios *)
(* and symbols.  Three parts: sums over sequences, by induction on a set   *)
(* of numbers; what applyBuy() and a batch of items do to rows; and the    *)
(* inductive invariant of the requests, which says how a loaded copy may   *)
(* differ from the document by the time it is saved.                       *)
(***************************************************************************)
EXTENDS Portfolios, WellFoundedInduction, SequenceTheorems, TLAPS

\* A set of numbers that is not empty has a least one.
LEMMA Least ==
  ASSUME NEW S \in SUBSET Nat, S # {}
  PROVE  \E m \in S : \A k \in S : m <= k
<1> DEFINE R == OpToRel(<, Nat)
<1>1. IsWellFoundedOn(R, Nat)
  BY NatLessThanWellFounded
<1>2. \A x, y \in Nat : y < x => <<y, x>> \in R
  BY DEF OpToRel
<1> HIDE DEF R
<1>3. PICK m \in S : \A y \in S : ~ (<<y, m>> \in R)
  BY <1>1, WFMin
<1>4. \A y \in S : ~ (y < m)
  BY <1>2, <1>3
<1> QED
  BY <1>4

\* Induction up to N, over a set in place of a predicate.
LEMMA Induct ==
  ASSUME NEW N \in Nat, NEW S, 0 \in S, \A n \in 0..N : n \in S /\ n < N => n + 1 \in S
  PROVE  \A n \in 0..N : n \in S
<1> DEFINE Out == {n \in 0..N : n \notin S}
<1>1. Out \in SUBSET Nat
  OBVIOUS
<1>2. ASSUME Out # {}  PROVE FALSE
  <2> HIDE DEF Out
  <2>1. PICK m \in Out : \A k \in Out : m <= k
    BY <1>1, <1>2, Least
  <2> USE DEF Out
  <2>2. m # 0 /\ m \in 0..N
    BY <2>1
  <2>3. m - 1 \in 0..N /\ m - 1 < N /\ m - 1 \notin Out
    BY <2>1, <2>2
  <2>4. m - 1 \in S
    BY <2>3
  <2> QED
    BY <2>1, <2>2, <2>3, <2>4
<1> QED
  BY <1>2

\* f is the function of the partial sums of q.
IsSum(f, q) == f = [n \in 0..Len(q) |-> IF n = 0 THEN 0 ELSE f[n - 1] + q[n]]

Numbers == Seq(Nat)

\* Every sequence has its function of partial sums.
LEMMA SumExists ==
  ASSUME NEW q \in Numbers
  PROVE  \E f : IsSum(f, q)
<1> DEFINE N == Len(q)
           UpTo(f, n) == f = [k \in 0..n |-> IF k = 0 THEN 0 ELSE f[k - 1] + q[k]]
           S == {n \in Nat : \E f : UpTo(f, n)}
<1>0. N \in Nat
  BY DEF Numbers
<1>1. 0 \in S
  <2> DEFINE f == [k \in 0..0 |-> 0]
  <2>1. UpTo(f, 0)
    OBVIOUS
  <2> QED
    BY <2>1
<1>2. ASSUME NEW n \in 0..N, n \in S, n < N  PROVE n + 1 \in S
  <2>1. PICK f : UpTo(f, n)
    BY <1>2
  <2> DEFINE g == [k \in 0..(n + 1) |-> IF k <= n THEN f[k] ELSE f[n] + q[n + 1]]
  <2>2. ASSUME NEW k \in 0..(n + 1)
        PROVE  g[k] = IF k = 0 THEN 0 ELSE g[k - 1] + q[k]
    <3>1. CASE k = 0
      BY <2>1, <3>1
    <3>2. CASE k \in 1..n
      <4>1. f[k] = f[k - 1] + q[k]
        BY <2>1, <3>2
      <4>2. g[k] = f[k] /\ g[k - 1] = f[k - 1]
        BY <3>2
      <4> QED
        BY <3>2, <4>1, <4>2
    <3>3. CASE k = n + 1
      <4>1. g[k] = f[n] + q[n + 1] /\ g[k - 1] = f[n] /\ k # 0
        BY <3>3
      <4> QED
        BY <3>3, <4>1
    <3>4. k = 0 \/ k \in 1..n \/ k = n + 1
      BY <2>2
    <3> HIDE DEF g
    <3> QED
      BY <3>1, <3>2, <3>3, <3>4
  <2>3. UpTo(g, n + 1)
    BY <2>2
  <2> HIDE DEF g
  <2>4. n + 1 \in Nat /\ \E x : UpTo(x, n + 1)
    BY <1>2, <2>3
  <2> HIDE DEF UpTo
  <2> QED
    BY <2>4
<1>3. N \in S
  <2> HIDE DEF S, N
  <2> QED
    BY <1>0, <1>1, <1>2, Induct
<1> QED
  BY <1>3 DEF IsSum

\* The partial sums of q, and that Total(q) is the last of them.
PartialSums(f, q) ==
  /\ f[0] = 0
  /\ \A n \in 0..Len(q) : f[n] \in Nat
  /\ \A n \in 0..Len(q) : n < Len(q) => q[n + 1] \in Nat /\ f[n + 1] = f[n] + q[n + 1]
  /\ Total(q) = f[Len(q)]

\* The partial sums exist, are numbers, and Total is the last of them.
LEMMA TotalIs ==
  ASSUME NEW q \in Numbers
  PROVE  \E f : PartialSums(f, q)
<1>1. \E f : IsSum(f, q) /\ Total(q) = f[Len(q)]
  BY SumExists DEF Total, IsSum
<1>2. PICK f : IsSum(f, q) /\ Total(q) = f[Len(q)]
  BY <1>1
<1> DEFINE N == Len(q)
           S == {n \in 0..N : f[n] \in Nat}
<1>3. N \in Nat /\ \A n \in 1..N : q[n] \in Nat
  BY DEF Numbers
<1>4. \A n \in 0..N : f[n] = IF n = 0 THEN 0 ELSE f[n - 1] + q[n]
  <2> DEFINE g == [n \in 0..N |-> IF n = 0 THEN 0 ELSE f[n - 1] + q[n]]
  <2>1. f = g
    BY <1>2 DEF IsSum
  <2>2. \A n \in 0..N : g[n] = IF n = 0 THEN 0 ELSE f[n - 1] + q[n]
    OBVIOUS
  <2> HIDE DEF g
  <2> QED
    BY <2>1, <2>2
<1> HIDE DEF N
<1>5. f[0] = 0 /\ \A n \in 0..N : n < N => q[n + 1] \in Nat /\ f[n + 1] = f[n] + q[n + 1]
  <2>1. ASSUME NEW n \in 0..N, n < N  PROVE q[n + 1] \in Nat /\ f[n + 1] = f[n] + q[n + 1]
    <3>1. n + 1 \in 1..N /\ n + 1 \in 0..N /\ n + 1 # 0 /\ n + 1 - 1 = n
      BY <1>3, <2>1
    <3> QED
      BY <1>3, <1>4, <3>1
  <2> QED
    BY <1>3, <1>4, <2>1
<1>6. \A n \in 0..N : f[n] \in Nat
  <2>1. 0 \in S
    BY <1>3, <1>5
  <2>2. ASSUME NEW n \in 0..N, n \in S, n < N  PROVE n + 1 \in S
    <3>1. n + 1 \in 0..N /\ q[n + 1] \in Nat /\ f[n] \in Nat /\ f[n + 1] = f[n] + q[n + 1]
      BY <1>3, <1>5, <2>2
    <3> QED
      BY <3>1
  <2> HIDE DEF S
  <2>3. \A n \in 0..N : n \in S
    BY <1>3, <2>1, <2>2, Induct
  <2> QED
    BY <2>3 DEF S
<1> QED
  BY <1>2, <1>5, <1>6 DEF PartialSums, N

\* A sum of numbers is a number.
LEMMA TotalNat ==
  ASSUME NEW q \in Numbers
  PROVE  Total(q) \in Nat
<1>1. Len(q) \in 0..Len(q)
  BY DEF Numbers
<1> QED
  BY <1>1, TotalIs DEF PartialSums

\* The sum of nothing.
LEMMA TotalEmpty == Total(<<>>) = 0
<1>1. <<>> \in Numbers /\ Len(<<>>) = 0
  BY DEF Numbers
<1> QED
  BY <1>1, TotalIs DEF PartialSums

\* Adding d to one number adds d to the sum.
LEMMA TotalChange ==
  ASSUME NEW q \in Numbers, NEW r \in Numbers, Len(r) = Len(q), NEW i \in 1..Len(q), NEW d \in Nat,
         r[i] = q[i] + d, \A k \in 1..Len(q) : k # i => r[k] = q[k]
  PROVE  Total(r) = Total(q) + d
<1> DEFINE N == Len(q)
<1>0. N \in Nat /\ N \in 0..N /\ i \in 1..N /\ \A n \in 1..N : n # i => r[n] = q[n]
  BY DEF Numbers
<1>1. PICK f : PartialSums(f, q)
  BY TotalIs
<1>2. PICK g : PartialSums(g, r)
  BY TotalIs
<1>3. /\ f[0] = 0 /\ g[0] = 0
      /\ \A n \in 0..N : f[n] \in Nat /\ g[n] \in Nat
      /\ \A n \in 0..N : n < N => /\ q[n + 1] \in Nat /\ f[n + 1] = f[n] + q[n + 1]
                                  /\ r[n + 1] \in Nat /\ g[n + 1] = g[n] + r[n + 1]
      /\ Total(q) = f[N] /\ Total(r) = g[N]
  BY <1>1, <1>2 DEF PartialSums
<1> HIDE DEF N
<1> DEFINE S == {n \in 0..N : g[n] = IF n < i THEN f[n] ELSE f[n] + d}
<1>4. 0 \in S
  BY <1>0, <1>3
<1>5. ASSUME NEW n \in 0..N, n \in S, n < N  PROVE n + 1 \in S
  <2>1. /\ n \in Nat /\ n + 1 \in 0..N /\ n + 1 \in 1..N /\ f[n] \in Nat /\ g[n] \in Nat
        /\ g[n] = IF n < i THEN f[n] ELSE f[n] + d
    BY <1>0, <1>3, <1>5
  <2>2. /\ q[n + 1] \in Nat /\ f[n + 1] = f[n] + q[n + 1]
        /\ r[n + 1] \in Nat /\ g[n + 1] = g[n] + r[n + 1]
    BY <1>3, <1>5
  <2>3. r[n + 1] = IF n + 1 = i THEN q[n + 1] + d ELSE q[n + 1]
    BY <1>0, <2>1
  <2>4. g[n + 1] = IF n + 1 < i THEN f[n + 1] ELSE f[n + 1] + d
    <3>1. i \in Nat
      BY <1>0
    <3>2. CASE n + 1 < i
      BY <2>1, <2>2, <2>3, <3>1, <3>2
    <3>3. CASE n + 1 = i
      BY <2>1, <2>2, <2>3, <3>1, <3>3
    <3>4. CASE n + 1 > i
      BY <2>1, <2>2, <2>3, <3>1, <3>4
    <3> QED
      BY <2>1, <3>1, <3>2, <3>3, <3>4
  <2> QED
    BY <2>1, <2>4
<1>6. \A n \in 0..N : n \in S
  <2> HIDE DEF S
  <2> QED
    BY <1>0, <1>4, <1>5, Induct
<1> QED
  BY <1>0, <1>3, <1>6

\* The sum of zeros.
LEMMA TotalZero ==
  ASSUME NEW q \in Numbers, \A i \in 1..Len(q) : q[i] = 0
  PROVE  Total(q) = 0
<1> DEFINE N == Len(q)
<1>0. N \in Nat /\ N \in 0..N /\ \A n \in 1..N : q[n] = 0
  BY DEF Numbers
<1>1. PICK f : PartialSums(f, q)
  BY TotalIs
<1>2. f[0] = 0 /\ Total(q) = f[N] /\ \A n \in 0..N : n < N => f[n + 1] = f[n] + q[n + 1]
  BY <1>1 DEF PartialSums
<1> HIDE DEF N
<1> DEFINE S == {n \in 0..N : f[n] = 0}
<1>3. 0 \in S
  BY <1>0, <1>2
<1>4. ASSUME NEW n \in 0..N, n \in S, n < N  PROVE n + 1 \in S
  <2>1. n + 1 \in 0..N /\ n + 1 \in 1..N /\ f[n] = 0 /\ f[n + 1] = f[n] + q[n + 1]
    BY <1>0, <1>2, <1>4
  <2>2. q[n + 1] = 0
    BY <1>0, <2>1
  <2> QED
    BY <2>1, <2>2
<1>5. \A n \in 0..N : n \in S
  <2> HIDE DEF S
  <2> QED
    BY <1>0, <1>3, <1>4, Induct
<1> QED
  BY <1>0, <1>2, <1>5

\* The only number that is not zero is the sum.
LEMMA TotalOnly ==
  ASSUME NEW q \in Numbers, NEW i \in 1..Len(q), \A k \in 1..Len(q) : k # i => q[k] = 0
  PROVE  Total(q) = q[i]
<1> DEFINE z == [k \in 1..Len(q) |-> 0]
<1>1. z \in Numbers /\ Len(z) = Len(q) /\ q[i] \in Nat
  BY DEF Numbers
<1>2. Total(z) = 0
  BY <1>1, TotalZero
<1>3. q[i] = z[i] + q[i] /\ \A k \in 1..Len(z) : k # i => q[k] = z[k]
  BY <1>1
<1> HIDE DEF z
<1>4. Total(q) = Total(z) + q[i]
  BY <1>1, <1>3, TotalChange
<1> QED
  BY <1>1, <1>2, <1>4

\* The sum of two sequences one after the other.
LEMMA TotalConcat ==
  ASSUME NEW q \in Numbers, NEW r \in Numbers
  PROVE  Total(q \o r) = Total(q) + Total(r)
<1> DEFINE M == Len(q)
           N == Len(r)
           t == q \o r
<1>0. /\ M \in Nat /\ N \in Nat /\ t \in Numbers /\ Len(t) = M + N
      /\ \A k \in 1..M : t[k] = q[k]
      /\ \A k \in 1..N : t[M + k] = r[k]
  BY DEF Numbers
<1>1. PICK f : PartialSums(f, q)
  BY TotalIs
<1>2. PICK g : PartialSums(g, r)
  BY TotalIs
<1> HIDE DEF t
<1>3. PICK h : PartialSums(h, t)
  BY <1>0, TotalIs
<1>4. /\ f[0] = 0 /\ g[0] = 0 /\ h[0] = 0
      /\ \A n \in 0..M : f[n] \in Nat /\ (n < M => f[n + 1] = f[n] + q[n + 1])
      /\ \A n \in 0..N : g[n] \in Nat /\ (n < N => r[n + 1] \in Nat /\ g[n + 1] = g[n] + r[n + 1])
      /\ \A n \in 0..(M + N) : n < M + N => h[n + 1] = h[n] + t[n + 1]
      /\ Total(q) = f[M] /\ Total(r) = g[N] /\ Total(t) = h[M + N]
  BY <1>0, <1>1, <1>2, <1>3 DEF PartialSums
<1> HIDE DEF M, N
<1> DEFINE S == {n \in 0..M : h[n] = f[n]}
           T == {n \in 0..N : h[M + n] = f[M] + g[n]}
<1>5. h[M] = f[M]
  <2>1. 0 \in S
    BY <1>0, <1>4
  <2>2. ASSUME NEW n \in 0..M, n \in S, n < M  PROVE n + 1 \in S
    <3>1. n + 1 \in 0..M /\ n + 1 \in 1..M /\ n \in 0..(M + N) /\ n < M + N /\ h[n] = f[n]
      BY <1>0, <2>2
    <3>2. h[n + 1] = h[n] + t[n + 1] /\ f[n + 1] = f[n] + q[n + 1] /\ t[n + 1] = q[n + 1]
      BY <1>0, <1>4, <2>2, <3>1
    <3> QED
      BY <3>1, <3>2
  <2> HIDE DEF S
  <2>3. M \in 0..M /\ \A n \in 0..M : n \in S
    BY <1>0, <2>1, <2>2, Induct
  <2> QED
    BY <2>3 DEF S
<1>6. h[M + N] = f[M] + g[N]
  <2>0. f[M] \in Nat
    BY <1>0, <1>4
  <2>1. 0 \in T
    BY <1>0, <1>4, <1>5, <2>0
  <2>2. ASSUME NEW n \in 0..N, n \in T, n < N  PROVE n + 1 \in T
    <3>1. /\ n + 1 \in 0..N /\ n + 1 \in 1..N /\ M + n \in 0..(M + N) /\ M + n < M + N
          /\ M + (n + 1) = (M + n) + 1 /\ h[M + n] = f[M] + g[n]
      BY <1>0, <2>2
    <3>2. /\ h[(M + n) + 1] = h[M + n] + t[(M + n) + 1]
          /\ g[n] \in Nat /\ r[n + 1] \in Nat /\ g[n + 1] = g[n] + r[n + 1]
      BY <1>4, <2>2, <3>1
    <3>3. t[M + (n + 1)] = r[n + 1]
      BY <1>0, <3>1
    <3>4. h[M + (n + 1)] = (f[M] + g[n]) + r[n + 1]
      BY <3>1, <3>2, <3>3
    <3>5. h[M + (n + 1)] = f[M] + g[n + 1]
      BY <2>0, <3>2, <3>4
    <3> QED
      BY <3>1, <3>5
  <2> HIDE DEF T
  <2>3. \A n \in 0..N : n \in T
    <3> HIDE DEF S
    <3>1. N \in Nat
      BY <1>0
    <3> QED
      BY <2>1, <2>2, <3>1, Induct
  <2>4. N \in 0..N
    BY <1>0
  <2> QED
    BY <2>3, <2>4 DEF T
<1> QED
  BY <1>4, <1>6 DEF t

\* The sum of a sequence and one more number.
LEMMA TotalAppend ==
  ASSUME NEW q \in Numbers, NEW n \in Nat
  PROVE  Total(Append(q, n)) = Total(q) + n
<1>1. <<n>> \in Numbers /\ Append(q, n) = q \o <<n>> /\ Len(<<n>>) = 1 /\ <<n>>[1] = n
  BY DEF Numbers
<1>2. Total(<<n>>) = n
  <2>1. 1 \in 1..Len(<<n>>) /\ \A k \in 1..Len(<<n>>) : k # 1 => <<n>>[k] = 0
    BY <1>1
  <2> QED
    BY <1>1, <2>1, TotalOnly
<1> QED
  BY <1>1, <1>2, TotalConcat

\* The shares of a symbol row by row, and what is paid for it item by item.
Share(seq, s) == [i \in 1..Len(seq) |-> IF seq[i].symbol = s THEN seq[i].shares ELSE 0]
Pay(items, s) == [i \in 1..Len(items) |-> IF items[i].symbol = s THEN items[i].shares * items[i].price ELSE 0]
Entry == Row \cup Item

\* The sums of a sequence that is another one and n, or two others.
LEMMA SumWith ==
  ASSUME NEW q \in Numbers, NEW n \in Nat, NEW a \in Numbers, Len(a) = Len(q) + 1,
         \A i \in 1..Len(q) : a[i] = q[i], a[Len(q) + 1] = n
  PROVE  Total(a) = Total(q) + n
<1> DEFINE b == Append(q, n)
<1>1. q \in Seq(Nat) /\ a \in Seq(Nat) /\ b \in Seq(Nat) /\ Len(q) \in Nat
  BY DEF Numbers
<1>2. Len(b) = Len(q) + 1 /\ b[Len(q) + 1] = n /\ \A i \in 1..Len(q) : b[i] = q[i]
  BY <1>1
<1> HIDE DEF b
<1>3. ASSUME NEW i \in 1..(Len(q) + 1)  PROVE a[i] = b[i]
  <2>1. i \in 1..Len(q) \/ i = Len(q) + 1
    BY <1>1
  <2> QED
    BY <1>2, <2>1
<1>4. a = b
  BY <1>1, <1>2, <1>3, SeqEqual
<1> QED
  BY <1>4, TotalAppend DEF b

\* The same of two sequences, element by element.
LEMMA SumOfBoth ==
  ASSUME NEW q \in Numbers, NEW r \in Numbers, NEW a \in Numbers, Len(a) = Len(q) + Len(r),
         \A i \in 1..Len(q) : a[i] = q[i], \A i \in 1..Len(r) : a[Len(q) + i] = r[i]
  PROVE  Total(a) = Total(q) + Total(r)
<1> DEFINE b == q \o r
           M == Len(q)
           N == Len(r)
<1>1. q \in Seq(Nat) /\ r \in Seq(Nat) /\ a \in Seq(Nat) /\ b \in Seq(Nat) /\ M \in Nat /\ N \in Nat
  BY DEF Numbers
<1>2. Len(b) = M + N /\ \A i \in 1..M : b[i] = q[i]
  BY <1>1
<1>3. \A i \in 1..N : b[M + i] = r[i]
  BY <1>1
<1> HIDE DEF b
<1>4. ASSUME NEW i \in 1..(M + N)  PROVE a[i] = b[i]
  <2> HIDE DEF M, N
  <2>1. CASE i \in 1..M
    BY <1>2, <2>1 DEF M
  <2>2. CASE i \notin 1..M
    <3>1. i - M \in 1..N /\ M + (i - M) = i
      BY <1>1, <1>4, <2>2
    <3>2. a[M + (i - M)] = b[M + (i - M)]
      BY <1>3, <3>1 DEF M, N
    <3> QED
      BY <3>1, <3>2
  <2> QED
    BY <2>1, <2>2
<1>5. a = b
  BY <1>1, <1>2, <1>4, SeqEqual
<1> QED
  BY <1>5, TotalConcat DEF b

\* The shares of a symbol, row by row, are a sequence of numbers, and SharesOf is their sum.
LEMMA ShareNumbers ==
  ASSUME NEW seq \in Seq(Entry), NEW s
  PROVE  /\ Share(seq, s) \in Numbers /\ Len(Share(seq, s)) = Len(seq) /\ Len(seq) \in Nat
         /\ SharesOf(seq, s) = Total(Share(seq, s))
         /\ SharesOf(seq, s) \in Nat
<1>1. \A i \in 1..Len(seq) : seq[i].shares \in Nat
  <2>1. \A e \in Entry : e.shares \in Nat
    BY DEF Entry, Row, Item
  <2> QED
    BY <2>1
<1>2. Len(seq) \in Nat
  OBVIOUS
<1>3. Share(seq, s) \in Numbers /\ Len(Share(seq, s)) = Len(seq)
  BY <1>1, <1>2 DEF Share, Numbers
<1>4. SharesOf(seq, s) = Total(Share(seq, s))
  BY DEF SharesOf, Share
<1> QED
  BY <1>2, <1>3, <1>4, TotalNat

\* One more row.
LEMMA SharesAppend ==
  ASSUME NEW seq \in Seq(Entry), NEW e \in Entry, NEW s
  PROVE  SharesOf(Append(seq, e), s) = SharesOf(seq, s) + (IF e.symbol = s THEN e.shares ELSE 0)
<1> DEFINE n == IF e.symbol = s THEN e.shares ELSE 0
           q == Append(seq, e)
<1>1. n \in Nat
  BY DEF Entry, Row, Item
<1>2. q \in Seq(Entry) /\ Len(q) = Len(seq) + 1 /\ q[Len(seq) + 1] = e /\ Len(seq) \in Nat
      /\ \A i \in 1..Len(seq) : q[i] = seq[i]
  OBVIOUS
<1> HIDE DEF q
<1>3. \A i \in 1..Len(seq) : Share(q, s)[i] = Share(seq, s)[i]
  BY <1>2 DEF Share
<1>4. Share(q, s)[Len(seq) + 1] = n
  BY <1>2 DEF Share
<1> HIDE DEF n
<1>5. Total(Share(q, s)) = Total(Share(seq, s)) + n
  BY <1>1, <1>2, <1>3, <1>4, ShareNumbers, SumWith
<1> QED
  BY <1>2, <1>5, ShareNumbers DEF q, n

\* Rows behind rows.
LEMMA SharesConcat ==
  ASSUME NEW q \in Seq(Entry), NEW r \in Seq(Entry), NEW s
  PROVE  SharesOf(q \o r, s) = SharesOf(q, s) + SharesOf(r, s)
<1> DEFINE t == q \o r
<1>1. /\ t \in Seq(Entry) /\ Len(t) = Len(q) + Len(r) /\ Len(q) \in Nat /\ Len(r) \in Nat
      /\ \A i \in 1..Len(q) : t[i] = q[i]
  OBVIOUS
<1>2. \A i \in 1..Len(r) : t[Len(q) + i] = r[i] /\ Len(q) + i \in 1..Len(t)
  BY <1>1
<1> HIDE DEF t
<1>3. \A i \in 1..Len(q) : Share(t, s)[i] = Share(q, s)[i]
  BY <1>1 DEF Share
<1>4. \A i \in 1..Len(r) : Share(t, s)[Len(q) + i] = Share(r, s)[i]
  BY <1>1, <1>2 DEF Share
<1>5. Total(Share(t, s)) = Total(Share(q, s)) + Total(Share(r, s))
  <2>1. /\ Share(q, s) \in Numbers /\ Share(r, s) \in Numbers /\ Share(t, s) \in Numbers
        /\ Len(Share(q, s)) = Len(q) /\ Len(Share(r, s)) = Len(r)
        /\ Len(Share(t, s)) = Len(q) + Len(r)
    BY <1>1, ShareNumbers
  <2>2. /\ Len(Share(t, s)) = Len(Share(q, s)) + Len(Share(r, s))
        /\ \A i \in 1..Len(Share(q, s)) : Share(t, s)[i] = Share(q, s)[i]
        /\ \A i \in 1..Len(Share(r, s)) : Share(t, s)[Len(Share(q, s)) + i] = Share(r, s)[i]
    BY <1>3, <1>4, <2>1
  <2> QED
    BY <2>1, <2>2, SumOfBoth
<1> QED
  BY <1>1, <1>5, ShareNumbers DEF t

\* What is paid for a symbol, item by item, is a sequence of numbers, and PaidFor is their sum.
LEMMA PayNumbers ==
  ASSUME NEW items \in Seq(Item), NEW s
  PROVE  /\ Pay(items, s) \in Numbers /\ Len(Pay(items, s)) = Len(items) /\ Len(items) \in Nat
         /\ PaidFor(items, s) = Total(Pay(items, s))
         /\ PaidFor(items, s) \in Nat
<1>1. \A i \in 1..Len(items) : items[i].shares * items[i].price \in Nat
  <2>1. \A e \in Item : e.shares \in Nat /\ e.price \in Nat
    BY PortfolioAssumption DEF Item
  <2>2. \A a, b \in Nat : a * b \in Nat
    OBVIOUS
  <2> QED
    BY <2>1, <2>2
<1>2. Len(items) \in Nat
  OBVIOUS
<1>3. Pay(items, s) \in Numbers /\ Len(Pay(items, s)) = Len(items)
  BY <1>1, <1>2 DEF Pay, Numbers
<1>4. PaidFor(items, s) = Total(Pay(items, s))
  BY DEF PaidFor, Pay
<1> QED
  BY <1>2, <1>3, <1>4, TotalNat

\* One more item.
LEMMA PaidAppend ==
  ASSUME NEW items \in Seq(Item), NEW e \in Item, NEW s
  PROVE  PaidFor(Append(items, e), s) = PaidFor(items, s) + (IF e.symbol = s THEN e.shares * e.price ELSE 0)
<1> DEFINE n == IF e.symbol = s THEN e.shares * e.price ELSE 0
           q == Append(items, e)
<1>1. n \in Nat
  <2>1. e.shares \in Nat /\ e.price \in Nat
    BY PortfolioAssumption DEF Item
  <2> QED
    BY <2>1
<1>2. q \in Seq(Item) /\ Len(q) = Len(items) + 1 /\ q[Len(items) + 1] = e /\ Len(items) \in Nat
      /\ \A i \in 1..Len(items) : q[i] = items[i]
  OBVIOUS
<1> HIDE DEF q
<1>3. \A i \in 1..Len(items) : Pay(q, s)[i] = Pay(items, s)[i]
  BY <1>2 DEF Pay
<1>4. Pay(q, s)[Len(items) + 1] = n
  BY <1>2 DEF Pay
<1> HIDE DEF n
<1>5. Total(Pay(q, s)) = Total(Pay(items, s)) + n
  BY <1>1, <1>2, <1>3, <1>4, PayNumbers, SumWith
<1> QED
  BY <1>2, <1>5, PayNumbers DEF q, n

\* Rows that give a symbol the same shares give the same sum.
LEMMA SharesSame ==
  ASSUME NEW q, NEW r, NEW s, Len(q) = Len(r),
         \A i \in 1..Len(q) :
           (IF q[i].symbol = s THEN q[i].shares ELSE 0) = (IF r[i].symbol = s THEN r[i].shares ELSE 0)
  PROVE  SharesOf(q, s) = SharesOf(r, s)
BY DEF SharesOf

\* A symbol that no row has.
LEMMA SharesNone ==
  ASSUME NEW q \in Seq(Entry), NEW s, \A i \in 1..Len(q) : q[i].symbol # s
  PROVE  SharesOf(q, s) = 0
<1>1. \A i \in 1..Len(q) : Share(q, s)[i] = 0
  BY DEF Share
<1> QED
  BY <1>1, ShareNumbers, TotalZero

\* A symbol that one row has.
LEMMA SharesOnly ==
  ASSUME NEW q \in Seq(Entry), NEW i \in 1..Len(q),
         \A k \in 1..Len(q) : q[k].symbol = q[i].symbol => k = i
  PROVE  SharesOf(q, q[i].symbol) = q[i].shares
<1> DEFINE s == q[i].symbol
<1>1. Share(q, s)[i] = q[i].shares /\ \A k \in 1..Len(q) : k # i => Share(q, s)[k] = 0
  BY DEF Share
<1> QED
  BY <1>1, ShareNumbers, TotalOnly

\* The first row of a symbol, or none.
LEMMA Finds ==
  ASSUME NEW rows \in Seq(Row), NEW s
  PROVE  \/ /\ Find(rows, s) = 0
            /\ \A i \in 1..Len(rows) : rows[i].symbol # s
         \/ /\ Find(rows, s) \in 1..Len(rows)
            /\ rows[Find(rows, s)].symbol = s
            /\ \A i \in 1..(Find(rows, s) - 1) : rows[i].symbol # s
<1> DEFINE I == {i \in 1..Len(rows) : rows[i].symbol = s}
<1>1. Find(rows, s) = IF I # {} THEN CHOOSE m \in I : \A k \in I : m <= k ELSE 0
  BY DEF Find, SelectInSeq, Min
<1>2. CASE I = {}
  BY <1>1, <1>2
<1>3. CASE I # {}
  <2>1. I \in SUBSET Nat
    OBVIOUS
  <2>2. \E m \in I : \A k \in I : m <= k
    <3> HIDE DEF I
    <3> QED
      BY <1>3, <2>1, Least
  <2>3. Find(rows, s) \in I /\ \A k \in I : Find(rows, s) <= k
    <3> HIDE DEF I
    <3> QED
      BY <1>1, <1>3, <2>2
  <2> HIDE DEF Find
  <2>4. ASSUME NEW i \in 1..(Find(rows, s) - 1)  PROVE rows[i].symbol # s
    BY <2>3
  <2> QED
    BY <2>3, <2>4
<1> QED
  BY <1>2, <1>3

\* The average of the row is c over its shares.
Rated(row, c) == row.cost * row.shares = c * row.per

\* A division without a remainder.
LEMMA Division ==
  ASSUME NEW d \in Nat, NEW p \in Nat \ {0}, d % p = 0
  PROVE  d \div p \in Nat /\ (d \div p) * p = d
OBVIOUS

\* A factor on both sides.
LEMMA Cancel ==
  ASSUME NEW a \in Nat, NEW b \in Nat, NEW p \in Nat \ {0}, a * p = b * p
  PROVE  a = b
OBVIOUS

\* The laws of products that the averages need.
LEMMA Rearranged ==
  ASSUME NEW a \in Nat, NEW b \in Nat, NEW c \in Nat
  PROVE  a * b \in Nat /\ a * b = b * a /\ (a * b) * c = a * (b * c) /\ (a + b) * c = a * c + b * c
OBVIOUS

\* Reducing the fraction keeps the row and its average.
LEMMA ReducedRow ==
  ASSUME NEW row \in Row
  PROVE  /\ Reduced(row) \in Row
         /\ Reduced(row).symbol = row.symbol /\ Reduced(row).shares = row.shares
         /\ Reduced(row).latest = row.latest
         /\ \A c \in Nat : Rated(row, c) => Rated(Reduced(row), c)
<1> DEFINE d == row.cost * row.shares
           new == [row EXCEPT !.cost = d \div row.per, !.per = row.shares]
<1>1. /\ row.symbol \in Symbols /\ row.shares \in Nat \ {0} /\ row.cost \in Nat
      /\ row.per \in Nat \ {0} /\ row.latest \in Prices \cup {NoPrice}
  BY DEF Row
<1>2. d \in Nat
  BY <1>1, Rearranged
<1>3. Reduced(row) = IF d % row.per = 0 THEN new ELSE row
  BY DEF Reduced, Row
<1>4. CASE d % row.per = 0
  <2>1. d \div row.per \in Nat /\ (d \div row.per) * row.per = d
    <3> HIDE DEF d
    <3> QED
      BY <1>1, <1>2, <1>4, Division
  <2>2. /\ new.symbol = row.symbol /\ new.shares = row.shares /\ new.latest = row.latest
        /\ new.cost = d \div row.per /\ new.per = row.shares
    <3> HIDE DEF d
    <3> QED
      BY DEF Row
  <2>3. new \in Row
    <3> HIDE DEF d
    <3> QED
      BY <1>1, <2>1 DEF Row
  <2>4. ASSUME NEW c \in Nat, Rated(row, c)  PROVE Rated(new, c)
    <3>1. (d \div row.per) * row.per = c * row.per
      BY <2>1, <2>4 DEF Rated
    <3>2. d \div row.per = c
      <4> HIDE DEF d
      <4> QED
        BY <1>1, <2>1, <3>1, Cancel
    <3> QED
      BY <2>2, <3>2 DEF Rated
  <2> HIDE DEF new
  <2> QED
    BY <1>3, <1>4, <2>2, <2>3, <2>4
<1>5. CASE ~ (d % row.per = 0)
  BY <1>3, <1>5
<1> QED
  BY <1>4, <1>5

\* (c * s + k * v * p) * (s + k) = (paid + k * v) * (p * (s + k)) when c * s = paid * p.
LEMMA AverageOfBoth ==
  ASSUME NEW c \in Nat, NEW s \in Nat, NEW p \in Nat, NEW paid \in Nat, NEW k \in Nat, NEW v \in Nat,
         c * s = paid * p
  PROVE  (c * s + (k * v) * p) * (s + k) = (paid + k * v) * (p * (s + k))
<1> DEFINE w == k * v
           t == s + k
<1>1. w \in Nat /\ t \in Nat
  BY Rearranged
<1> HIDE DEF w, t
<1>2. paid * p + w * p = (paid + w) * p
  BY <1>1, Rearranged
<1>3. ((paid + w) * p) * t = (paid + w) * (p * t)
  <2>1. paid + w \in Nat
    BY <1>1
  <2> QED
    BY <1>1, <2>1, Rearranged
<1>4. (c * s + w * p) * t = (paid + w) * (p * t)
  BY <1>2, <1>3
<1> QED
  BY <1>4 DEF w, t

\* A purchase into a row adds its shares and its cost, and keeps a price there was.
LEMMA GrownRow ==
  ASSUME NEW row \in Row, NEW item \in Item
  PROVE  /\ Grow(row, item) \in Row
         /\ Grow(row, item).symbol = row.symbol
         /\ Grow(row, item).shares = row.shares + item.shares
         /\ row.latest # NoPrice => Grow(row, item).latest = row.latest
         /\ \A c \in Nat : Rated(row, c) => Rated(Grow(row, item), c + item.shares * item.price)
<1> DEFINE sum == [row EXCEPT !.shares = @ + item.shares,
                              !.cost = @ * row.shares + item.shares * item.price * row.per,
                              !.per = @ * (row.shares + item.shares)]
           avg == Averaged(row, item)
           new == Grow(row, item)
<1>1. /\ row.symbol \in Symbols /\ row.shares \in Nat \ {0} /\ row.cost \in Nat
      /\ row.per \in Nat \ {0} /\ row.latest \in Prices \cup {NoPrice}
  BY DEF Row
<1>2. item.shares \in Nat \ {0} /\ item.price \in Prices /\ item.price \in Nat
  BY PortfolioAssumption DEF Item
<1>3. /\ row.shares + item.shares \in Nat \ {0}
      /\ row.per * (row.shares + item.shares) \in Nat \ {0}
      /\ row.cost * row.shares + item.shares * item.price * row.per \in Nat
  <2>1. row.shares + item.shares \in Nat \ {0}
    BY <1>1, <1>2
  <2>2. row.per * (row.shares + item.shares) \in Nat \ {0}
    <3>1. \A a, b \in Nat \ {0} : a * b \in Nat \ {0}
      OBVIOUS
    <3> QED
      BY <1>1, <2>1, <3>1
  <2>3. /\ row.cost * row.shares \in Nat /\ item.shares * item.price \in Nat
        /\ (item.shares * item.price) * row.per \in Nat
    BY <1>1, <1>2, Rearranged
  <2> QED
    BY <2>1, <2>2, <2>3
<1>4. /\ sum \in Row /\ sum.symbol = row.symbol /\ sum.latest = row.latest
      /\ sum.shares = row.shares + item.shares
      /\ sum.cost = row.cost * row.shares + item.shares * item.price * row.per
      /\ sum.per = row.per * (row.shares + item.shares)
  BY <1>1, <1>3 DEF Row
<1>5. ASSUME NEW c \in Nat, Rated(row, c)  PROVE Rated(sum, c + item.shares * item.price)
  <2>1. row.cost * row.shares = c * row.per
    BY <1>5 DEF Rated
  <2>2. (row.cost * row.shares + (item.shares * item.price) * row.per) * (row.shares + item.shares)
          = (c + item.shares * item.price) * (row.per * (row.shares + item.shares))
    BY <1>1, <1>2, <2>1, AverageOfBoth
  <2> HIDE DEF sum
  <2> QED
    BY <1>4, <2>2 DEF Rated
<1>6. avg = Reduced(sum)
  BY DEF Averaged
<1>7. \A c \in Nat : c + item.shares * item.price \in Nat
  BY <1>2, Rearranged
<1> HIDE DEF sum
<1>8. /\ avg \in Row /\ avg.symbol = row.symbol /\ avg.latest = row.latest
      /\ avg.shares = row.shares + item.shares
      /\ \A c \in Nat : Rated(row, c) => Rated(avg, c + item.shares * item.price)
  BY <1>4, <1>5, <1>6, <1>7, ReducedRow
<1> HIDE DEF avg
<1>9. new = [avg EXCEPT !.latest = IF @ = NoPrice THEN item.price ELSE @]
  BY DEF Grow, avg
<1>10. /\ new \in Row /\ new.symbol = avg.symbol /\ new.shares = avg.shares
       /\ new.cost = avg.cost /\ new.per = avg.per
       /\ avg.latest # NoPrice => new.latest = avg.latest
  BY <1>2, <1>8, <1>9 DEF Row
<1> HIDE DEF new
<1> QED
  BY <1>8, <1>10 DEF Rated, new

\* The row of a symbol that was not held.
LEMMA FirstRow ==
  ASSUME NEW item \in Item
  PROVE  /\ NewRow(item) \in Row /\ NewRow(item).symbol = item.symbol
         /\ NewRow(item).shares = item.shares
         /\ Rated(NewRow(item), item.shares * item.price)
<1>1. /\ item.shares \in Nat \ {0} /\ item.price \in Prices /\ item.price \in Nat
      /\ item.symbol \in Symbols /\ item.shares * item.price \in Nat
  BY PortfolioAssumption, Rearranged DEF Item
<1> QED
  BY <1>1 DEF NewRow, Row, Rated

\* The row that Find() finds of its symbol.
IsFirst(rows, i) == \A j \in 1..(i - 1) : rows[j].symbol # rows[i].symbol

\* The rows after purchases of `more`, one number of shares per symbol.
Extends(old, new, more) ==
  /\ new \in Seq(Row) /\ Len(old) <= Len(new)
  /\ \A i \in 1..Len(old) :
       /\ new[i].symbol = old[i].symbol
       /\ new[i].shares = IF IsFirst(old, i) THEN old[i].shares + more[old[i].symbol] ELSE old[i].shares
       /\ old[i].latest # NoPrice => new[i].latest = old[i].latest
  /\ \A s \in Symbols : SharesOf(new, s) = SharesOf(old, s) + more[s]

\* An amount of every symbol: of shares or of money.
Amounts == [Symbols -> Nat]
Plus(a, b) == [s \in Symbols |-> a[s] + b[s]]
ItemShares(item) == [s \in Symbols |-> IF item.symbol = s THEN item.shares ELSE 0]
ItemPaid(item) == [s \in Symbols |-> IF item.symbol = s THEN item.shares * item.price ELSE 0]

\* What a sequence of rows is.
LEMMA Rows ==
  ASSUME NEW rows \in Seq(Row)
  PROVE  /\ rows \in Seq(Entry) /\ Len(rows) \in Nat /\ DOMAIN rows = 1..Len(rows)
         /\ \A i \in 1..Len(rows) : rows[i] \in Row /\ rows[i].symbol \in Symbols
                                      /\ rows[i].shares \in Nat \ {0}
         /\ \A s : SharesOf(rows, s) \in Nat
<1>1. \A row \in Row : row \in Entry /\ row.symbol \in Symbols /\ row.shares \in Nat \ {0}
  BY DEF Row, Entry
<1>2. rows \in Seq(Entry)
  BY <1>1
<1> QED
  BY <1>1, <1>2, ShareNumbers

\* Rows extend themselves by nothing.
LEMMA ExtendsSelf ==
  ASSUME NEW rows \in Seq(Row), NEW none \in Amounts, \A s \in Symbols : none[s] = 0
  PROVE  Extends(rows, rows, none)
BY Rows DEF Extends

\* One extension after the other adds up.
LEMMA ExtendsOn ==
  ASSUME NEW a \in Seq(Row), NEW b \in Seq(Row), NEW c, NEW m \in Amounts, NEW n \in Amounts,
         Extends(a, b, m), Extends(b, c, n)
  PROVE  Extends(a, c, Plus(m, n))
<1>1. c \in Seq(Row)
  BY DEF Extends
<1>2. Len(a) \in Nat /\ Len(b) \in Nat /\ Len(c) \in Nat /\ Len(a) <= Len(b) /\ Len(b) <= Len(c)
  BY <1>1, Rows DEF Extends
<1>3. ASSUME NEW i \in 1..Len(a)
      PROVE  /\ c[i].symbol = a[i].symbol
             /\ c[i].shares = IF IsFirst(a, i) THEN a[i].shares + Plus(m, n)[a[i].symbol] ELSE a[i].shares
             /\ a[i].latest # NoPrice => c[i].latest = a[i].latest
  <2>1. i \in 1..Len(b) /\ i \in Nat /\ \A j \in 1..(i - 1) : j \in 1..Len(a)
    BY <1>2, <1>3
  <2>2. b[i].symbol = a[i].symbol /\ c[i].symbol = b[i].symbol
    BY <1>3, <2>1 DEF Extends
  <2>3. IsFirst(a, i) <=> IsFirst(b, i)
    <3>1. \A j \in 1..(i - 1) : b[j].symbol = a[j].symbol
      BY <2>1 DEF Extends
    <3> QED
      BY <2>2, <3>1 DEF IsFirst
  <2>4. /\ b[i].shares = IF IsFirst(a, i) THEN a[i].shares + m[a[i].symbol] ELSE a[i].shares
        /\ c[i].shares = IF IsFirst(b, i) THEN b[i].shares + n[b[i].symbol] ELSE b[i].shares
    BY <1>3, <2>1 DEF Extends
  <2>5. /\ a[i].symbol \in Symbols /\ a[i].shares \in Nat
        /\ m[a[i].symbol] \in Nat /\ n[a[i].symbol] \in Nat
    BY <1>3, Rows DEF Amounts
  <2>6. Plus(m, n)[a[i].symbol] = m[a[i].symbol] + n[a[i].symbol]
    BY <2>5 DEF Plus
  <2>7. c[i].shares = IF IsFirst(a, i) THEN a[i].shares + Plus(m, n)[a[i].symbol] ELSE a[i].shares
    BY <2>2, <2>3, <2>4, <2>5, <2>6
  <2>8. a[i].latest # NoPrice => c[i].latest = a[i].latest
    BY <1>3, <2>1 DEF Extends
  <2> QED
    BY <2>2, <2>7, <2>8
<1>4. ASSUME NEW s \in Symbols  PROVE SharesOf(c, s) = SharesOf(a, s) + Plus(m, n)[s]
  <2>1. SharesOf(b, s) = SharesOf(a, s) + m[s] /\ SharesOf(c, s) = SharesOf(b, s) + n[s]
    BY DEF Extends
  <2>2. SharesOf(a, s) \in Nat /\ m[s] \in Nat /\ n[s] \in Nat /\ Plus(m, n)[s] = m[s] + n[s]
    BY Rows DEF Amounts, Plus
  <2> QED
    BY <2>1, <2>2
<1> QED
  BY <1>1, <1>2, <1>3, <1>4 DEF Extends

\* One item: the first row of its symbol grows, or the item is a row at the end.
LEMMA BuyIs ==
  ASSUME NEW rows \in Seq(Row), NEW item \in Item
  PROVE  LET new == ApplyBuy(rows, item) IN
         \/ /\ \A i \in 1..Len(rows) : rows[i].symbol # item.symbol
            /\ new = Append(rows, NewRow(item))
         \/ \E f \in 1..Len(rows) :
              /\ rows[f].symbol = item.symbol /\ IsFirst(rows, f)
              /\ new = [rows EXCEPT ![f] = Grow(rows[f], item)]
<1> DEFINE f == Find(rows, item.symbol)
           new == ApplyBuy(rows, item)
<1>1. new = IF f # 0 THEN [rows EXCEPT ![f] = Grow(rows[f], item)] ELSE Append(rows, NewRow(item))
  BY DEF ApplyBuy
<1>2. \/ f = 0 /\ \A i \in 1..Len(rows) : rows[i].symbol # item.symbol
      \/ f \in 1..Len(rows) /\ rows[f].symbol = item.symbol /\ \A i \in 1..(f - 1) : rows[i].symbol # item.symbol
  BY Finds
<1> HIDE DEF f, new
<1>3. f \in 1..Len(rows) => f # 0
  OBVIOUS
<1>4. CASE f = 0 /\ \A i \in 1..Len(rows) : rows[i].symbol # item.symbol
  BY <1>1, <1>4 DEF new
<1>5. CASE f \in 1..Len(rows) /\ rows[f].symbol = item.symbol /\ \A i \in 1..(f - 1) : rows[i].symbol # item.symbol
  <2>1. IsFirst(rows, f) /\ new = [rows EXCEPT ![f] = Grow(rows[f], item)]
    BY <1>1, <1>3, <1>5 DEF IsFirst
  <2> QED
    BY <1>5, <2>1 DEF new
<1> QED
  BY <1>2, <1>4, <1>5

\* applyBuy extends the rows by the item.
LEMMA BuyExtends ==
  ASSUME NEW rows \in Seq(Row), NEW item \in Item
  PROVE  Extends(rows, ApplyBuy(rows, item), ItemShares(item))
<1> DEFINE new == ApplyBuy(rows, item)
           N == Len(rows)
<1>0. /\ N \in Nat /\ rows \in Seq(Entry)
      /\ \A i \in 1..N : rows[i] \in Row /\ rows[i].symbol \in Symbols /\ rows[i].shares \in Nat
  BY Rows
<1>1. item.symbol \in Symbols /\ item.shares \in Nat /\ item \in Entry
  BY DEF Item, Entry
<1>2. CASE /\ \A i \in 1..N : rows[i].symbol # item.symbol
           /\ new = Append(rows, NewRow(item))
  <2>1. NewRow(item) \in Row /\ NewRow(item).symbol = item.symbol /\ NewRow(item).shares = item.shares
        /\ NewRow(item) \in Entry
    BY FirstRow DEF Entry
  <2>2. new \in Seq(Row) /\ Len(new) = N + 1 /\ \A i \in 1..N : new[i] = rows[i]
    BY <1>2, <2>1
  <2>3. ASSUME NEW i \in 1..N
        PROVE  rows[i].shares + ItemShares(item)[rows[i].symbol] = rows[i].shares
    BY <1>0, <1>2 DEF ItemShares
  <2>4. ASSUME NEW s \in Symbols  PROVE SharesOf(new, s) = SharesOf(rows, s) + ItemShares(item)[s]
    BY <1>0, <1>2, <2>1, SharesAppend DEF ItemShares
  <2> HIDE DEF new
  <2>5. Len(rows) <= Len(new)
    BY <1>0, <2>2
  <2> QED
    BY <2>2, <2>3, <2>4, <2>5 DEF Extends, new
<1>3. ASSUME NEW f \in 1..N, rows[f].symbol = item.symbol, IsFirst(rows, f),
             new = [rows EXCEPT ![f] = Grow(rows[f], item)]
      PROVE  Extends(rows, new, ItemShares(item))
  <2>1. /\ Grow(rows[f], item) \in Row /\ Grow(rows[f], item).symbol = item.symbol
        /\ Grow(rows[f], item).shares = rows[f].shares + item.shares
        /\ rows[f].latest # NoPrice => Grow(rows[f], item).latest = rows[f].latest
    BY <1>0, <1>3, GrownRow
  <2>2. new \in Seq(Row) /\ Len(new) = N
        /\ new[f] = Grow(rows[f], item) /\ \A i \in 1..N : i # f => new[i] = rows[i]
    BY <1>0, <1>3, <2>1
  <2> HIDE DEF new
  <2>3. ASSUME NEW i \in 1..N
        PROVE  /\ new[i].symbol = rows[i].symbol
               /\ new[i].shares = IF IsFirst(rows, i) THEN rows[i].shares + ItemShares(item)[rows[i].symbol]
                                                      ELSE rows[i].shares
               /\ rows[i].latest # NoPrice => new[i].latest = rows[i].latest
    <3>1. CASE i = f
      BY <1>1, <1>3, <2>1, <2>2, <3>1 DEF ItemShares
    <3>2. CASE i # f
      <4>1. new[i] = rows[i]
        BY <2>2, <3>2
      <4>2. IsFirst(rows, i) => rows[i].symbol # item.symbol
        <5>1. CASE i < f
          <6>1. i \in 1..(f - 1)
            BY <1>0, <5>1
          <6> QED
            BY <1>3, <6>1 DEF IsFirst
        <5>2. CASE f < i
          <6>1. f \in 1..(i - 1)
            BY <1>0, <5>2
          <6> QED
            BY <1>3, <6>1 DEF IsFirst
        <5> QED
          BY <1>0, <3>2, <5>1, <5>2
      <4>3. IsFirst(rows, i) => ItemShares(item)[rows[i].symbol] = 0
        BY <1>0, <4>2 DEF ItemShares
      <4> QED
        BY <1>0, <4>1, <4>3
    <3> QED
      BY <3>1, <3>2
  <2>4. ASSUME NEW s \in Symbols  PROVE SharesOf(new, s) = SharesOf(rows, s) + ItemShares(item)[s]
    <3>0. /\ new \in Seq(Entry)
          /\ Share(rows, s) \in Numbers /\ Len(Share(rows, s)) = N /\ SharesOf(rows, s) = Total(Share(rows, s))
          /\ SharesOf(rows, s) \in Nat
      BY <1>0, <2>2, Rows, ShareNumbers
    <3>1. /\ Share(new, s) \in Numbers /\ Len(Share(new, s)) = N /\ SharesOf(new, s) = Total(Share(new, s))
      BY <2>2, <3>0, ShareNumbers
    <3>2. \A k \in 1..N : k # f => Share(new, s)[k] = Share(rows, s)[k]
      BY <2>2 DEF Share
    <3>3. Share(new, s)[f] = Share(rows, s)[f] + ItemShares(item)[s]
      BY <1>0, <1>1, <1>3, <2>1, <2>2 DEF Share, ItemShares
    <3>4. ItemShares(item)[s] \in Nat
      BY <1>1 DEF ItemShares
    <3>5. Total(Share(new, s)) = Total(Share(rows, s)) + ItemShares(item)[s]
      BY <3>0, <3>1, <3>2, <3>3, <3>4, TotalChange
    <3> QED
      BY <3>0, <3>1, <3>5
  <2>5. Len(rows) <= Len(new)
    BY <1>0, <2>2
  <2> QED
    BY <2>2, <2>3, <2>4, <2>5 DEF Extends
<1> QED
  BY <1>2, <1>3, BuyIs

\* One row per symbol, with the shares held at the average paid.
Booked(rows, held, paid) ==
  /\ OneRowPerSymbol(rows)
  /\ \A s \in Symbols : SharesOf(rows, s) = held[s]
  /\ \A i \in 1..Len(rows) : Rated(rows[i], paid[rows[i].symbol])
  /\ \A s \in Symbols : (\A i \in 1..Len(rows) : rows[i].symbol # s) => held[s] = 0 /\ paid[s] = 0

\* applyBuy keeps the books: the item is added to what is held and to what was paid.
LEMMA BuyBooked ==
  ASSUME NEW rows \in Seq(Row), NEW item \in Item, NEW held \in Amounts, NEW paid \in Amounts,
         Booked(rows, held, paid)
  PROVE  Booked(ApplyBuy(rows, item), Plus(held, ItemShares(item)), Plus(paid, ItemPaid(item)))
<1> DEFINE new == ApplyBuy(rows, item)
           N == Len(rows)
           h == Plus(held, ItemShares(item))
           p == Plus(paid, ItemPaid(item))
<1>0. /\ N \in Nat /\ DOMAIN rows = 1..N
      /\ \A i \in 1..N : rows[i] \in Row /\ rows[i].symbol \in Symbols /\ rows[i].shares \in Nat
  BY Rows
<1>1. item.symbol \in Symbols /\ item.shares \in Nat /\ item.shares * item.price \in Nat
  <2>1. item.symbol \in Symbols /\ item.shares \in Nat /\ item.price \in Nat
    BY PortfolioAssumption DEF Item
  <2> QED
    BY <2>1, Rearranged
<1>2. /\ \A s \in Symbols : held[s] \in Nat /\ paid[s] \in Nat
      /\ \A s \in Symbols : s # item.symbol => h[s] = held[s] /\ p[s] = paid[s]
      /\ h[item.symbol] = held[item.symbol] + item.shares
      /\ p[item.symbol] = paid[item.symbol] + item.shares * item.price
  BY <1>1 DEF Amounts, Plus, ItemShares, ItemPaid
<1>3. \A s \in Symbols : SharesOf(new, s) = h[s]
  BY BuyExtends DEF Extends, Booked, Plus
<1>4. /\ \A i, j \in 1..N : rows[i].symbol = rows[j].symbol => i = j
      /\ \A i \in 1..N : Rated(rows[i], paid[rows[i].symbol])
      /\ \A s \in Symbols : (\A i \in 1..N : rows[i].symbol # s) => held[s] = 0 /\ paid[s] = 0
  BY <1>0 DEF Booked, OneRowPerSymbol
<1> HIDE DEF h, p
<1>5. CASE /\ \A i \in 1..N : rows[i].symbol # item.symbol
           /\ new = Append(rows, NewRow(item))
  <2>1. /\ NewRow(item) \in Row /\ NewRow(item).symbol = item.symbol
        /\ Rated(NewRow(item), item.shares * item.price)
    BY FirstRow
  <2>2. /\ DOMAIN new = 1..(N + 1) /\ Len(new) = N + 1
        /\ new[N + 1] = NewRow(item) /\ \A i \in 1..N : new[i] = rows[i]
    BY <1>0, <1>5, <2>1
  <2> HIDE DEF new
  <2>3. \A i \in 1..(N + 1) : i \in 1..N \/ i = N + 1
    BY <1>0
  <2>4. OneRowPerSymbol(new)
    BY <1>4, <1>5, <2>1, <2>2, <2>3 DEF OneRowPerSymbol
  <2>5. ASSUME NEW i \in 1..(N + 1)  PROVE Rated(new[i], p[new[i].symbol])
    <3>1. CASE i \in 1..N
      <4>1. new[i] = rows[i] /\ p[rows[i].symbol] = paid[rows[i].symbol]
        BY <1>0, <1>2, <1>5, <2>2, <3>1
      <4> QED
        BY <1>4, <3>1, <4>1
    <3>2. CASE i = N + 1
      <4>1. paid[item.symbol] = 0
        BY <1>1, <1>4, <1>5
      <4>2. p[item.symbol] = item.shares * item.price
        BY <1>1, <1>2, <4>1
      <4> QED
        BY <2>1, <2>2, <3>2, <4>2
    <3> QED
      BY <2>3, <3>1, <3>2
  <2>6. ASSUME NEW s \in Symbols, \A i \in 1..(N + 1) : new[i].symbol # s
        PROVE  h[s] = 0 /\ p[s] = 0
    <3>1. N + 1 \in 1..(N + 1) /\ \A i \in 1..N : i \in 1..(N + 1)
      BY <1>0
    <3>2. s # item.symbol /\ \A i \in 1..N : rows[i].symbol # s
      BY <2>1, <2>2, <2>6, <3>1
    <3> QED
      BY <1>2, <1>4, <3>2
  <2> QED
    BY <1>3, <2>2, <2>4, <2>5, <2>6 DEF Booked, h, p, new
<1>6. ASSUME NEW f \in 1..N, rows[f].symbol = item.symbol, IsFirst(rows, f),
             new = [rows EXCEPT ![f] = Grow(rows[f], item)]
      PROVE  Booked(new, h, p)
  <2>1. /\ Grow(rows[f], item).symbol = item.symbol
        /\ Rated(Grow(rows[f], item), paid[item.symbol] + item.shares * item.price)
    BY <1>0, <1>1, <1>2, <1>4, <1>6, GrownRow
  <2>2. /\ DOMAIN new = 1..N /\ Len(new) = N
        /\ new[f] = Grow(rows[f], item) /\ \A i \in 1..N : i # f => new[i] = rows[i]
    BY <1>0, <1>6
  <2> HIDE DEF new
  <2>3. \A i \in 1..N : new[i].symbol = rows[i].symbol
    BY <1>6, <2>1, <2>2
  <2>4. OneRowPerSymbol(new)
    BY <1>4, <2>2, <2>3 DEF OneRowPerSymbol
  <2>5. ASSUME NEW i \in 1..N  PROVE Rated(new[i], p[new[i].symbol])
    <3>1. CASE i = f
      BY <1>2, <1>6, <2>1, <2>2, <3>1
    <3>2. CASE i # f
      <4>1. rows[i].symbol # item.symbol
        BY <1>4, <1>6, <3>2
      <4> QED
        BY <1>0, <1>2, <1>4, <2>2, <3>2, <4>1
    <3> QED
      BY <3>1, <3>2
  <2>6. ASSUME NEW s \in Symbols, \A i \in 1..N : new[i].symbol # s
        PROVE  h[s] = 0 /\ p[s] = 0
    <3>1. s # item.symbol /\ \A i \in 1..N : rows[i].symbol # s
      BY <1>6, <2>3, <2>6
    <3> QED
      BY <1>2, <1>4, <3>1
  <2> QED
    BY <1>3, <2>2, <2>4, <2>5, <2>6 DEF Booked
<1> QED
  BY <1>5, <1>6, BuyIs DEF h, p

----------------------------------------------------------------------------
\* f is the function of the rows after each item.
IsRun(f, rows, items) ==
  f = [n \in 0..Len(items) |-> IF n = 0 THEN rows ELSE ApplyBuy(f[n - 1], items[n])]

\* The rows after each of the items exist as a function.
LEMMA RunExists ==
  ASSUME NEW rows, NEW items \in Seq(Item)
  PROVE  \E f : IsRun(f, rows, items)
<1> DEFINE N == Len(items)
           UpTo(f, n) == f = [k \in 0..n |-> IF k = 0 THEN rows ELSE ApplyBuy(f[k - 1], items[k])]
           S == {n \in Nat : \E f : UpTo(f, n)}
<1>0. N \in Nat /\ N \in 0..N
  OBVIOUS
<1>1. 0 \in S
  <2> DEFINE f == [k \in 0..0 |-> rows]
  <2>1. UpTo(f, 0)
    OBVIOUS
  <2> QED
    BY <2>1
<1>2. ASSUME NEW n \in 0..N, n \in S, n < N  PROVE n + 1 \in S
  <2>1. PICK f : UpTo(f, n)
    BY <1>2
  <2>0. \A k \in 0..n : f[k] = IF k = 0 THEN rows ELSE ApplyBuy(f[k - 1], items[k])
    <3> DEFINE h == [k \in 0..n |-> IF k = 0 THEN rows ELSE ApplyBuy(f[k - 1], items[k])]
    <3>1. f = h
      BY <2>1
    <3>2. \A k \in 0..n : h[k] = IF k = 0 THEN rows ELSE ApplyBuy(f[k - 1], items[k])
      OBVIOUS
    <3> HIDE DEF h
    <3> QED
      BY <3>1, <3>2
  <2> DEFINE g == [k \in 0..(n + 1) |-> IF k <= n THEN f[k] ELSE ApplyBuy(f[n], items[n + 1])]
  <2>2. ASSUME NEW k \in 0..(n + 1)
        PROVE  g[k] = IF k = 0 THEN rows ELSE ApplyBuy(g[k - 1], items[k])
    <3>1. CASE k = 0
      BY <2>0, <3>1
    <3>2. CASE k \in 1..n
      <4>1. f[k] = ApplyBuy(f[k - 1], items[k])
        BY <2>0, <3>2
      <4>2. g[k] = f[k] /\ g[k - 1] = f[k - 1] /\ k # 0
        BY <3>2
      <4> HIDE DEF g
      <4> QED
        BY <4>1, <4>2
    <3>3. CASE k = n + 1
      <4>1. g[k] = ApplyBuy(f[n], items[n + 1]) /\ g[k - 1] = f[n] /\ k # 0
        BY <3>3
      <4> HIDE DEF g
      <4> QED
        BY <3>3, <4>1
    <3>4. k = 0 \/ k \in 1..n \/ k = n + 1
      BY <2>2
    <3> HIDE DEF g
    <3> QED
      BY <3>1, <3>2, <3>3, <3>4
  <2>3. UpTo(g, n + 1)
    BY <2>2
  <2> HIDE DEF g
  <2>4. n + 1 \in Nat /\ \E x : UpTo(x, n + 1)
    BY <1>2, <2>3
  <2> HIDE DEF UpTo
  <2> QED
    BY <2>4
<1>3. \A n \in 0..N : n \in S
  <2> HIDE DEF S, N
  <2> QED
    BY <1>0, <1>1, <1>2, Induct
<1> QED
  BY <1>0, <1>3 DEF IsRun

\* The rows after each item, and that After(rows, items) is the last of them.
LEMMA AfterIs ==
  ASSUME NEW rows, NEW items \in Seq(Item)
  PROVE  \E f : /\ f[0] = rows
                /\ \A n \in 0..Len(items) : n < Len(items) => f[n + 1] = ApplyBuy(f[n], items[n + 1])
                /\ After(rows, items) = f[Len(items)]
<1>1. \E f : IsRun(f, rows, items) /\ After(rows, items) = f[Len(items)]
  <2> DEFINE r == CHOOSE f : IsRun(f, rows, items)
  <2>1. IsRun(r, rows, items)
    BY RunExists
  <2>2. After(rows, items) = r[Len(items)]
    BY DEF After, IsRun
  <2> HIDE DEF r
  <2> QED
    BY <2>1, <2>2
<1>2. PICK f : IsRun(f, rows, items) /\ After(rows, items) = f[Len(items)]
  BY <1>1
<1> DEFINE N == Len(items)
<1>3. N \in Nat
  OBVIOUS
<1>4. \A n \in 0..N : f[n] = IF n = 0 THEN rows ELSE ApplyBuy(f[n - 1], items[n])
  <2> DEFINE g == [n \in 0..N |-> IF n = 0 THEN rows ELSE ApplyBuy(f[n - 1], items[n])]
  <2>1. f = g
    BY <1>2 DEF IsRun
  <2>2. \A n \in 0..N : g[n] = IF n = 0 THEN rows ELSE ApplyBuy(f[n - 1], items[n])
    OBVIOUS
  <2> HIDE DEF g
  <2> QED
    BY <2>1, <2>2
<1> HIDE DEF N
<1>5. ASSUME NEW n \in 0..N, n < N  PROVE f[n + 1] = ApplyBuy(f[n], items[n + 1])
  <2>1. n + 1 \in 0..N /\ n + 1 # 0 /\ n + 1 - 1 = n
    BY <1>3, <1>5
  <2> QED
    BY <1>4, <2>1
<1>6. f[0] = rows
  BY <1>3, <1>4
<1> QED
  BY <1>2, <1>5, <1>6 DEF N

\* What the items come to, symbol by symbol.
Held(items) == [s \in Symbols |-> SharesOf(items, s)]
Paid(items) == [s \in Symbols |-> PaidFor(items, s)]

\* What a sequence of items is.
LEMMA Items ==
  ASSUME NEW items \in Seq(Item)
  PROVE  /\ items \in Seq(Entry) /\ Len(items) \in Nat
         /\ Held(items) \in Amounts /\ Paid(items) \in Amounts
<1>1. items \in Seq(Entry)
  BY DEF Entry
<1>2. \A s : SharesOf(items, s) \in Nat /\ PaidFor(items, s) \in Nat
  BY <1>1, ShareNumbers, PayNumbers
<1> QED
  BY <1>1, <1>2 DEF Held, Paid, Amounts

\* The first n items, and one more.
LEMMA PrefixOfItems ==
  ASSUME NEW items \in Seq(Item)
  PROVE  /\ SubSeq(items, 1, 0) = <<>> /\ SubSeq(items, 1, Len(items)) = items
         /\ \A n \in 0..Len(items) :
              /\ SubSeq(items, 1, n) \in Seq(Item)
              /\ n < Len(items) => SubSeq(items, 1, n + 1) = Append(SubSeq(items, 1, n), items[n + 1])
<1>1. SubSeq(items, 1, 0) = <<>>
  OBVIOUS
<1>2. SubSeq(items, 1, Len(items)) = items
  OBVIOUS
<1>3. ASSUME NEW n \in 0..Len(items)  PROVE SubSeq(items, 1, n) \in Seq(Item)
  OBVIOUS
<1>4. ASSUME NEW n \in 0..Len(items), n < Len(items)
      PROVE  SubSeq(items, 1, n + 1) = Append(SubSeq(items, 1, n), items[n + 1])
  OBVIOUS
<1> QED
  BY <1>1, <1>2, <1>3, <1>4

\* One more item, in shares and in payments.
LEMMA HeldOneMore ==
  ASSUME NEW items \in Seq(Item), NEW item \in Item
  PROVE  /\ Held(Append(items, item)) = Plus(Held(items), ItemShares(item))
         /\ Paid(Append(items, item)) = Plus(Paid(items), ItemPaid(item))
<1>1. items \in Seq(Entry) /\ item \in Entry
  BY Items DEF Entry
<1>2. ASSUME NEW s \in Symbols
      PROVE  /\ SharesOf(Append(items, item), s) = SharesOf(items, s) + ItemShares(item)[s]
             /\ PaidFor(Append(items, item), s) = PaidFor(items, s) + ItemPaid(item)[s]
  BY <1>1, SharesAppend, PaidAppend DEF ItemShares, ItemPaid
<1> QED
  BY <1>2 DEF Held, Paid, Plus

\* No items.
LEMMA HeldNone == \A s \in Symbols : Held(<<>>)[s] = 0 /\ Paid(<<>>)[s] = 0
<1>1. \A s : SharesOf(<<>>, s) = Total(<<>>) /\ PaidFor(<<>>, s) = Total(<<>>)
  BY DEF SharesOf, PaidFor
<1> QED
  BY <1>1, TotalEmpty DEF Held, Paid

\* One item is an amount of every symbol.
LEMMA ItemAmounts ==
  ASSUME NEW item \in Item
  PROVE  ItemShares(item) \in Amounts /\ ItemPaid(item) \in Amounts
<1>1. item.symbol \in Symbols /\ item.shares \in Nat /\ item.shares * item.price \in Nat
  <2>1. item.symbol \in Symbols /\ item.shares \in Nat /\ item.price \in Nat
    BY PortfolioAssumption DEF Item
  <2> QED
    BY <2>1, Rearranged
<1> QED
  BY <1>1 DEF ItemShares, ItemPaid, Amounts

\* Amounts add up.
LEMMA Sums ==
  ASSUME NEW a \in Amounts, NEW b \in Amounts, NEW c \in Amounts
  PROVE  Plus(a, b) \in Amounts /\ Plus(Plus(a, b), c) = Plus(a, Plus(b, c))
<1>1. \A s \in Symbols : a[s] \in Nat /\ b[s] \in Nat /\ c[s] \in Nat
  BY DEF Amounts
<1>2. \A s \in Symbols : (a[s] + b[s]) + c[s] = a[s] + (b[s] + c[s])
  BY <1>1
<1>3. \A s \in Symbols : Plus(a, b)[s] = a[s] + b[s] /\ Plus(b, c)[s] = b[s] + c[s]
  BY DEF Plus
<1>4. Plus(a, b) \in Amounts
  BY <1>1 DEF Plus, Amounts
<1>5. [s \in Symbols |-> Plus(a, b)[s] + c[s]] = [s \in Symbols |-> a[s] + Plus(b, c)[s]]
  BY <1>2, <1>3
<1> QED
  BY <1>4, <1>5 DEF Plus

\* A whole batch extends the rows by all of its items.
LEMMA AfterExtends ==
  ASSUME NEW rows \in Seq(Row), NEW items \in Seq(Item)
  PROVE  Extends(rows, After(rows, items), Held(items))
<1> DEFINE N == Len(items)
           Pre(n) == SubSeq(items, 1, n)
<1>0. N \in Nat /\ N \in 0..N /\ \A n \in 0..N : n < N => items[n + 1] \in Item
  OBVIOUS
<1>1. /\ Pre(0) = <<>> /\ Pre(N) = items
      /\ \A n \in 0..N : /\ Pre(n) \in Seq(Item)
                         /\ n < N => Pre(n + 1) = Append(Pre(n), items[n + 1])
  BY PrefixOfItems
<1>2. PICK f : /\ f[0] = rows
               /\ \A n \in 0..N : n < N => f[n + 1] = ApplyBuy(f[n], items[n + 1])
               /\ After(rows, items) = f[N]
  BY AfterIs
<1> HIDE DEF N, Pre
<1> DEFINE S == {n \in 0..N : Extends(rows, f[n], Held(Pre(n)))}
<1>3. 0 \in S
  <2>1. Held(Pre(0)) \in Amounts /\ \A s \in Symbols : Held(Pre(0))[s] = 0
    BY <1>0, <1>1, Items, HeldNone
  <2>2. Extends(rows, f[0], Held(Pre(0)))
    BY <1>2, <2>1, ExtendsSelf
  <2> QED
    BY <1>0, <2>2
<1>4. ASSUME NEW n \in 0..N, n \in S, n < N  PROVE n + 1 \in S
  <2>1. Extends(rows, f[n], Held(Pre(n))) /\ f[n] \in Seq(Row)
    BY <1>4 DEF Extends
  <2>2. items[n + 1] \in Item
    BY <1>0, <1>4
  <2>3. Extends(f[n], f[n + 1], ItemShares(items[n + 1]))
    BY <1>2, <1>4, <2>1, <2>2, BuyExtends
  <2>4. Held(Pre(n)) \in Amounts /\ ItemShares(items[n + 1]) \in Amounts
    BY <1>1, <2>2, Items, ItemAmounts
  <2>5. Held(Pre(n + 1)) = Plus(Held(Pre(n)), ItemShares(items[n + 1]))
    BY <1>1, <1>4, <2>2, HeldOneMore
  <2>6. Extends(rows, f[n + 1], Held(Pre(n + 1)))
    BY <2>1, <2>3, <2>4, <2>5, ExtendsOn
  <2>7. n + 1 \in 0..N
    BY <1>0, <1>4
  <2> QED
    BY <2>6, <2>7
<1>5. \A n \in 0..N : n \in S
  <2> HIDE DEF S
  <2> QED
    BY <1>0, <1>3, <1>4, Induct
<1>6. Extends(rows, f[N], Held(Pre(N)))
  BY <1>0, <1>5
<1> QED
  BY <1>1, <1>2, <1>6

\* A whole batch keeps the books.
LEMMA AfterBooked ==
  ASSUME NEW rows \in Seq(Row), NEW items \in Seq(Item), NEW held \in Amounts, NEW paid \in Amounts,
         Booked(rows, held, paid)
  PROVE  Booked(After(rows, items), Plus(held, Held(items)), Plus(paid, Paid(items)))
<1> DEFINE N == Len(items)
           Pre(n) == SubSeq(items, 1, n)
<1>0. N \in Nat /\ N \in 0..N /\ \A n \in 0..N : n < N => items[n + 1] \in Item
  OBVIOUS
<1>1. /\ Pre(0) = <<>> /\ Pre(N) = items
      /\ \A n \in 0..N : /\ Pre(n) \in Seq(Item)
                         /\ n < N => Pre(n + 1) = Append(Pre(n), items[n + 1])
  BY PrefixOfItems
<1>2. PICK f : /\ f[0] = rows
               /\ \A n \in 0..N : n < N => f[n + 1] = ApplyBuy(f[n], items[n + 1])
               /\ After(rows, items) = f[N]
  BY AfterIs
<1> HIDE DEF N, Pre
<1> DEFINE P(n) == /\ f[n] \in Seq(Row)
                   /\ Booked(f[n], Plus(held, Held(Pre(n))), Plus(paid, Paid(Pre(n))))
           S == {n \in 0..N : P(n)}
<1>3. 0 \in S
  <2>1. \A s \in Symbols : Held(Pre(0))[s] = 0 /\ Paid(Pre(0))[s] = 0
    BY <1>1, HeldNone
  <2>2. Plus(held, Held(Pre(0))) = held /\ Plus(paid, Paid(Pre(0))) = paid
    <3>1. \A s \in Symbols : held[s] \in Nat /\ paid[s] \in Nat
      BY DEF Amounts
    <3>2. \A s \in Symbols : held[s] + Held(Pre(0))[s] = held[s] /\ paid[s] + Paid(Pre(0))[s] = paid[s]
      BY <2>1, <3>1
    <3> QED
      BY <3>2 DEF Plus, Amounts
  <2> QED
    BY <1>0, <1>2, <2>2
<1>4. ASSUME NEW n \in 0..N, n \in S, n < N  PROVE n + 1 \in S
  <2>1. P(n) /\ n + 1 \in 0..N
    BY <1>0, <1>4
  <2>2. items[n + 1] \in Item
    BY <1>0, <1>4
  <2>3. /\ Held(Pre(n)) \in Amounts /\ Paid(Pre(n)) \in Amounts
        /\ ItemShares(items[n + 1]) \in Amounts /\ ItemPaid(items[n + 1]) \in Amounts
    BY <1>1, <2>2, Items, ItemAmounts
  <2>4. /\ Plus(held, Held(Pre(n))) \in Amounts /\ Plus(paid, Paid(Pre(n))) \in Amounts
        /\ Plus(held, Held(Pre(n + 1))) = Plus(Plus(held, Held(Pre(n))), ItemShares(items[n + 1]))
        /\ Plus(paid, Paid(Pre(n + 1))) = Plus(Plus(paid, Paid(Pre(n))), ItemPaid(items[n + 1]))
    <3>1. /\ Held(Pre(n + 1)) = Plus(Held(Pre(n)), ItemShares(items[n + 1]))
          /\ Paid(Pre(n + 1)) = Plus(Paid(Pre(n)), ItemPaid(items[n + 1]))
      BY <1>1, <1>4, <2>2, HeldOneMore
    <3>2. /\ Plus(held, Held(Pre(n))) \in Amounts
          /\ Plus(held, Plus(Held(Pre(n)), ItemShares(items[n + 1])))
               = Plus(Plus(held, Held(Pre(n))), ItemShares(items[n + 1]))
      BY <2>3, Sums
    <3>3. /\ Plus(paid, Paid(Pre(n))) \in Amounts
          /\ Plus(paid, Plus(Paid(Pre(n)), ItemPaid(items[n + 1])))
               = Plus(Plus(paid, Paid(Pre(n))), ItemPaid(items[n + 1]))
      BY <2>3, Sums
    <3> QED
      BY <3>1, <3>2, <3>3
  <2>5. f[n + 1] = ApplyBuy(f[n], items[n + 1])
    BY <1>2, <1>4
  <2>6. f[n + 1] \in Seq(Row)
    BY <2>1, <2>2, <2>5, BuyExtends DEF Extends
  <2>7. Booked(f[n + 1], Plus(held, Held(Pre(n + 1))), Plus(paid, Paid(Pre(n + 1))))
    BY <2>1, <2>2, <2>4, <2>5, BuyBooked
  <2> QED
    BY <2>1, <2>6, <2>7
<1>5. \A n \in 0..N : n \in S
  <2> HIDE DEF S
  <2> QED
    BY <1>0, <1>3, <1>4, Induct
<1>6. P(N)
  BY <1>0, <1>5
<1> QED
  BY <1>1, <1>2, <1>6

\* Rows that differ in nothing but prices.
SameHoldings(a, b) ==
  /\ Len(a) = Len(b)
  /\ \A i \in 1..Len(a) : /\ a[i].symbol = b[i].symbol /\ a[i].shares = b[i].shares
                          /\ a[i].cost = b[i].cost /\ a[i].per = b[i].per

\* Rows of the same symbols, where the shares of only the first row of a symbol differ.
SameShape(a, b) ==
  /\ Len(a) = Len(b)
  /\ \A i \in 1..Len(a) : /\ a[i].symbol = b[i].symbol
                          /\ ~ IsFirst(a, i) => a[i].shares = b[i].shares

\* Prices do not matter to the books.
LEMMA SameHoldingsSums ==
  ASSUME NEW a \in Seq(Row), NEW b \in Seq(Row), SameHoldings(a, b)
  PROVE  /\ SameShape(a, b)
         /\ \A s : SharesOf(a, s) = SharesOf(b, s)
         /\ \A h, p : Booked(a, h, p) => Booked(b, h, p)
<1>0. /\ Len(a) = Len(b) /\ DOMAIN a = 1..Len(a) /\ DOMAIN b = 1..Len(a)
      /\ \A i \in 1..Len(a) : /\ a[i].symbol = b[i].symbol /\ a[i].shares = b[i].shares
                              /\ a[i].cost = b[i].cost /\ a[i].per = b[i].per
  BY Rows DEF SameHoldings
<1>1. SameShape(a, b)
  BY <1>0 DEF SameShape
<1>2. ASSUME NEW s  PROVE SharesOf(a, s) = SharesOf(b, s)
  BY <1>0, SharesSame
<1>3. ASSUME NEW h, NEW p, Booked(a, h, p)  PROVE Booked(b, h, p)
  <2>1. OneRowPerSymbol(b)
    BY <1>0, <1>3 DEF Booked, OneRowPerSymbol
  <2>2. \A i \in 1..Len(b) : Rated(b[i], p[b[i].symbol])
    BY <1>0, <1>3 DEF Booked, Rated
  <2> QED
    BY <1>0, <1>2, <1>3, <2>1, <2>2 DEF Booked
<1> QED
  BY <1>1, <1>2, <1>3

\* SameShape and SameHoldings are transitive.
LEMMA SameShapeOn ==
  ASSUME NEW a \in Seq(Row), NEW b \in Seq(Row), NEW c, SameShape(a, b), SameShape(b, c)
  PROVE  SameShape(a, c)
<1>1. /\ Len(a) = Len(b) /\ Len(b) = Len(c) /\ Len(a) \in Nat
      /\ \A i \in 1..Len(a) : a[i].symbol = b[i].symbol /\ b[i].symbol = c[i].symbol
  BY Rows DEF SameShape
<1>2. ASSUME NEW i \in 1..Len(a)  PROVE IsFirst(a, i) <=> IsFirst(b, i)
  <2>1. \A j \in 1..(i - 1) : j \in 1..Len(a)
    BY <1>1
  <2> QED
    BY <1>1, <2>1 DEF IsFirst
<1>3. ASSUME NEW i \in 1..Len(a), ~ IsFirst(a, i)  PROVE a[i].shares = c[i].shares
  <2>1. a[i].shares = b[i].shares
    BY <1>3 DEF SameShape
  <2>2. b[i].shares = c[i].shares
    BY <1>1, <1>2, <1>3 DEF SameShape
  <2> QED
    BY <2>1, <2>2
<1> QED
  BY <1>1, <1>3 DEF SameShape

LEMMA SameHoldingsOn ==
  ASSUME NEW a, NEW b, NEW c, SameHoldings(a, b), SameHoldings(b, c)
  PROVE  SameHoldings(a, c)
BY DEF SameHoldings

----------------------------------------------------------------------------
\* A save that only pushes: the rows after those it loaded go behind the rows there are.
PushRows(now, old, new) == now \o SubSeq(new, Len(old) + 1, Len(new))

\* What it stores: the items come on top of the rows there are.
LEMMA Pushed ==
  ASSUME NEW old \in Seq(Row), NEW new, NEW now \in Seq(Row), NEW more \in Amounts,
         Extends(old, new, more), \A i \in 1..Len(old) : new[i] = old[i]
  PROVE  LET stored == PushRows(now, old, new) IN
         /\ stored \in Seq(Row)
         /\ \A s \in Symbols : SharesOf(stored, s) = SharesOf(now, s) + more[s]
         /\ SameHoldings(old, now) => SameHoldings(new, stored)
         /\ \A i \in 1..Len(now) : stored[i] = now[i]
<1> DEFINE M == Len(old)
           suffix == SubSeq(new, M + 1, Len(new))
           stored == PushRows(now, old, new)
<1>0. stored = now \o suffix
  BY DEF PushRows
<1>1. new \in Seq(Row) /\ M \in Nat /\ Len(new) \in Nat /\ M <= Len(new) /\ Len(now) \in Nat
  BY Rows DEF Extends
<1>2. /\ suffix \in Seq(Row) /\ Len(suffix) = Len(new) - M
      /\ \A i \in 1..(Len(new) - M) : suffix[i] = new[M + i]
  <2> HIDE DEF M
  <2> QED
    BY <1>1
<1>3. new = old \o suffix
  <2> DEFINE w == old \o suffix
  <2>1. w \in Seq(Row) /\ Len(w) = Len(new) /\ \A i \in 1..M : w[i] = old[i]
    <3> HIDE DEF suffix
    <3> QED
      BY <1>1, <1>2
  <2>2. \A i \in 1..(Len(new) - M) : w[M + i] = suffix[i]
    <3> HIDE DEF suffix
    <3> QED
      BY <1>1, <1>2
  <2> HIDE DEF w, suffix
  <2>3. ASSUME NEW i \in 1..Len(new)  PROVE new[i] = w[i]
    <3>1. CASE i \in 1..M
      BY <2>1, <3>1
    <3>2. CASE i \notin 1..M
      <4>0. M \in Nat /\ Len(new) \in Nat
        BY <1>1
      <4> HIDE DEF M
      <4>1. i - M \in 1..(Len(new) - M) /\ M + (i - M) = i
        BY <4>0, <2>3, <3>2
      <4> QED
        BY <1>2, <2>2, <4>1
    <3> QED
      BY <3>1, <3>2
  <2>4. new = w
    BY <1>1, <2>1, <2>3, SeqEqual
  <2> QED
    BY <2>4 DEF w
<1> HIDE DEF suffix, stored
<1>4. /\ stored \in Seq(Row) /\ Len(stored) = Len(now) + (Len(new) - M)
      /\ \A i \in 1..Len(now) : stored[i] = now[i]
  <2>1. stored \in Seq(Row) /\ Len(stored) = Len(now) + Len(suffix)
    BY <1>0, <1>2, ConcatProperties
  <2>2. \A i \in 1..Len(now) : stored[i] = now[i]
    BY <1>0, <1>1, <1>2
  <2> QED
    BY <1>2, <2>1, <2>2
<1>5. \A i \in 1..(Len(new) - M) : stored[Len(now) + i] = suffix[i]
  BY <1>0, <1>1, <1>2
<1>6. ASSUME NEW s \in Symbols  PROVE SharesOf(stored, s) = SharesOf(now, s) + more[s]
  <2>1. now \in Seq(Entry) /\ suffix \in Seq(Entry) /\ old \in Seq(Entry)
    BY <1>2, Rows
  <2>2. SharesOf(stored, s) = SharesOf(now, s) + SharesOf(suffix, s)
    BY <1>0, <2>1, SharesConcat
  <2>3. SharesOf(old \o suffix, s) = SharesOf(old, s) + SharesOf(suffix, s)
    BY <2>1, SharesConcat
  <2>4. SharesOf(new, s) = SharesOf(old, s) + SharesOf(suffix, s)
    BY <1>3, <2>3
  <2>5. SharesOf(new, s) = SharesOf(old, s) + more[s]
    BY DEF Extends
  <2>6. SharesOf(old, s) \in Nat /\ SharesOf(suffix, s) \in Nat /\ more[s] \in Nat
    BY <2>1, ShareNumbers DEF Amounts
  <2>7. SharesOf(suffix, s) = more[s]
    BY <2>4, <2>5, <2>6
  <2> QED
    BY <2>2, <2>7
<1> HIDE DEF M
<1>7. ASSUME SameHoldings(old, now)  PROVE SameHoldings(new, stored)
  <2>1. Len(now) = M
    BY <1>7 DEF SameHoldings, M
  <2>2. Len(stored) = Len(new)
    BY <1>1, <1>4, <2>1
  <2>3. ASSUME NEW i \in 1..Len(new)
        PROVE  /\ new[i].symbol = stored[i].symbol /\ new[i].shares = stored[i].shares
               /\ new[i].cost = stored[i].cost /\ new[i].per = stored[i].per
    <3>1. CASE i \in 1..M
      <4>1. stored[i] = now[i] /\ new[i] = old[i]
        BY <1>4, <2>1, <3>1 DEF M
      <4> QED
        BY <1>7, <3>1, <4>1 DEF SameHoldings, M
    <3>2. CASE i \notin 1..M
      <4>1. i - M \in 1..(Len(new) - M) /\ M + (i - M) = i
        BY <1>1, <2>3, <3>2
      <4>2. stored[M + (i - M)] = suffix[i - M] /\ new[M + (i - M)] = suffix[i - M]
        BY <1>2, <1>5, <2>1, <4>1
      <4>3. stored[i] = new[i]
        BY <4>1, <4>2
      <4> QED
        BY <4>3
    <3> QED
      BY <3>1, <3>2
  <2> QED
    BY <2>2, <2>3 DEF SameHoldings
<1> QED
  BY <1>4, <1>6, <1>7 DEF stored

----------------------------------------------------------------------------
\* The fields that a purchase changed, over the row there is.
LEMMA SetRow ==
  ASSUME NEW now \in Row, NEW old \in Row, NEW new \in Row
  PROVE  LET row == SetFields(now, old, new) IN
         /\ row \in Row /\ row.symbol = now.symbol
         /\ row.shares = IF new.shares = old.shares THEN now.shares ELSE new.shares
         /\ row.latest = IF new.latest = old.latest THEN now.latest ELSE new.latest
         /\ \A c \in Nat :
              /\ now.shares = old.shares /\ now.cost = old.cost /\ now.per = old.per
              /\ Rated(new, c)
              => Rated(row, c)
<1> DEFINE basis == IF SameAverage(old, new) THEN now ELSE new
           shares == IF new.shares = old.shares THEN now.shares ELSE new.shares
           latest == IF new.latest = old.latest THEN now.latest ELSE new.latest
           mid == [now EXCEPT !.shares = IF new.shares = old.shares THEN @ ELSE new.shares,
                              !.cost = basis.cost,
                              !.per = basis.per,
                              !.latest = IF new.latest = old.latest THEN @ ELSE new.latest]
           row == SetFields(now, old, new)
<1>1. \A r \in Row : /\ r.symbol \in Symbols /\ r.shares \in Nat \ {0} /\ r.cost \in Nat
                     /\ r.per \in Nat \ {0} /\ r.latest \in Prices \cup {NoPrice}
  BY DEF Row
<1>2. basis \in Row
  OBVIOUS
<1>3. shares \in Nat \ {0} /\ latest \in Prices \cup {NoPrice}
  BY <1>1
<1> HIDE DEF basis
<1>4. /\ mid \in Row /\ mid.symbol = now.symbol /\ mid.shares = shares /\ mid.latest = latest
      /\ mid.cost = basis.cost /\ mid.per = basis.per
  BY <1>1, <1>2, <1>3 DEF Row
<1>5. row = Reduced(mid)
  BY DEF SetFields, basis
<1> HIDE DEF mid
<1>6. ASSUME NEW c \in Nat, now.shares = old.shares, now.cost = old.cost, now.per = old.per, Rated(new, c)
      PROVE  Rated(mid, c)
  <2>1. mid.shares = new.shares
    BY <1>4, <1>6
  <2>2. CASE ~ SameAverage(old, new)
    BY <1>4, <1>6, <2>1, <2>2 DEF basis, Rated
  <2>3. CASE SameAverage(old, new)
    <3>1. mid.cost = old.cost /\ mid.per = old.per
      BY <1>4, <1>6, <2>3 DEF basis
    <3>2. old.cost * new.per = new.cost * old.per /\ new.cost * new.shares = c * new.per
      BY <1>6, <2>3 DEF SameAverage, Rated
    <3>3. /\ old.cost \in Nat /\ new.per \in Nat \ {0} /\ new.shares \in Nat /\ old.per \in Nat
          /\ new.cost \in Nat
      BY <1>1
    <3> DEFINE oc == old.cost
               np == new.per
               ns == new.shares
               op == old.per
               nc == new.cost
    <3>4. (oc * ns) * np = (c * op) * np
      <4>0. oc \in Nat /\ np \in Nat /\ ns \in Nat /\ op \in Nat /\ nc \in Nat /\ c \in Nat
            /\ oc * np = nc * op /\ nc * ns = c * np
        BY <3>2, <3>3
      <4> HIDE DEF oc, np, ns, op, nc
      <4>1. (oc * ns) * np = (oc * np) * ns
        BY <4>0
      <4>2. (nc * op) * ns = (nc * ns) * op
        BY <4>0
      <4>3. (c * np) * op = (c * op) * np
        BY <4>0
      <4> QED
        BY <4>0, <4>1, <4>2, <4>3
    <3>5. oc * ns \in Nat /\ c * op \in Nat
      BY <3>3, Rearranged
    <3>6. oc * ns = c * op
      BY <3>3, <3>4, <3>5, Cancel
    <3> QED
      BY <2>1, <3>1, <3>6 DEF Rated
  <2> QED
    BY <2>2, <2>3
<1> HIDE DEF row, shares, latest
<1>7. /\ row \in Row /\ row.symbol = mid.symbol /\ row.shares = mid.shares /\ row.latest = mid.latest
      /\ \A c \in Nat : Rated(mid, c) => Rated(row, c)
  BY <1>4, <1>5, ReducedRow
<1> QED
  BY <1>4, <1>6, <1>7 DEF row, shares, latest

\* A save that sets fields of the rows it loaded.
SetRows(now, old, new) ==
  [i \in 1..Len(now) |-> IF i <= Len(old) THEN SetFields(now[i], old[i], new[i]) ELSE now[i]]

\* What it stores: of every symbol the shares there were, or those it computed.
LEMMA SetAll ==
  ASSUME NEW old \in Seq(Row), NEW new, NEW now \in Seq(Row), NEW more \in Amounts,
         Extends(old, new, more), Len(new) = Len(old), SameShape(old, now)
  PROVE  LET stored == SetRows(now, old, new) IN
         /\ stored \in Seq(Row)
         /\ SameShape(now, stored)
         /\ \A s \in Symbols : SharesOf(stored, s) \in {SharesOf(now, s), SharesOf(new, s)}
         /\ \A h, p \in Amounts : SameHoldings(old, now) /\ Booked(new, h, p) => Booked(stored, h, p)
         /\ \A i \in 1..Len(now) :
              stored[i].latest = IF new[i].latest = old[i].latest THEN now[i].latest ELSE new[i].latest
<1> DEFINE N == Len(now)
           stored == SetRows(now, old, new)
<1>1. /\ N \in Nat /\ Len(old) = N /\ Len(new) = N /\ new \in Seq(Row)
      /\ \A i \in 1..N : /\ now[i] \in Row /\ old[i] \in Row /\ new[i] \in Row
                         /\ old[i].symbol = now[i].symbol /\ new[i].symbol = old[i].symbol
                         /\ old[i].symbol \in Symbols
                         /\ now[i].shares \in Nat /\ old[i].shares \in Nat /\ new[i].shares \in Nat
  BY Rows DEF SameShape, Extends
<1>2. \A i \in 1..N : stored[i] = SetFields(now[i], old[i], new[i])
  BY <1>1 DEF SetRows
<1>3. stored = [i \in 1..N |-> stored[i]]
  BY DEF SetRows
<1> HIDE DEF N, stored
<1>4. ASSUME NEW i \in 1..N
      PROVE  /\ stored[i] \in Row /\ stored[i].symbol = now[i].symbol
             /\ stored[i].shares = IF new[i].shares = old[i].shares THEN now[i].shares ELSE new[i].shares
             /\ stored[i].latest = IF new[i].latest = old[i].latest THEN now[i].latest ELSE new[i].latest
             /\ \A c \in Nat :
                  /\ now[i].shares = old[i].shares /\ now[i].cost = old[i].cost /\ now[i].per = old[i].per
                  /\ Rated(new[i], c)
                  => Rated(stored[i], c)
  <2> DEFINE row == SetFields(now[i], old[i], new[i])
  <2>1. now[i] \in Row /\ old[i] \in Row /\ new[i] \in Row
    BY <1>1
  <2>2. /\ row \in Row /\ row.symbol = now[i].symbol
        /\ row.shares = IF new[i].shares = old[i].shares THEN now[i].shares ELSE new[i].shares
        /\ row.latest = IF new[i].latest = old[i].latest THEN now[i].latest ELSE new[i].latest
        /\ \A c \in Nat :
             /\ now[i].shares = old[i].shares /\ now[i].cost = old[i].cost /\ now[i].per = old[i].per
             /\ Rated(new[i], c)
             => Rated(row, c)
    BY <2>1, SetRow
  <2>3. stored[i] = row
    BY <1>2
  <2> HIDE DEF row
  <2> QED
    BY <2>2, <2>3
<1>5. stored \in Seq(Row) /\ Len(stored) = N /\ DOMAIN stored = 1..N
  <2>1. \A i \in 1..N : stored[i] \in Row
    BY <1>4
  <2> DEFINE q == [i \in 1..N |-> stored[i]]
  <2>2. q \in Seq(Row) /\ Len(q) = N /\ DOMAIN q = 1..N
    <3>1. N \in Nat
      BY <1>1
    <3>2. q \in [1..N -> Row]
      BY <2>1
    <3> HIDE DEF q
    <3> QED
      BY <3>1, <3>2, LenProperties
  <2>3. stored = q
    BY <1>3
  <2> HIDE DEF q
  <2> QED
    BY <2>2, <2>3
<1>6. ASSUME NEW i \in 1..N, ~ IsFirst(now, i)  PROVE now[i].shares = stored[i].shares
  <2>1. ~ IsFirst(old, i)
    <3>1. \A j \in 1..(i - 1) : j \in 1..N
      BY <1>1
    <3> QED
      BY <1>1, <1>6, <3>1 DEF IsFirst
  <2>2. new[i].shares = old[i].shares
    BY <1>1, <1>6, <2>1 DEF Extends
  <2> QED
    BY <1>4, <2>2
<1>7. SameShape(now, stored)
  BY <1>4, <1>5, <1>6 DEF SameShape, N
<1>8. ASSUME NEW s \in Symbols  PROVE SharesOf(stored, s) \in {SharesOf(now, s), SharesOf(new, s)}
  <2>1. CASE more[s] = 0
    <3>1. ASSUME NEW i \in 1..N, now[i].symbol = s  PROVE stored[i].shares = now[i].shares
      <4>1. new[i].shares = old[i].shares
        BY <1>1, <2>1, <3>1 DEF Extends
      <4> QED
        BY <1>4, <4>1
    <3>2. SharesOf(stored, s) = SharesOf(now, s)
      <4>1. Len(stored) = Len(now)
        BY <1>5 DEF N
      <4>2. ASSUME NEW i \in 1..Len(stored)
            PROVE  (IF stored[i].symbol = s THEN stored[i].shares ELSE 0)
                     = (IF now[i].symbol = s THEN now[i].shares ELSE 0)
        <5>1. i \in 1..N
          BY <1>5, <4>2
        <5>2. stored[i].symbol = now[i].symbol /\ now[i].symbol = now[i].symbol
          BY <1>1, <1>4, <5>1
        <5>3. now[i].symbol = s => stored[i].shares = now[i].shares
          BY <3>1, <5>1
        <5> QED
          BY <5>2, <5>3
      <4> QED
        BY <4>1, <4>2, SharesSame
    <3> QED
      BY <3>2
  <2>2. CASE more[s] # 0
    <3>1. ASSUME NEW i \in 1..N, now[i].symbol = s  PROVE stored[i].shares = new[i].shares
      <4>1. CASE IsFirst(old, i)
        <5>1. new[i].shares = old[i].shares + more[s]
          BY <1>1, <3>1, <4>1 DEF Extends
        <5>2. new[i].shares # old[i].shares
          BY <1>1, <2>2, <5>1 DEF Amounts
        <5> QED
          BY <1>4, <5>2
      <4>2. CASE ~ IsFirst(old, i)
        <5>1. now[i].shares = old[i].shares
          BY <1>1, <4>2 DEF SameShape
        <5> QED
          BY <1>4, <5>1
      <4> QED
        BY <4>1, <4>2
    <3>2. SharesOf(stored, s) = SharesOf(new, s)
      <4>1. Len(stored) = Len(new)
        BY <1>1, <1>5
      <4>2. ASSUME NEW i \in 1..Len(stored)
            PROVE  (IF stored[i].symbol = s THEN stored[i].shares ELSE 0)
                     = (IF new[i].symbol = s THEN new[i].shares ELSE 0)
        <5>1. i \in 1..N
          BY <1>5, <4>2
        <5>2. stored[i].symbol = now[i].symbol /\ new[i].symbol = now[i].symbol
          BY <1>1, <1>4, <5>1
        <5>3. now[i].symbol = s => stored[i].shares = new[i].shares
          BY <3>1, <5>1
        <5> QED
          BY <5>2, <5>3
      <4> QED
        BY <4>1, <4>2, SharesSame
    <3> QED
      BY <3>2
  <2> QED
    BY <2>1, <2>2
<1>9. ASSUME NEW h \in Amounts, NEW p \in Amounts, SameHoldings(old, now), Booked(new, h, p)
      PROVE  Booked(stored, h, p)
  <2>1. \A i \in 1..N : /\ now[i].shares = old[i].shares /\ now[i].cost = old[i].cost
                        /\ now[i].per = old[i].per
    BY <1>1, <1>9 DEF SameHoldings
  <2>2. \A i \in 1..N : stored[i].symbol = new[i].symbol /\ stored[i].shares = new[i].shares
    BY <1>1, <1>4, <2>1
  <2>3. DOMAIN new = 1..N
    BY <1>1
  <2>4. OneRowPerSymbol(stored)
    BY <1>5, <1>9, <2>2, <2>3 DEF Booked, OneRowPerSymbol
  <2>5. ASSUME NEW s \in Symbols  PROVE SharesOf(stored, s) = h[s]
    <3>1. SharesOf(stored, s) = SharesOf(new, s)
      <4>1. /\ Len(stored) = Len(new)
            /\ \A i \in 1..Len(stored) :
                 (IF stored[i].symbol = s THEN stored[i].shares ELSE 0)
                   = (IF new[i].symbol = s THEN new[i].shares ELSE 0)
        BY <1>1, <1>5, <2>2
      <4> QED
        BY <4>1, SharesSame
    <3> QED
      BY <1>9, <3>1 DEF Booked
  <2>6. ASSUME NEW i \in 1..N  PROVE Rated(stored[i], p[stored[i].symbol])
    <3>1. Rated(new[i], p[new[i].symbol])
      BY <1>1, <1>9, <2>6 DEF Booked
    <3>2. p[new[i].symbol] \in Nat
      BY <1>1 DEF Amounts
    <3> QED
      BY <1>4, <2>1, <2>2, <3>1, <3>2
  <2>7. ASSUME NEW s \in Symbols, \A i \in 1..N : stored[i].symbol # s  PROVE h[s] = 0 /\ p[s] = 0
    BY <1>1, <1>9, <2>2, <2>7 DEF Booked
  <2> QED
    BY <1>5, <2>4, <2>5, <2>6, <2>7 DEF Booked
<1> QED
  BY <1>4, <1>5, <1>7, <1>8, <1>9 DEF N, stored

\* What a purchase in progress has loaded: no more shares than were bought, and, while its
\* version is the one stored, the rows that are stored; all their holdings if nobody else
\* has saved.
LoadedOK(b) ==
  LET p == TargetOf[b]
      old == copy[b].rows IN
  /\ doc[p] # Absent
  /\ \A s \in Symbols : SharesOf(old, s) <= bought[p][s]
  /\ Exists(p) =>
       /\ copy[b].ver <= doc[p].ver
       /\ copy[b].ver = doc[p].ver => SameShape(old, doc[p].rows)
       /\ b \notin stale => copy[b].ver = doc[p].ver /\ SameHoldings(old, doc[p].rows)

\* No document holds more than was bought, and it is booked unless raced.
StoredOK(p) ==
  /\ doc[p] = Absent => \A s \in Symbols : bought[p][s] = 0 /\ spent[p][s] = 0
  /\ Exists(p) =>
       /\ \A s \in Symbols : SharesOf(doc[p].rows, s) <= bought[p][s]
       /\ p \notin raced => Booked(doc[p].rows, bought[p], spent[p])

\* Trades are recorded after the save.
RecordedOK(b) == (pc[b] \in {"recording", "done"} \/ trades[b] > 0) => b \in saved

\* The inductive invariant.
IInv ==
  /\ TypeOK
  /\ \A b \in Buys : pc[b] = "saving" => LoadedOK(b)
  /\ \A p \in Portfolios : StoredOK(p)
  /\ \A b \in Buys : RecordedOK(b)

\* Type correctness, document by document,
LEMMA Documents ==
  ASSUME TypeOK, NEW p \in Portfolios, Exists(p)
  PROVE  doc[p] \in Doc /\ doc[p].rows \in Seq(Row) /\ doc[p].ver \in Nat /\ doc[p].name \in Names
         /\ doc[p] # Absent
<1>1. doc[p] \in Doc
  BY DEF TypeOK, Exists
<1> QED
  BY <1>1, PortfolioAssumption DEF Doc

\* copy by copy,
LEMMA Copies ==
  ASSUME TypeOK, NEW b \in Buys, pc[b] = "saving"
  PROVE  /\ copy[b] \in Doc /\ copy[b].rows \in Seq(Row) /\ copy[b].ver \in Nat
         /\ TargetOf[b] \in Portfolios /\ ItemsOf[b] \in Seq(Item) /\ Len(ItemsOf[b]) > 0
<1>1. copy[b] \in Doc
  BY DEF TypeOK
<1>2. TargetOf[b] \in Portfolios /\ ItemsOf[b] \in Seq(Item) /\ ItemsOf[b] # <<>>
  BY PortfolioAssumption
<1>3. Len(ItemsOf[b]) > 0
  BY <1>2
<1> QED
  BY <1>1, <1>2, <1>3 DEF Doc

\* and of the histories.
LEMMA Books ==
  ASSUME TypeOK, NEW p \in Portfolios
  PROVE  bought[p] \in Amounts /\ spent[p] \in Amounts
BY DEF TypeOK, Amounts

\* What the save of a purchase leaves.
LEMMA SaveStores ==
  ASSUME IInv, NEW b \in Buys, pc[b] = "saving", Matches(b)
  PROVE  LET p == TargetOf[b]
             now == doc[p].rows IN
         /\ Stored(b) \in Seq(Row)
         /\ \A s \in Symbols : SharesOf(Stored(b), s) <= Plus(bought[p], Held(ItemsOf[b]))[s]
         /\ p \notin raced /\ b \notin stale =>
              Booked(Stored(b), Plus(bought[p], Held(ItemsOf[b])), Plus(spent[p], Paid(ItemsOf[b])))
         /\ ~ Pushes(b) => SameShape(now, Stored(b))
         /\ \A i \in 1..Len(now) :
              Stored(b)[i].latest # now[i].latest =>
                /\ i \in 1..Len(copy[b].rows)
                /\ now[i].latest # NoPrice => copy[b].rows[i].latest # now[i].latest
<1> DEFINE p == TargetOf[b]
           now == doc[p].rows
           old == copy[b].rows
           new == Applied(b)
           items == ItemsOf[b]
           stored == Stored(b)
<1>1. TypeOK /\ LoadedOK(b) /\ p \in Portfolios /\ StoredOK(p) /\ Exists(p)
  BY PortfolioAssumption DEF IInv, Matches
<1>2. /\ old \in Seq(Row) /\ items \in Seq(Item) /\ Len(items) > 0 /\ copy[b].ver \in Nat
      /\ now \in Seq(Row) /\ doc[p].ver \in Nat
      /\ bought[p] \in Amounts /\ spent[p] \in Amounts
      /\ Held(items) \in Amounts /\ Paid(items) \in Amounts
  BY <1>1, Documents, Copies, Books, Items
<1>3. Extends(old, new, Held(items))
  BY <1>2, AfterExtends DEF Applied
<1>4. \A h, q \in Amounts : Booked(old, h, q) => Booked(new, Plus(h, Held(items)), Plus(q, Paid(items)))
  BY <1>2, AfterBooked DEF Applied
<1>5. new \in Seq(Row) /\ Len(old) \in Nat /\ Len(new) \in Nat /\ Len(old) <= Len(new) /\ Len(now) \in Nat
      /\ Len(items) \in Nat
  BY <1>2, <1>3, Rows, Items DEF Extends
<1>6. /\ Pushes(b) <=> Len(new) > Len(old)
      /\ ChangesRows(b) <=> \/ \E i \in 1..Len(old) : new[i] # old[i]
                            \/ Len(items) > Len(new) - Len(old)
      /\ ChangesRows(b) => doc[p].ver = copy[b].ver
      /\ stored = IF ChangesRows(b) /\ Pushes(b) THEN new
                  ELSE IF Pushes(b) THEN PushRows(now, old, new) ELSE SetRows(now, old, new)
  BY DEF Pushes, ChangesRows, Matches, Stored, PushRows, SetRows
<1>7. /\ \A s \in Symbols : SharesOf(old, s) <= bought[p][s]
      /\ \A s \in Symbols : SharesOf(now, s) <= bought[p][s]
      /\ copy[b].ver = doc[p].ver => SameShape(old, now)
      /\ b \notin stale => SameHoldings(old, now)
      /\ p \notin raced => Booked(now, bought[p], spent[p])
  BY <1>1 DEF LoadedOK, StoredOK
<1> DEFINE h == Plus(bought[p], Held(items))
           q == Plus(spent[p], Paid(items))
<1>8. \A s \in Symbols :
        /\ bought[p][s] \in Nat /\ Held(items)[s] \in Nat /\ h[s] = bought[p][s] + Held(items)[s]
        /\ SharesOf(old, s) \in Nat /\ SharesOf(now, s) \in Nat
        /\ SharesOf(new, s) = SharesOf(old, s) + Held(items)[s]
  BY <1>2, <1>3, Rows DEF Amounts, Plus, Extends
<1>9. h \in Amounts /\ q \in Amounts
  BY <1>2, Sums
<1>10. p \notin raced /\ b \notin stale => Booked(new, h, q)
  <2>1. ASSUME p \notin raced, b \notin stale  PROVE Booked(new, h, q)
    <3>1. SameHoldings(now, old)
      BY <1>7, <2>1 DEF SameHoldings
    <3>2. Booked(old, bought[p], spent[p])
      BY <1>2, <1>7, <2>1, <3>1, SameHoldingsSums
    <3> QED
      BY <1>2, <1>4, <3>2
  <2> QED
    BY <2>1
<1>11. \A i \in 1..Len(old) : old[i].latest # NoPrice => new[i].latest = old[i].latest
  BY <1>3 DEF Extends
<1> HIDE DEF h, q, new, items, stored, now, old, p
<1> DEFINE Goal == /\ stored \in Seq(Row)
                   /\ \A s \in Symbols : SharesOf(stored, s) <= h[s]
                   /\ p \notin raced /\ b \notin stale => Booked(stored, h, q)
                   /\ ~ Pushes(b) => SameShape(now, stored)
                   /\ \A i \in 1..Len(now) :
                        stored[i].latest # now[i].latest =>
                          /\ i \in 1..Len(old)
                          /\ now[i].latest # NoPrice => old[i].latest # now[i].latest
<1>12. ASSUME ChangesRows(b), Pushes(b)  PROVE Goal
  <2>1. stored = new /\ SameShape(old, now)
    BY <1>6, <1>7, <1>12
  <2>2. ASSUME NEW i \in 1..Len(now), stored[i].latest # now[i].latest
        PROVE  /\ i \in 1..Len(old)
               /\ now[i].latest # NoPrice => old[i].latest # now[i].latest
    <3>1. i \in 1..Len(old)
      BY <2>1, <2>2 DEF SameShape
    <3> QED
      BY <1>11, <2>1, <2>2, <3>1
  <2>3. \A s \in Symbols : SharesOf(stored, s) <= h[s]
    BY <1>7, <1>8, <2>1
  <2> QED
    BY <1>5, <1>10, <1>12, <2>1, <2>2, <2>3
<1>13. ASSUME ~ ChangesRows(b), Pushes(b)  PROVE Goal
  <2>1. /\ stored = PushRows(now, old, new)
        /\ \A i \in 1..Len(old) : new[i] = old[i]
    BY <1>6, <1>13
  <2>2. /\ stored \in Seq(Row)
        /\ \A s \in Symbols : SharesOf(stored, s) = SharesOf(now, s) + Held(items)[s]
        /\ SameHoldings(old, now) => SameHoldings(new, stored)
        /\ \A i \in 1..Len(now) : stored[i] = now[i]
    <3>1. LET r == PushRows(now, old, new) IN
          /\ r \in Seq(Row)
          /\ \A s \in Symbols : SharesOf(r, s) = SharesOf(now, s) + Held(items)[s]
          /\ SameHoldings(old, now) => SameHoldings(new, r)
          /\ \A i \in 1..Len(now) : r[i] = now[i]
      BY <1>2, <1>3, <2>1, Pushed
    <3> QED
      BY <2>1, <3>1
  <2>3. \A s \in Symbols : SharesOf(stored, s) <= h[s]
    BY <1>7, <1>8, <2>2
  <2>4. p \notin raced /\ b \notin stale => Booked(stored, h, q)
    BY <1>5, <1>7, <1>10, <2>2, SameHoldingsSums
  <2> QED
    BY <1>13, <2>2, <2>3, <2>4
<1>14. ASSUME ~ Pushes(b)  PROVE Goal
  <2>0. ChangesRows(b) /\ Len(new) = Len(old)
    BY <1>2, <1>5, <1>6, <1>14
  <2>1. /\ stored = SetRows(now, old, new)
        /\ SameShape(old, now)
    BY <1>6, <1>7, <1>14, <2>0
  <2>2. /\ stored \in Seq(Row)
        /\ SameShape(now, stored)
        /\ \A s \in Symbols : SharesOf(stored, s) \in {SharesOf(now, s), SharesOf(new, s)}
        /\ \A a, c \in Amounts : SameHoldings(old, now) /\ Booked(new, a, c) => Booked(stored, a, c)
        /\ \A i \in 1..Len(now) :
             stored[i].latest = IF new[i].latest = old[i].latest THEN now[i].latest ELSE new[i].latest
    BY <1>2, <1>3, <2>0, <2>1, SetAll
  <2>3. ASSUME NEW s \in Symbols  PROVE SharesOf(stored, s) <= h[s]
    <3>1. SharesOf(stored, s) = SharesOf(now, s) \/ SharesOf(stored, s) = SharesOf(new, s)
      BY <2>2
    <3> QED
      BY <1>7, <1>8, <3>1
  <2>4. p \notin raced /\ b \notin stale => Booked(stored, h, q)
    BY <1>7, <1>9, <1>10, <2>2
  <2>5. ASSUME NEW i \in 1..Len(now), stored[i].latest # now[i].latest
        PROVE  /\ i \in 1..Len(old)
               /\ now[i].latest # NoPrice => old[i].latest # now[i].latest
    <3>1. i \in 1..Len(old)
      BY <2>1, <2>5 DEF SameShape
    <3>2. new[i].latest # old[i].latest
      BY <2>2, <2>5
    <3> QED
      BY <1>11, <3>1, <3>2
  <2> QED
    BY <2>2, <2>3, <2>4, <2>5
<1>15. Goal
  BY <1>12, <1>13, <1>14
<1> QED
  BY <1>15 DEF h, q, new, items, stored, now, old, p

\* The cost of a symbol row by row.
Cost(rows, s) == [i \in 1..Len(rows) |-> IF rows[i].symbol = s THEN rows[i].cost ELSE 0]

\* What was paid for a symbol at the start is the cost of its only row.
LEMMA Costs ==
  ASSUME NEW rows \in Seq(Row), NEW s
  PROVE  /\ CostOf(rows, s) \in Nat
         /\ (\A i \in 1..Len(rows) : rows[i].symbol # s) => CostOf(rows, s) = 0
         /\ \A i \in 1..Len(rows) :
              (rows[i].symbol = s /\ \A k \in 1..Len(rows) : rows[k].symbol = s => k = i)
                => CostOf(rows, s) = rows[i].cost
<1>1. \A i \in 1..Len(rows) : rows[i].cost \in Nat
  <2>1. \A row \in Row : row.cost \in Nat
    BY DEF Row
  <2> QED
    BY <2>1
<1>2. Len(rows) \in Nat
  OBVIOUS
<1>3. Cost(rows, s) \in Numbers /\ Len(Cost(rows, s)) = Len(rows)
  BY <1>1, <1>2 DEF Cost, Numbers
<1>4. CostOf(rows, s) = Total(Cost(rows, s))
  BY DEF CostOf, Cost
<1>5. ASSUME \A i \in 1..Len(rows) : rows[i].symbol # s  PROVE CostOf(rows, s) = 0
  <2>1. \A i \in 1..Len(Cost(rows, s)) : Cost(rows, s)[i] = 0
    BY <1>3, <1>5 DEF Cost
  <2> QED
    BY <1>3, <1>4, <2>1, TotalZero
<1>6. ASSUME NEW i \in 1..Len(rows), rows[i].symbol = s,
             \A k \in 1..Len(rows) : rows[k].symbol = s => k = i
      PROVE  CostOf(rows, s) = rows[i].cost
  <2>1. Cost(rows, s)[i] = rows[i].cost /\ \A k \in 1..Len(rows) : k # i => Cost(rows, s)[k] = 0
    BY <1>6 DEF Cost
  <2>2. i \in 1..Len(Cost(rows, s)) /\ \A k \in 1..Len(Cost(rows, s)) : k # i => Cost(rows, s)[k] = 0
    BY <1>3, <2>1
  <2>3. Total(Cost(rows, s)) = Cost(rows, s)[i]
    BY <1>3, <2>2, TotalOnly
  <2> QED
    BY <1>4, <2>1, <2>3
<1> QED
  BY <1>3, <1>4, <1>5, <1>6, TotalNat

\* The invariant holds at the start,
LEMMA InitInv == Init => IInv
<1> SUFFICES ASSUME Init  PROVE IInv
  OBVIOUS
<1>1. PICK n \in Names : doc \in [Portfolios -> {Absent} \cup [ver : {0}, name : {n}, rows : InitRows]]
  BY DEF Init
<1>2. ASSUME NEW p \in Portfolios
      PROVE  \/ doc[p] = Absent
             \/ /\ doc[p] \in Doc /\ Exists(p) /\ doc[p].rows \in InitRows /\ doc[p].rows \in Seq(Row)
  <2>1. CASE doc[p] = Absent
    BY <2>1
  <2>2. CASE doc[p] \in [ver : {0}, name : {n}, rows : InitRows]
    <3>1. doc[p].rows \in InitRows /\ doc[p].rows \in Seq(Row)
      BY <2>2, PortfolioAssumption
    <3>2. doc[p] \in Doc
      BY <2>2, <3>1 DEF Doc
    <3>3. Exists(p)
      BY <3>2, PortfolioAssumption DEF Exists
    <3> QED
      BY <3>1, <3>2, <3>3
  <2> QED
    BY <1>1, <2>1, <2>2
<1>3. ASSUME NEW p \in Portfolios, NEW s \in Symbols
      PROVE  /\ bought[p][s] = IF Exists(p) THEN SharesOf(doc[p].rows, s) ELSE 0
             /\ spent[p][s] = IF Exists(p) THEN CostOf(doc[p].rows, s) ELSE 0
             /\ bought[p][s] \in Nat /\ spent[p][s] \in Nat
  <2>1. /\ bought[p][s] = IF Exists(p) THEN SharesOf(doc[p].rows, s) ELSE 0
        /\ spent[p][s] = IF Exists(p) THEN CostOf(doc[p].rows, s) ELSE 0
    BY DEF Init
  <2>2. Exists(p) => doc[p].rows \in Seq(Row)
    BY <1>2 DEF Exists
  <2>3. Exists(p) => SharesOf(doc[p].rows, s) \in Nat /\ CostOf(doc[p].rows, s) \in Nat
    BY <2>2, Rows, Costs
  <2> QED
    BY <2>1, <2>3
<1>4. TypeOK
  <2>1. doc \in [Portfolios -> {Absent, Removed} \cup Doc]
    BY <1>1, <1>2
  <2>2. /\ trades \in [Buys -> Nat] /\ pc = [b \in Buys |-> "start"] /\ copy \in [Buys -> {Absent} \cup Doc]
        /\ tick \in [Symbols -> Prices \cup {NoPrice}] /\ saved = {} /\ stale = {} /\ raced = {}
    BY DEF Init
  <2>3. ASSUME NEW b \in Buys  PROVE trades[b] <= Len(ItemsOf[b])
    <3>1. trades[b] = 0 /\ Len(ItemsOf[b]) \in Nat
      BY PortfolioAssumption DEF Init
    <3> QED
      BY <3>1
  <2>4. bought \in [Portfolios -> [Symbols -> Nat]] /\ spent \in [Portfolios -> [Symbols -> Nat]]
    <3>1. /\ bought = [p \in Portfolios |-> [s \in Symbols |-> bought[p][s]]]
          /\ spent = [p \in Portfolios |-> [s \in Symbols |-> spent[p][s]]]
      BY DEF Init
    <3> QED
      BY <1>3, <3>1
  <2> QED
    BY <2>1, <2>2, <2>3, <2>4 DEF TypeOK
<1>5. ASSUME NEW p \in Portfolios  PROVE StoredOK(p)
  <2>1. CASE doc[p] = Absent
    BY <1>3, <2>1 DEF StoredOK, Exists
  <2>2. CASE doc[p] # Absent
    <3> DEFINE rows == doc[p].rows
    <3>1. Exists(p) /\ rows \in InitRows /\ rows \in Seq(Row)
      BY <1>2, <2>2
    <3>2. /\ OneRowPerSymbol(rows) /\ DOMAIN rows = 1..Len(rows)
          /\ \A i \in 1..Len(rows) : rows[i].per = rows[i].shares /\ rows[i].symbol \in Symbols
                                     /\ rows[i].cost \in Nat /\ rows[i].shares \in Nat
      <4>1. DOMAIN rows = 1..Len(rows) /\ \A i \in 1..Len(rows) : rows[i] \in Row
        BY <3>1, Rows
      <4>2. \A row \in Row : row.symbol \in Symbols /\ row.cost \in Nat /\ row.shares \in Nat
        BY DEF Row
      <4> QED
        BY <3>1, <4>1, <4>2, PortfolioAssumption
    <3> HIDE DEF rows
    <3>3. \A s \in Symbols : /\ bought[p][s] = SharesOf(rows, s) /\ spent[p][s] = CostOf(rows, s)
                             /\ SharesOf(rows, s) \in Nat
      BY <1>3, <3>1, Rows DEF rows
    <3>4. ASSUME NEW i \in 1..Len(rows)  PROVE Rated(rows[i], spent[p][rows[i].symbol])
      <4>1. \A k \in 1..Len(rows) : rows[k].symbol = rows[i].symbol => k = i
        BY <3>2 DEF OneRowPerSymbol
      <4>2. CostOf(rows, rows[i].symbol) = rows[i].cost
        BY <3>1, <4>1, Costs
      <4> QED
        BY <3>2, <3>3, <4>2 DEF Rated
    <3>5. ASSUME NEW s \in Symbols, \A i \in 1..Len(rows) : rows[i].symbol # s
          PROVE  bought[p][s] = 0 /\ spent[p][s] = 0
      <4>1. rows \in Seq(Entry)
        BY <3>1, Rows
      <4>2. SharesOf(rows, s) = 0
        BY <3>5, <4>1, SharesNone
      <4>3. CostOf(rows, s) = 0
        BY <3>1, <3>5, Costs
      <4> QED
        BY <3>3, <4>2, <4>3
    <3>6. Booked(rows, bought[p], spent[p])
      BY <3>2, <3>3, <3>4, <3>5 DEF Booked
    <3>7. \A s \in Symbols : SharesOf(rows, s) <= bought[p][s]
      BY <3>3
    <3> QED
      BY <2>2, <3>6, <3>7 DEF StoredOK, rows
  <2> QED
    BY <2>1, <2>2
<1>6. \A b \in Buys : pc[b] # "saving" /\ RecordedOK(b)
  BY DEF Init, RecordedOK
<1> QED
  BY <1>4, <1>5, <1>6 DEF IInv

\* A document goes on with the holdings it had, or is removed.
Alike(p) ==
  /\ doc'[p] = Absent => doc[p] = Absent
  /\ Exists(p)' =>
       Exists(p) /\ doc'[p].ver = doc[p].ver /\ SameHoldings(doc[p].rows, doc'[p].rows)

\* The books of a document that goes on with its holdings.
LEMMA AlikeStored ==
  ASSUME IInv, TypeOK', NEW p \in Portfolios, Alike(p),
         bought' = bought, spent' = spent, raced' = raced
  PROVE  StoredOK(p)'
<1>1. TypeOK /\ StoredOK(p)
  BY DEF IInv
<1>2. CASE ~ Exists(p)'
  BY <1>1, <1>2 DEF Alike, StoredOK
<1>3. CASE Exists(p)'
  <2>1. Exists(p) /\ SameHoldings(doc[p].rows, doc'[p].rows) /\ doc'[p] # Absent
    BY <1>3 DEF Alike, Exists
  <2>2. doc[p].rows \in Seq(Row) /\ doc'[p].rows \in Seq(Row)
    <3>1. doc'[p] \in Doc
      BY <1>3 DEF TypeOK, Exists
    <3> QED
      BY <1>1, <2>1, <3>1, Documents DEF Doc
  <2>3. /\ \A s : SharesOf(doc[p].rows, s) = SharesOf(doc'[p].rows, s)
        /\ \A h, q : Booked(doc[p].rows, h, q) => Booked(doc'[p].rows, h, q)
    BY <2>1, <2>2, SameHoldingsSums
  <2> QED
    BY <1>1, <2>1, <2>3 DEF StoredOK
<1> QED
  BY <1>2, <1>3

\* What was loaded of a document that goes on with its holdings.
LEMMA AlikeLoaded ==
  ASSUME IInv, TypeOK', NEW b \in Buys, Alike(TargetOf[b]), pc[b] = "saving", copy'[b] = copy[b],
         bought' = bought, stale' = stale
  PROVE  LoadedOK(b)'
<1> DEFINE p == TargetOf[b]
<1>1. TypeOK /\ LoadedOK(b) /\ p \in Portfolios /\ copy[b].rows \in Seq(Row)
  BY Copies DEF IInv
<1>2. doc'[p] # Absent /\ \A s \in Symbols : SharesOf(copy[b].rows, s) <= bought[p][s]
  BY <1>1 DEF Alike, LoadedOK
<1>3. ASSUME Exists(p)'
      PROVE  /\ copy[b].ver <= doc'[p].ver
             /\ copy[b].ver = doc'[p].ver => SameShape(copy[b].rows, doc'[p].rows)
             /\ b \notin stale => copy[b].ver = doc'[p].ver /\ SameHoldings(copy[b].rows, doc'[p].rows)
  <2>1. Exists(p) /\ doc'[p].ver = doc[p].ver /\ SameHoldings(doc[p].rows, doc'[p].rows)
    BY <1>3 DEF Alike
  <2>2. doc[p].rows \in Seq(Row) /\ doc'[p].rows \in Seq(Row)
    <3>1. doc'[p] \in Doc
      BY <1>1, <1>3 DEF TypeOK, Exists
    <3> QED
      BY <1>1, <2>1, <3>1, Documents DEF Doc
  <2>3. SameShape(doc[p].rows, doc'[p].rows)
    BY <2>1, <2>2, SameHoldingsSums
  <2>4. /\ copy[b].ver <= doc[p].ver
        /\ copy[b].ver = doc[p].ver => SameShape(copy[b].rows, doc[p].rows)
        /\ b \notin stale => copy[b].ver = doc[p].ver /\ SameHoldings(copy[b].rows, doc[p].rows)
    BY <1>1, <2>1 DEF LoadedOK
  <2>5. copy[b].ver = doc'[p].ver => SameShape(copy[b].rows, doc'[p].rows)
    BY <1>1, <2>1, <2>2, <2>3, <2>4, SameShapeOn
  <2>6. b \notin stale => copy[b].ver = doc'[p].ver /\ SameHoldings(copy[b].rows, doc'[p].rows)
    BY <2>1, <2>4, SameHoldingsOn
  <2> QED
    BY <2>1, <2>4, <2>5, <2>6
<1> QED
  BY <1>2, <1>3 DEF LoadedOK

\* A step that changes no holdings.
LEMMA Quiet ==
  ASSUME IInv, TypeOK', \A p \in Portfolios : Alike(p),
         \A b \in Buys : pc'[b] = "saving" => pc[b] = "saving" /\ copy'[b] = copy[b],
         \A b \in Buys : RecordedOK(b)',
         bought' = bought, spent' = spent, stale' = stale, raced' = raced
  PROVE  IInv'
<1>1. \A b \in Buys : TargetOf[b] \in Portfolios
  BY PortfolioAssumption
<1>2. ASSUME NEW b \in Buys, pc'[b] = "saving"  PROVE LoadedOK(b)'
  BY <1>1, <1>2, AlikeLoaded
<1>3. ASSUME NEW p \in Portfolios  PROVE StoredOK(p)'
  BY <1>3, AlikeStored
<1> QED
  BY <1>2, <1>3 DEF IInv

\* A document that does not change.
LEMMA SameDocuments ==
  ASSUME NEW p, doc' = doc  PROVE Alike(p)
BY DEF Alike, SameHoldings, Exists

----------------------------------------------------------------------------
\* The invariant, action by action.
LEMMA LoadStep ==
  ASSUME IInv, NEW b \in Buys, Load(b)
  PROVE  IInv'
<1>1. TypeOK /\ TargetOf[b] \in Portfolios
  BY PortfolioAssumption DEF IInv
<1>2. TypeOK'
  <2>1. Exists(TargetOf[b]) => doc[TargetOf[b]] \in Doc
    BY <1>1, Documents
  <2>2. CASE /\ Exists(TargetOf[b])
             /\ copy' = [copy EXCEPT ![b] = doc[TargetOf[b]]]
             /\ pc' = [pc EXCEPT ![b] = "saving"]
    BY <1>1, <2>1, <2>2 DEF TypeOK, Load
  <2>3. CASE pc' = [pc EXCEPT ![b] = "notfound"] /\ UNCHANGED copy
    BY <1>1, <2>3 DEF TypeOK, Load
  <2> QED
    BY <2>2, <2>3 DEF Load
<1>3. \A p : Alike(p)
  BY SameDocuments DEF Load
<1>4. ASSUME NEW c \in Buys  PROVE RecordedOK(c)'
  BY <1>1 DEF Load, RecordedOK, IInv, TypeOK
<1>5. ASSUME NEW c \in Buys, pc'[c] = "saving"  PROVE LoadedOK(c)'
  <2>1. CASE c # b
    <3>1. pc[c] = "saving" /\ copy'[c] = copy[c]
      BY <1>1, <1>5, <2>1 DEF Load, TypeOK
    <3> QED
      BY <1>2, <1>3, <3>1, AlikeLoaded DEF Load
  <2>2. CASE c = b
    <3> DEFINE p == TargetOf[b]
    <3>1. Exists(p) /\ copy'[b] = doc[p] /\ StoredOK(p) /\ doc[p] # Absent
      BY <1>1, <1>5, <2>2 DEF Load, TypeOK, IInv, Exists
    <3>2. doc[p].ver \in Nat
      BY <1>1, <3>1, Documents
    <3>3. SameShape(doc[p].rows, doc[p].rows) /\ SameHoldings(doc[p].rows, doc[p].rows)
      BY DEF SameShape, SameHoldings
    <3> QED
      BY <2>2, <3>1, <3>2, <3>3 DEF LoadedOK, StoredOK, Load, Exists
  <2> QED
    BY <2>1, <2>2
<1>6. ASSUME NEW p \in Portfolios  PROVE StoredOK(p)'
  BY <1>2, <1>3, AlikeStored DEF Load
<1> QED
  BY <1>2, <1>4, <1>5, <1>6 DEF IInv

LEMMA SaveRejectedStep ==
  ASSUME IInv, NEW b \in Buys, SaveRejected(b)
  PROVE  IInv'
<1>1. TypeOK
  BY DEF IInv
<1>2. TypeOK'
  BY <1>1 DEF TypeOK, SaveRejected
<1>3. \A p : Alike(p)
  BY SameDocuments DEF SaveRejected
<1>4. \A c \in Buys : RecordedOK(c)'
  BY <1>1 DEF SaveRejected, RecordedOK, IInv, TypeOK
<1>5. \A c \in Buys : pc'[c] = "saving" => pc[c] = "saving" /\ copy'[c] = copy[c]
  BY <1>1 DEF SaveRejected, TypeOK
<1> QED
  BY <1>2, <1>3, <1>4, <1>5, Quiet DEF SaveRejected

LEMMA RecordTradesStep ==
  ASSUME IInv, NEW b \in Buys, RecordTrades(b)
  PROVE  IInv'
<1>1. TypeOK
  BY DEF IInv
<1>2. PICK n \in 0..Len(ItemsOf[b]) : trades' = [trades EXCEPT ![b] = n]
  <2>1. Len(ItemsOf[b]) \in Nat
    BY PortfolioAssumption
  <2> QED
    BY <2>1 DEF RecordTrades
<1>3. Len(ItemsOf[b]) \in Nat /\ n \in Nat /\ n <= Len(ItemsOf[b])
  BY <1>2, PortfolioAssumption
<1>4. PICK to \in {"done", "failed"} : pc' = [pc EXCEPT ![b] = to]
  BY DEF RecordTrades
<1>5. TypeOK'
  BY <1>1, <1>2, <1>3, <1>4 DEF TypeOK, RecordTrades
<1>6. \A p : Alike(p)
  BY SameDocuments DEF RecordTrades
<1>7. ASSUME NEW c \in Buys  PROVE RecordedOK(c)'
  <2>1. b \in saved
    BY DEF RecordTrades, RecordedOK, IInv
  <2> QED
    BY <1>1, <1>2, <1>4, <2>1 DEF RecordTrades, RecordedOK, IInv, TypeOK
<1>8. \A c \in Buys : pc'[c] = "saving" => pc[c] = "saving" /\ copy'[c] = copy[c]
  BY <1>1, <1>4 DEF RecordTrades, TypeOK
<1> QED
  BY <1>5, <1>6, <1>7, <1>8, Quiet DEF RecordTrades

LEMMA UpdateStep ==
  ASSUME IInv, NEW p \in Portfolios, NEW n \in Names, Update(p, n)
  PROVE  IInv'
<1>1. TypeOK /\ doc' = [doc EXCEPT ![p].name = n] /\ Exists(p)
  BY DEF IInv, Update
<1>2. doc[p] \in Doc
  BY <1>1, Documents
<1>3. doc'[p] \in Doc /\ doc'[p].rows = doc[p].rows /\ doc'[p].ver = doc[p].ver
      /\ \A q \in Portfolios : q # p => doc'[q] = doc[q]
  BY <1>1, <1>2 DEF TypeOK, Doc
<1>4. TypeOK'
  BY <1>1, <1>3 DEF TypeOK, Update
<1>5. ASSUME NEW q \in Portfolios  PROVE Alike(q)
  <2>1. doc'[p] # Absent
    BY <1>3, PortfolioAssumption
  <2> QED
    BY <1>1, <1>3, <2>1 DEF Alike, SameHoldings, Exists
<1>6. \A b \in Buys : RecordedOK(b)' /\ (pc'[b] = "saving" => pc[b] = "saving" /\ copy'[b] = copy[b])
  BY DEF Update, RecordedOK, IInv
<1> QED
  BY <1>4, <1>5, <1>6, Quiet DEF Update

LEMMA RemoveStep ==
  ASSUME IInv, NEW p \in Portfolios, RemovePortfolio(p)
  PROVE  IInv'
<1>1. TypeOK /\ doc' = [doc EXCEPT ![p] = Removed]
  BY DEF IInv, RemovePortfolio
<1>2. doc'[p] = Removed /\ \A q \in Portfolios : q # p => doc'[q] = doc[q]
  BY <1>1 DEF TypeOK
<1>3. TypeOK'
  BY <1>1, <1>2 DEF TypeOK, RemovePortfolio
<1>4. ASSUME NEW q \in Portfolios  PROVE Alike(q)
  BY <1>2, PortfolioAssumption DEF Alike, SameHoldings, Exists
<1>5. \A b \in Buys : RecordedOK(b)' /\ (pc'[b] = "saving" => pc[b] = "saving" /\ copy'[b] = copy[b])
  BY DEF RemovePortfolio, RecordedOK, IInv
<1> QED
  BY <1>3, <1>4, <1>5, Quiet DEF RemovePortfolio

\* The rows after a tick of s.
Priced(rows, s, v) ==
  [i \in DOMAIN rows |-> IF rows[i].symbol = s THEN [rows[i] EXCEPT !.latest = v] ELSE rows[i]]

\* A tick changes prices only.
LEMMA PricedRows ==
  ASSUME NEW rows \in Seq(Row), NEW s \in Symbols, NEW v \in Prices
  PROVE  /\ Priced(rows, s, v) \in Seq(Row) /\ SameHoldings(rows, Priced(rows, s, v))
         /\ \A i \in 1..Len(rows) :
              Priced(rows, s, v)[i].latest = IF rows[i].symbol = s THEN v ELSE rows[i].latest
<1> DEFINE new == Priced(rows, s, v)
           N == Len(rows)
<1>1. N \in Nat /\ DOMAIN rows = 1..N /\ \A i \in 1..N : rows[i] \in Row
  BY Rows
<1>2. new = [i \in 1..N |-> IF rows[i].symbol = s THEN [rows[i] EXCEPT !.latest = v] ELSE rows[i]]
  BY <1>1 DEF Priced
<1>3. ASSUME NEW row \in Row
      PROVE  /\ [row EXCEPT !.latest = v] \in Row
             /\ [row EXCEPT !.latest = v].symbol = row.symbol /\ [row EXCEPT !.latest = v].shares = row.shares
             /\ [row EXCEPT !.latest = v].cost = row.cost /\ [row EXCEPT !.latest = v].per = row.per
             /\ [row EXCEPT !.latest = v].latest = v
  BY DEF Row
<1>4. new \in [1..N -> Row]
  BY <1>1, <1>2, <1>3
<1> HIDE DEF new, N
<1>5. new \in Seq(Row) /\ Len(new) = N
  BY <1>1, <1>4, LenProperties
<1>6. ASSUME NEW i \in 1..N
      PROVE  /\ rows[i].symbol = new[i].symbol /\ rows[i].shares = new[i].shares
             /\ rows[i].cost = new[i].cost /\ rows[i].per = new[i].per
             /\ new[i].latest = IF rows[i].symbol = s THEN v ELSE rows[i].latest
  BY <1>1, <1>2, <1>3
<1> QED
  BY <1>5, <1>6 DEF SameHoldings, new, N

\* A tick, document by document.
LEMMA PricesOf ==
  ASSUME TypeOK, NEW s \in Symbols, NEW v \in Prices, UpdateHoldingPrices(s, v), NEW p \in Portfolios
  PROVE  IF Exists(p)
           THEN /\ doc'[p] \in Doc /\ doc'[p].ver = doc[p].ver
                /\ doc'[p].rows = Priced(doc[p].rows, s, v)
           ELSE doc'[p] = doc[p]
<1>1. CASE Exists(p)
  <2>1. doc[p] \in Doc /\ doc[p].rows \in Seq(Row)
    BY <1>1, Documents
  <2>2. doc'[p] = [doc[p] EXCEPT !.rows = Priced(doc[p].rows, s, v)]
    BY <1>1 DEF UpdateHoldingPrices, Priced
  <2>3. Priced(doc[p].rows, s, v) \in Seq(Row)
    BY <2>1, PricedRows
  <2> QED
    BY <1>1, <2>1, <2>2, <2>3 DEF Doc
<1>2. CASE ~ Exists(p)
  BY <1>2 DEF UpdateHoldingPrices
<1> QED
  BY <1>1, <1>2

LEMMA PricesStep ==
  ASSUME IInv, NEW s \in Symbols, NEW v \in Prices, UpdateHoldingPrices(s, v)
  PROVE  IInv'
<1>1. TypeOK
  BY DEF IInv
<1>2. ASSUME NEW p \in Portfolios  PROVE Alike(p) /\ doc'[p] \in {Absent, Removed} \cup Doc
  <2>1. CASE Exists(p)
    <3>1. doc'[p] \in Doc /\ doc'[p].ver = doc[p].ver /\ doc'[p].rows = Priced(doc[p].rows, s, v)
      BY <1>1, <2>1, PricesOf
    <3>2. SameHoldings(doc[p].rows, doc'[p].rows)
      BY <1>1, <2>1, <3>1, Documents, PricedRows
    <3>3. doc'[p] # Absent
      BY <3>1, PortfolioAssumption
    <3> QED
      BY <2>1, <3>1, <3>2, <3>3 DEF Alike
  <2>2. CASE ~ Exists(p)
    <3>1. doc'[p] = doc[p] /\ doc[p] \in {Absent, Removed}
      BY <1>1, <2>2, PricesOf DEF Exists
    <3> QED
      BY <2>2, <3>1 DEF Alike, Exists
  <2> QED
    BY <2>1, <2>2
<1>3. TypeOK'
  <2>1. doc' \in [Portfolios -> {Absent, Removed} \cup Doc]
    <3>1. doc' = [p \in Portfolios |-> doc'[p]]
      BY DEF UpdateHoldingPrices
    <3> QED
      BY <1>2, <3>1
  <2> QED
    BY <1>1, <2>1 DEF TypeOK, UpdateHoldingPrices
<1>4. \A b \in Buys : RecordedOK(b)' /\ (pc'[b] = "saving" => pc[b] = "saving" /\ copy'[b] = copy[b])
  BY DEF UpdateHoldingPrices, RecordedOK, IInv
<1> QED
  BY <1>2, <1>3, <1>4, Quiet DEF UpdateHoldingPrices

\* A new portfolio holds nothing, and nobody has loaded it.
LEMMA CreateStep ==
  ASSUME IInv, NEW p \in Portfolios, NEW n \in Names, Create(p, n)
  PROVE  IInv'
<1> DEFINE new == [ver |-> 0, name |-> n, rows |-> <<>>]
<1>1. TypeOK /\ doc' = [doc EXCEPT ![p] = new] /\ doc[p] = Absent
  BY DEF IInv, Create
<1>2. new \in Doc /\ new.rows = <<>> /\ <<>> \in Seq(Row) /\ Len(<<>>) = 0
  BY DEF Doc
<1> HIDE DEF new
<1>3. doc'[p] = new /\ \A q \in Portfolios : q # p => doc'[q] = doc[q]
  BY <1>1 DEF TypeOK
<1>4. TypeOK'
  BY <1>1, <1>2 DEF TypeOK, Create
<1>5. ASSUME NEW q \in Portfolios, q # p  PROVE Alike(q)
  BY <1>3, <1>5 DEF Alike, SameHoldings, Exists
<1>6. ASSUME NEW b \in Buys  PROVE RecordedOK(b)'
  BY DEF Create, RecordedOK, IInv
<1>7. ASSUME NEW b \in Buys, pc'[b] = "saving"  PROVE LoadedOK(b)'
  <2>1. pc[b] = "saving" /\ copy'[b] = copy[b] /\ LoadedOK(b) /\ TargetOf[b] \in Portfolios
    BY <1>7, PortfolioAssumption DEF Create, IInv
  <2>2. TargetOf[b] # p
    BY <1>1, <2>1 DEF LoadedOK
  <2> QED
    BY <1>4, <1>5, <2>1, <2>2, AlikeLoaded DEF Create
<1>8. ASSUME NEW q \in Portfolios  PROVE StoredOK(q)'
  <2>1. CASE q # p
    BY <1>4, <1>5, <2>1, AlikeStored DEF Create
  <2>2. CASE q = p
    <3>1. \A s \in Symbols : bought[p][s] = 0 /\ spent[p][s] = 0
      BY <1>1 DEF IInv, StoredOK
    <3>2. ASSUME NEW s  PROVE SharesOf(<<>>, s) = 0
      <4>1. <<>> \in Seq(Entry) /\ \A i \in 1..Len(<<>>) : <<>>[i].symbol # s
        BY <1>2
      <4> QED
        BY <4>1, SharesNone
    <3>3. Booked(<<>>, bought[p], spent[p])
      BY <1>2, <3>1, <3>2 DEF Booked, OneRowPerSymbol
    <3>4. \A s \in Symbols : SharesOf(<<>>, s) <= bought[p][s]
      BY <3>1, <3>2
    <3>5. doc'[p].rows = <<>> /\ doc'[p] # Absent
      BY <1>2, <1>3, PortfolioAssumption
    <3> QED
      BY <2>2, <3>3, <3>4, <3>5 DEF StoredOK, Create
  <2> QED
    BY <2>1, <2>2
<1> QED
  BY <1>4, <1>6, <1>7, <1>8 DEF IInv

\* The save: the other purchases of the portfolio are stale from now on, and those whose version still matches differ from it in the first rows of the symbols only.
LEMMA SaveStep ==
  ASSUME IInv, NEW b \in Buys, Save(b)
  PROVE  IInv'
<1> DEFINE p == TargetOf[b]
           items == ItemsOf[b]
           stored == Stored(b)
           h == Plus(bought[p], Held(items))
           q == Plus(spent[p], Paid(items))
<1>1. /\ TypeOK /\ p \in Portfolios /\ pc[b] = "saving" /\ Matches(b) /\ Exists(p) /\ StoredOK(p)
      /\ doc[p] \in Doc /\ doc[p].rows \in Seq(Row) /\ doc[p].ver \in Nat
      /\ bought[p] \in Amounts /\ spent[p] \in Amounts
      /\ Held(items) \in Amounts /\ Paid(items) \in Amounts
  <2>1. TypeOK /\ p \in Portfolios /\ pc[b] = "saving" /\ Matches(b) /\ Exists(p) /\ items \in Seq(Item)
    BY PortfolioAssumption DEF IInv, Save, Matches
  <2> QED
    BY <2>1, Documents, Books, Items DEF IInv
<1>2. /\ stored \in Seq(Row)
      /\ \A s \in Symbols : SharesOf(stored, s) <= h[s]
      /\ p \notin raced /\ b \notin stale => Booked(stored, h, q)
      /\ ~ Pushes(b) => SameShape(doc[p].rows, stored)
  BY <1>1, SaveStores
<1>3. h \in Amounts /\ q \in Amounts /\ \A s \in Symbols : bought[p][s] <= h[s] /\ bought[p][s] \in Nat
  <2>1. h \in Amounts /\ q \in Amounts
    BY <1>1, Sums
  <2>2. \A s \in Symbols : bought[p][s] \in Nat /\ Held(items)[s] \in Nat /\ h[s] = bought[p][s] + Held(items)[s]
    BY <1>1 DEF Amounts, Plus
  <2> QED
    BY <2>1, <2>2
<1> HIDE DEF stored
<1>4. /\ doc' = [doc EXCEPT ![p].rows = stored, ![p].ver = IF Pushes(b) THEN @ + 1 ELSE @]
      /\ pc' = [pc EXCEPT ![b] = "recording"]
      /\ saved' = saved \cup {b}
      /\ stale' = stale \cup {c \in Buys : pc[c] = "saving" /\ TargetOf[c] = p /\ c # b}
      /\ raced' = IF b \in stale THEN raced \cup {p} ELSE raced
      /\ UNCHANGED <<trades, copy, tick>>
  BY DEF Save, stored
<1>5. bought' = [bought EXCEPT ![p] = h] /\ spent' = [spent EXCEPT ![p] = q]
  BY DEF Save, Plus, Held, Paid
<1> HIDE DEF h, q
<1>6. /\ doc'[p] \in Doc /\ doc'[p].rows = stored
      /\ doc'[p].ver = IF Pushes(b) THEN doc[p].ver + 1 ELSE doc[p].ver
      /\ \A r \in Portfolios : r # p => doc'[r] = doc[r]
  <2> DEFINE ver == IF Pushes(b) THEN doc[p].ver + 1 ELSE doc[p].ver
  <2>1. ver \in Nat
    BY <1>1
  <2>2. doc'[p] = [doc[p] EXCEPT !.rows = stored, !.ver = ver]
    BY <1>1, <1>4 DEF TypeOK
  <2>3. \A r \in Portfolios : r # p => doc'[r] = doc[r]
    BY <1>1, <1>4 DEF TypeOK
  <2> HIDE DEF ver
  <2>4. doc'[p] \in Doc /\ doc'[p].rows = stored /\ doc'[p].ver = ver
    BY <1>1, <1>2, <2>1, <2>2 DEF Doc
  <2> QED
    BY <2>3, <2>4 DEF ver
<1>7. /\ bought'[p] = h /\ spent'[p] = q
      /\ \A r \in Portfolios : r # p => bought'[r] = bought[r] /\ spent'[r] = spent[r]
  BY <1>1, <1>5 DEF TypeOK
<1>8. TypeOK'
  <2>1. doc' \in [Portfolios -> {Absent, Removed} \cup Doc]
    BY <1>1, <1>4, <1>6 DEF TypeOK
  <2>2. bought' \in [Portfolios -> [Symbols -> Nat]] /\ spent' \in [Portfolios -> [Symbols -> Nat]]
    BY <1>1, <1>3, <1>5 DEF TypeOK, Amounts
  <2>3. pc' \in [Buys -> {"start", "saving", "recording", "done", "failed", "notfound"}]
        /\ \A c \in Buys : pc'[c] = "saving" => copy'[c] \in Doc
    BY <1>1, <1>4 DEF TypeOK
  <2>4. saved' \subseteq Buys /\ stale' \subseteq Buys /\ raced' \subseteq Portfolios
    BY <1>1, <1>4 DEF TypeOK
  <2> QED
    BY <1>1, <1>4, <2>1, <2>2, <2>3, <2>4 DEF TypeOK
<1>9. ASSUME NEW c \in Buys  PROVE RecordedOK(c)'
  BY <1>1, <1>4 DEF RecordedOK, IInv, TypeOK
<1>10. ASSUME NEW r \in Portfolios  PROVE StoredOK(r)'
  <2>1. CASE r # p
    <3>1. /\ doc'[r] = doc[r] /\ bought'[r] = bought[r] /\ spent'[r] = spent[r]
          /\ r \notin raced' => r \notin raced
      BY <1>4, <1>6, <1>7, <2>1
    <3> QED
      BY <3>1 DEF IInv, StoredOK, Exists
  <2>2. CASE r = p
    <3>1. doc'[p] # Absent
      BY <1>6, PortfolioAssumption
    <3>2. p \notin raced' => Booked(stored, h, q)
      BY <1>2, <1>4 DEF h, q
    <3>3. \A s \in Symbols : SharesOf(stored, s) <= h[s]
      BY <1>2 DEF h
    <3> QED
      BY <1>6, <1>7, <2>2, <3>1, <3>2, <3>3 DEF StoredOK
  <2> QED
    BY <2>1, <2>2
<1>11. ASSUME NEW c \in Buys, pc'[c] = "saving"  PROVE LoadedOK(c)'
  <2>1. /\ c # b /\ pc[c] = "saving" /\ copy'[c] = copy[c] /\ LoadedOK(c)
        /\ TargetOf[c] \in Portfolios /\ copy[c].rows \in Seq(Row) /\ copy[c].ver \in Nat
    BY <1>1, <1>4, <1>11, Copies DEF IInv, TypeOK
  <2>2. CASE TargetOf[c] # p
    <3>1. /\ doc'[TargetOf[c]] = doc[TargetOf[c]] /\ bought'[TargetOf[c]] = bought[TargetOf[c]]
          /\ c \notin stale' => c \notin stale
      BY <1>4, <1>6, <1>7, <2>1, <2>2
    <3> QED
      BY <2>1, <3>1 DEF LoadedOK, Exists
  <2>3. CASE TargetOf[c] = p
    <3>1. c \in stale'
      BY <1>4, <2>1, <2>3
    <3>2. /\ \A s \in Symbols : SharesOf(copy[c].rows, s) <= bought[p][s]
          /\ copy[c].ver <= doc[p].ver
          /\ copy[c].ver = doc[p].ver => SameShape(copy[c].rows, doc[p].rows)
      BY <1>1, <2>1, <2>3 DEF LoadedOK
    <3>3. \A s \in Symbols : SharesOf(copy[c].rows, s) <= h[s]
      <4>1. \A s \in Symbols : SharesOf(copy[c].rows, s) \in Nat /\ h[s] \in Nat
        BY <1>3, <2>1, Rows DEF Amounts, h
      <4> QED
        BY <1>3, <3>2, <4>1 DEF h
    <3>4. copy[c].ver <= doc'[p].ver
      BY <1>1, <1>6, <2>1, <3>2
    <3>5. ASSUME copy[c].ver = doc'[p].ver  PROVE SameShape(copy[c].rows, stored)
      <4>1. ~ Pushes(b) /\ copy[c].ver = doc[p].ver
        BY <1>1, <1>6, <2>1, <3>2, <3>5
      <4>2. SameShape(doc[p].rows, stored)
        BY <1>2, <4>1
      <4> QED
        BY <1>1, <2>1, <3>2, <4>1, <4>2, SameShapeOn
    <3>6. doc'[p] # Absent
      BY <1>6, PortfolioAssumption
    <3> QED
      BY <1>6, <1>7, <2>1, <2>3, <3>1, <3>3, <3>4, <3>5, <3>6 DEF LoadedOK
  <2> QED
    BY <2>2, <2>3
<1> QED
  BY <1>8, <1>9, <1>10, <1>11 DEF IInv

\* and every step keeps it.
LEMMA NextInv == IInv /\ [Next]_vars => IInv'
<1> SUFFICES ASSUME IInv, [Next]_vars  PROVE IInv'
  OBVIOUS
<1>1. CASE UNCHANGED vars
  BY <1>1 DEF vars, IInv, TypeOK, LoadedOK, StoredOK, RecordedOK, Exists
<1>2. ASSUME NEW b \in Buys, Load(b)  PROVE IInv'
  BY <1>2, LoadStep
<1>3. ASSUME NEW b \in Buys, Save(b)  PROVE IInv'
  BY <1>3, SaveStep
<1>4. ASSUME NEW b \in Buys, SaveRejected(b)  PROVE IInv'
  BY <1>4, SaveRejectedStep
<1>5. ASSUME NEW b \in Buys, RecordTrades(b)  PROVE IInv'
  BY <1>5, RecordTradesStep
<1>6. ASSUME NEW p \in Portfolios, RemovePortfolio(p)  PROVE IInv'
  BY <1>6, RemoveStep
<1>7. ASSUME NEW p \in Portfolios, NEW n \in Names, Create(p, n)  PROVE IInv'
  BY <1>7, CreateStep
<1>8. ASSUME NEW p \in Portfolios, NEW n \in Names, Update(p, n)  PROVE IInv'
  BY <1>8, UpdateStep
<1>9. ASSUME NEW s \in Symbols, NEW v \in Prices, UpdateHoldingPrices(s, v)  PROVE IInv'
  BY <1>9, PricesStep
<1> QED
  BY <1>1, <1>2, <1>3, <1>4, <1>5, <1>6, <1>7, <1>8, <1>9 DEF Next

\* IInv is an invariant.
THEOREM Inductive == Spec => []IInv
BY InitInv, NextInv, PTL DEF Spec

\* Every document stays a document, and every row of it a row with shares (TypeOK).
THEOREM TypeCorrect == Spec => []TypeOK
<1>1. IInv => TypeOK
  BY DEF IInv
<1> QED
  BY <1>1, Inductive, PTL

\* Saved purchases and holdings balance (BalancedUnlessRaced): however loads, saves, ticks and
\* failures of addStocks() interleave, a portfolio never holds more than was bought, and one that
\* no stale purchase was saved to holds exactly that, at the average that was paid.
THEOREM Balanced == Spec => []BalancedUnlessRaced
<1>1. ASSUME IInv  PROVE BalancedUnlessRaced
  <2> SUFFICES ASSUME NEW p \in Portfolios, Exists(p)
               PROVE  /\ \A s \in Symbols : SharesOf(doc[p].rows, s) <= bought[p][s]
                      /\ p \notin raced =>
                           /\ OneRowPerSymbol(doc[p].rows)
                           /\ \A s \in Symbols : SharesOf(doc[p].rows, s) = bought[p][s]
                           /\ \A i \in DOMAIN doc[p].rows :
                                LET row == doc[p].rows[i] IN
                                row.cost * row.shares = spent[p][row.symbol] * row.per
    BY DEF BalancedUnlessRaced
  <2>1. StoredOK(p) /\ doc[p].rows \in Seq(Row)
    BY <1>1, Documents DEF IInv
  <2>2. DOMAIN doc[p].rows = 1..Len(doc[p].rows)
    BY <2>1
  <2> QED
    BY <2>1, <2>2 DEF StoredOK, Booked, Rated
<1> QED
  BY <1>1, Inductive, PTL

\* The trade records follow the saved holdings (TradesFollowHoldings).
THEOREM NoTradesWithoutHoldings == Spec => []TradesFollowHoldings
<1>1. ASSUME IInv  PROVE TradesFollowHoldings
  BY <1>1 DEF IInv, TypeOK, RecordedOK, TradesFollowHoldings
<1> QED
  BY <1>1, Inductive, PTL
\* Every step that changes a price some tick put on a row.
LEMMA TickStep ==
  ASSUME IInv, [Next]_vars, tick' = tick, NEW p \in Portfolios, Exists(p), Exists(p)',
         NEW i \in DOMAIN doc[p].rows, Ticked(p, i),
         doc'[p].rows[i].latest # doc[p].rows[i].latest
  PROVE  \E b \in Buys :
           /\ TargetOf[b] = p /\ pc[b] = "saving" /\ pc'[b] = "recording"
           /\ i \in DOMAIN copy[b].rows
           /\ copy[b].rows[i].latest # doc[p].rows[i].latest
<1>1. TypeOK /\ doc[p] \in Doc /\ doc[p].rows \in Seq(Row) /\ doc[p] # Absent
  BY Documents DEF IInv
<1>2. /\ i \in 1..Len(doc[p].rows) /\ doc[p].rows[i].symbol \in Symbols
      /\ doc[p].rows[i].latest # NoPrice /\ doc[p].rows[i].latest = tick[doc[p].rows[i].symbol]
  BY <1>1, Rows DEF Ticked
<1>3. doc' # doc
  OBVIOUS
<1>5. ASSUME NEW q \in Portfolios, RemovePortfolio(q) \/ \E n \in Names : Create(q, n) \/ Update(q, n)
      PROVE  FALSE
  <2>1. CASE q # p
    <3>1. doc'[p] = doc[p]
      BY <1>1, <1>5, <2>1 DEF TypeOK, RemovePortfolio, Create, Update
    <3> QED
      BY <3>1
  <2>2. CASE q = p
    <3>1. ~ RemovePortfolio(p)
      BY <1>1 DEF TypeOK, RemovePortfolio, Exists
    <3>2. \A n \in Names : ~ Create(p, n)
      BY <1>1 DEF Create
    <3>3. ASSUME NEW n \in Names, Update(p, n)  PROVE doc'[p].rows = doc[p].rows
      BY <1>1, <3>3 DEF TypeOK, Update, Doc
    <3> QED
      BY <1>5, <2>2, <3>1, <3>2, <3>3
  <2> QED
    BY <2>1, <2>2
<1>6. ASSUME NEW s \in Symbols, NEW v \in Prices, UpdateHoldingPrices(s, v)  PROVE FALSE
  <2>1. tick[s] = v
    BY <1>1, <1>6 DEF TypeOK, UpdateHoldingPrices
  <2>2. doc'[p].rows = Priced(doc[p].rows, s, v)
    BY <1>1, <1>6, PricesOf
  <2>3. doc'[p].rows[i].latest = IF doc[p].rows[i].symbol = s THEN v ELSE doc[p].rows[i].latest
    BY <1>1, <1>2, <1>6, <2>2, PricedRows
  <2> QED
    BY <1>2, <2>1, <2>3
<1>7. ASSUME NEW b \in Buys, Save(b)
      PROVE  /\ TargetOf[b] = p /\ pc[b] = "saving" /\ pc'[b] = "recording"
             /\ i \in DOMAIN copy[b].rows
             /\ copy[b].rows[i].latest # doc[p].rows[i].latest
  <2>1. TargetOf[b] = p
    BY <1>1, <1>7, PortfolioAssumption DEF TypeOK, Save
  <2>2. pc[b] = "saving" /\ Matches(b) /\ pc'[b] = "recording"
    BY <1>1, <1>7 DEF TypeOK, Save
  <2>3. doc'[p].rows = Stored(b)
    <3> DEFINE ver == IF Pushes(b) THEN doc[p].ver + 1 ELSE doc[p].ver
               stored == Stored(b)
    <3>1. doc' = [doc EXCEPT ![p].rows = stored, ![p].ver = IF Pushes(b) THEN @ + 1 ELSE @]
      BY <1>7, <2>1 DEF Save
    <3> HIDE DEF stored
    <3>2. doc'[p] = [doc[p] EXCEPT !.rows = stored, !.ver = ver]
      BY <1>1, <3>1 DEF TypeOK
    <3> HIDE DEF ver
    <3>3. doc'[p].rows = stored
      BY <1>1, <3>2 DEF Doc
    <3> QED
      BY <3>3 DEF stored
  <2>4. /\ i \in 1..Len(copy[b].rows)
        /\ copy[b].rows[i].latest # doc[p].rows[i].latest
    BY <1>2, <2>1, <2>2, <2>3, SaveStores
  <2>5. DOMAIN copy[b].rows = 1..Len(copy[b].rows)
    BY <1>1, <2>2, Copies, Rows
  <2> QED
    BY <2>1, <2>2, <2>4, <2>5
<1>8. \E b \in Buys : Save(b)
  <2>1. Next
    BY <1>3 DEF vars
  <2>2. CASE \E b \in Buys : Load(b) \/ Save(b) \/ SaveRejected(b) \/ RecordTrades(b)
    <3> PICK b \in Buys : Load(b) \/ Save(b) \/ SaveRejected(b) \/ RecordTrades(b)
      BY <2>2
    <3>1. CASE Save(b)
      BY <3>1
    <3>2. CASE Load(b) \/ SaveRejected(b) \/ RecordTrades(b)
      BY <1>3, <3>2 DEF Load, SaveRejected, RecordTrades
    <3> QED
      BY <3>1, <3>2
  <2>3. CASE \E q \in Portfolios : RemovePortfolio(q) \/ \E n \in Names : Create(q, n) \/ Update(q, n)
    BY <1>5, <2>3
  <2>4. CASE \E s \in Symbols, v \in Prices : UpdateHoldingPrices(s, v)
    BY <1>6, <2>4
  <2> QED
    BY <2>1, <2>2, <2>3, <2>4 DEF Next
<1> QED
  BY <1>7, <1>8

\* Only a purchase that had loaded another price replaces the price of a tick (FreshSaveKeepsTick).
THEOREM TicksStay == Spec => FreshSaveKeepsTick
<1>1. ASSUME IInv, [Next]_vars
      PROVE  tick' = tick =>
               \A p \in Portfolios : (Exists(p) /\ Exists(p)') =>
                 \A i \in DOMAIN doc[p].rows :
                   (Ticked(p, i) /\ doc'[p].rows[i].latest # doc[p].rows[i].latest)
                     => \E b \in Buys :
                          /\ TargetOf[b] = p /\ pc[b] = "saving" /\ pc'[b] = "recording"
                          /\ i \in DOMAIN copy[b].rows
                          /\ copy[b].rows[i].latest # doc[p].rows[i].latest
  BY <1>1, TickStep
<1> QED
  BY <1>1, Inductive, PTL DEF Spec, FreshSaveKeepsTick
=============================================================================
