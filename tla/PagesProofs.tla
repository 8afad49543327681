---------------------------- MODULE PagesProofs ----------------------------
(* Proofs about ListPages, for any lists, symbols and writes under way, about            *)
(* SymbolSearches, for any texts, markets, filters and numbers of offers and pages, about *)
(* AccountPage, for any values of the entries and any number of calls under way, about    *)
(* StockChart, for any ranges, indicators, prices and news, about ChartSignals, for any   *)
(* lines, periods and length of the history, and about GuestForms, for any accounts,      *)
(* links and calls under way.                                                             *)
EXTENDS ListPages, SymbolSearches, AccountPage, StockChart, ChartSignals, GuestForms,
        WellFoundedInduction, TLAPS

-----------------------------------------------------------------------------
(* ListPages *)

\* A write of the tab has succeeded, and the tab has not heard of it yet.
Unheard == \E w \in Writes : write[w].status = "ok"

\* What the tab has loaded is the collection, or is marked and shown by nothing, and so is
\* the answer of a read that is under way.
LoadedIsTrue ==
  query.fetch = "idle" /\ query.data # NotLoaded /\ ~ query.failed /\ ~ behind /\ ~ Unheard =>
    query.data = lists \/ (query.invalid /\ view = "none")
ServedIsTrue == query.fetch = "served" /\ ~ behind /\ ~ Unheard => query.got = lists

ListIInv == ListTypeOK /\ LoadedIsTrue /\ ServedIsTrue

LEMMA WriteSet ==
  ASSUME ListTypeOK, NEW w \in Writes, NEW status \in {"sent", "ok", "error"},
         write' = [write EXCEPT ![w].status = status]
  PROVE  /\ write'[w].status = status
         /\ \A v \in Writes \ {w} : write'[v] = write[v]
         /\ write' \in [Writes -> WriteRecords]
BY DEF ListTypeOK, WriteRecords

LEMMA NoWriteType ==
  NoWrite \in WriteRecords
BY ListAssumption DEF NoWrite, WriteRecords

LEMMA NoWriteSent == NoWrite.op = "none" /\ NoWrite.status = "sent"
BY DEF NoWrite

LEMMA UnfetchedType ==
  Unfetched \in ListQueries
BY DEF Unfetched, ListQueries

LEMMA ListInitHolds == ListInit => ListIInv
<1> SUFFICES ASSUME ListInit  PROVE ListIInv
  OBVIOUS
<1>1. ListTypeOK
  BY NoWriteType, UnfetchedType DEF ListInit, ListTypeOK
<1>2. LoadedIsTrue /\ ServedIsTrue
  BY DEF ListInit, Unfetched, LoadedIsTrue, ServedIsTrue
<1> QED
  BY <1>1, <1>2 DEF ListIInv

\* A page that is left forgets what it knew of its writes, and nothing else of them.
LEMMA LeaveStep ==
  ASSUME ListIInv, Leave
  PROVE  ListIInv'
<1>1. \A w \in Writes : write[w] \in WriteRecords
  BY DEF ListIInv, ListTypeOK
<1>2. ASSUME NEW w \in Writes
      PROVE  /\ [write[w] EXCEPT !.here = FALSE] \in WriteRecords
             /\ [write[w] EXCEPT !.here = FALSE].status = write[w].status
  BY <1>1 DEF WriteRecords
<1>3. write' = [w \in Writes |-> [write[w] EXCEPT !.here = FALSE]]
  BY DEF Leave
<1>4. write' \in [Writes -> WriteRecords]
  BY <1>2, <1>3
<1>5. Unheard' <=> Unheard
  BY <1>2, <1>3 DEF Unheard
<1>6. ListTypeOK'
  BY <1>4 DEF ListIInv, ListTypeOK, Leave
<1> QED
  BY <1>5, <1>6 DEF ListIInv, LoadedIsTrue, ServedIsTrue, Leave

\* Steps of the query and of what shows it.
LEMMA QueryStep ==
  ASSUME ListIInv,
         (\E v \in Views : Show(v)) \/ (\E l \in Lists : OnAddStock(l)) \/ OnClose \/ Leave \/ Refocus \/ Age \/ Collect \/ FindAll \/ FetchFails \/ Loaded
  PROVE  ListIInv'
<1> USE DEF ListIInv, ListTypeOK, LoadedIsTrue, ServedIsTrue, Unheard, Fetching, ListQueries
<1>1. ASSUME NEW v \in Views, Show(v)  PROVE ListIInv'
  BY <1>1 DEF Show, NeedsFetch, Views
<1>2. CASE Leave
  BY <1>2, LeaveStep
<1>3. CASE Refocus
  BY <1>3 DEF Refocus
<1>4. CASE Age
  BY <1>4 DEF Age
<1>5. CASE Collect
  BY <1>5, UnfetchedType DEF Collect, Unfetched
<1>6. CASE FindAll
  BY <1>6 DEF FindAll
<1>7. CASE FetchFails
  BY <1>7 DEF FetchFails
<1>8. CASE Loaded
  BY <1>8, UnfetchedType DEF Loaded, Unfetched
<1>9. ASSUME NEW l \in Lists, OnAddStock(l)  PROVE ListIInv'
  BY <1>9 DEF OnAddStock
<1>10. CASE OnClose
  BY <1>10 DEF OnClose
<1> QED
  BY <1>1, <1>2, <1>3, <1>4, <1>5, <1>6, <1>7, <1>8, <1>9, <1>10

LEMMA SubmitStep ==
  ASSUME ListIInv, NEW w \in Writes, NEW op \in {"create", "delete", "add", "remove"},
         NEW l \in Lists, NEW s \in Shares, Submit(w, op, l, s)
  PROVE  ListIInv'
<1> DEFINE new == [op |-> op, list |-> l, sym |-> s, status |-> "sent", here |-> Heeded(op)]
<1>1. /\ write' = [write EXCEPT ![w] = new] /\ write[w] = NoWrite
      /\ UNCHANGED <<kind, lists, query, view, modal, behind>>
  BY DEF Submit
<1>2. ListTypeOK'
  <2>1. new \in WriteRecords
    BY DEF Heeded, WriteRecords
  <2> QED
    BY <1>1, <2>1 DEF ListIInv, ListTypeOK
<1>3. Unheard' <=> Unheard
  BY <1>1, NoWriteSent DEF ListIInv, ListTypeOK, Unheard
<1> QED
  BY <1>1, <1>2, <1>3 DEF ListIInv, LoadedIsTrue, ServedIsTrue

LEMMA WrittenType ==
  ASSUME lists \in Contents, NEW a, a.op \in {"create", "delete", "add", "remove"},
         a.list \in Lists, a.sym \in Shares,
         a.op \in {"add", "remove"} => lists[a.list] # NoList
  PROVE  Written(a) \in Contents
<1>1. CASE a.op = "create"
  BY <1>1 DEF Written, CreateList, Contents
<1>2. CASE a.op = "delete"
  BY <1>2 DEF Written, DeleteList, Contents
<1>3. ASSUME a.op \in {"add", "remove"}
      PROVE  lists[a.list] \in SUBSET Shares
  BY <1>3 DEF Contents
<1>4. CASE a.op = "add"
  <2>1. lists[a.list] \cup {a.sym} \in SUBSET Shares
    BY <1>3, <1>4
  <2> QED
    BY <1>4, <2>1 DEF Written, AddSymbol, Contents
<1>5. CASE a.op = "remove"
  <2>1. lists[a.list] \ {a.sym} \in SUBSET Shares
    BY <1>3, <1>5
  <2> QED
    BY <1>5, <2>1 DEF Written, RemoveSymbol, Contents
<1> QED
  BY <1>1, <1>2, <1>4, <1>5

LEMMA ServesStep ==
  ASSUME ListIInv, NEW w \in Writes, Serves(w)
  PROVE  ListIInv'
<1> DEFINE a == write[w]
           found == (a.op = "create") = (lists[a.list] = NoList)
<1>1. PICK status \in {IF found THEN "ok" ELSE "error", "error"} :
        /\ write' = [write EXCEPT ![w].status = status]
        /\ behind' = (behind \/ (status = "error" /\ lists' # lists))
  BY DEF Serves
<1>2. /\ a.op \in {"create", "delete", "add", "remove"} /\ a.list \in Lists /\ a.sym \in Shares
      /\ a.status = "sent" /\ lists \in Contents
  BY DEF ListIInv, ListTypeOK, Serves, WriteRecords
<1>3. lists' \in Contents
  BY <1>2, WrittenType DEF Serves
<1>4. ListTypeOK'
  BY <1>1, <1>3, WriteSet DEF ListIInv, ListTypeOK, Serves
<1>5. CASE status = "ok"
  BY <1>1, <1>4, <1>5, WriteSet DEF ListIInv, LoadedIsTrue, ServedIsTrue, Unheard
<1>6. CASE status = "error"
  <2>1. Unheard' <=> Unheard
    BY <1>1, <1>2, <1>6, WriteSet DEF ListIInv, Unheard
  <2>2. lists' = lists \/ behind'
    BY <1>1, <1>6
  <2> QED
    BY <1>1, <1>4, <2>1, <2>2 DEF ListIInv, LoadedIsTrue, ServedIsTrue, Serves
<1> QED
  BY <1>5, <1>6

LEMMA NotServedStep ==
  ASSUME ListIInv, NEW w \in Writes, NotServed(w)
  PROVE  ListIInv'
<1>1. ListTypeOK'
  BY WriteSet DEF ListIInv, ListTypeOK, NotServed
<1>2. Unheard' <=> Unheard
  BY WriteSet DEF ListIInv, NotServed, Unheard
<1> QED
  BY <1>1, <1>2 DEF ListIInv, LoadedIsTrue, ServedIsTrue, NotServed

LEMMA SettledStep ==
  ASSUME ListIInv, NEW w \in Writes, Settled(w)
  PROVE  ListIInv'
<1>1. ListTypeOK'
  BY NoWriteType DEF ListIInv, ListTypeOK, Settled, Invalidate, Fetching, ListQueries
<1>2. CASE write[w].status = "ok"
  BY <1>1, <1>2 DEF ListIInv, ListTypeOK, LoadedIsTrue, ServedIsTrue, Settled, Invalidate, Fetching, Restarts, ListQueries
<1>3. CASE write[w].status = "error"
  <2>1. Unheard' <=> Unheard
    BY <1>3 DEF ListIInv, ListTypeOK, Settled, Unheard, NoWrite
  <2> QED
    BY <1>1, <1>3, <2>1 DEF ListIInv, LoadedIsTrue, ServedIsTrue, Settled
<1> QED
  BY <1>2, <1>3 DEF Settled

LEMMA OtherDeviceStep ==
  ASSUME ListIInv, OtherDevice
  PROVE  ListIInv'
<1>1. PICK l \in Lists, c \in (SUBSET Shares) \cup {NoList} : lists' = [lists EXCEPT ![l] = c]
  BY DEF OtherDevice
<1>2. lists' \in Contents
  BY <1>1 DEF ListIInv, ListTypeOK, Contents
<1>3. ListTypeOK'
  BY <1>2 DEF ListIInv, ListTypeOK, OtherDevice
<1> QED
  BY <1>3 DEF ListIInv, LoadedIsTrue, ServedIsTrue, OtherDevice

\* The invariant that carries the two theorems.
THEOREM ListInvariance == ListSpec => []ListIInv
<1>1. ListIInv /\ UNCHANGED listVars => ListIInv'
  <2>1. ListTypeOK /\ UNCHANGED listVars => ListTypeOK'
    BY DEF ListTypeOK, listVars
  <2>2. UNCHANGED listVars => (Unheard' <=> Unheard)
    BY DEF Unheard, listVars
  <2> QED
    BY <2>1, <2>2 DEF ListIInv, LoadedIsTrue, ServedIsTrue, listVars
<1>2. ListIInv /\ [ListNext]_listVars => ListIInv'
  BY <1>1, QueryStep, SubmitStep, ServesStep, NotServedStep, SettledStep, OtherDeviceStep DEF ListNext
<1> QED
  BY ListInitHolds, <1>2, PTL DEF ListSpec

\* The collection, its query and the writes under way have their types.
THEOREM ListTypeCorrect == ListSpec => []ListTypeOK
<1>1. ListIInv => ListTypeOK
  BY DEF ListIInv
<1> QED
  BY ListInvariance, <1>1, PTL

\* A page at rest shows what the tab wrote, for any number of writes and reads that overtake
\* one another, and whichever page is opened and left meanwhile.
THEOREM WritesAreShown == ListSpec => []OwnWritesAreShown
<1>1. ListIInv => OwnWritesAreShown
  BY NoWriteSent DEF ListIInv, LoadedIsTrue, Unheard, OwnWritesAreShown
<1> QED
  BY ListInvariance, <1>1, PTL

-----------------------------------------------------------------------------
(* SymbolSearches *)

\* The rows of a question are its own; the text asked about is the one in the box once its
\* user has rested.
RowsAreOwn == \A q \in Questions : answers[q].rows \in RowsOf(q) \cup {NoRows}
AskedIsText == box.rested => box.asked = box.text

AnyRows == (UNION {RowsOf(q) : q \in Questions}) \cup {NoRows}
AssetRows == (UNION {RowsOf(q) : q \in AssetQuestions}) \cup {NoRows}
Answers == [is : {"unasked", "waiting", "failed", "answered"}, rows : AnyRows]
Browsers == [tab : Markets, find : Texts, page : PageNumbers, rows : AssetRows,
             default : DefaultMarkets, chosen : BOOLEAN]
AnswersOK == answers \in [Questions -> Answers] /\ RowsAreOwn
SearchIInv == SearchTypeOK /\ RowsAreOwn /\ AskedIsText /\ RowsAreTheAsked

\* The pages are 1 to the most a market and a text may make.
LEMMA PagesOf ==
  /\ 1 \in PageNumbers
  /\ \A p \in PageNumbers : p \in Nat /\ p >= 1 /\ (p > 1 => p - 1 \in PageNumbers)
  /\ \A k \in Markets \X Texts : \A n \in Pages[k], p \in Nat : 1 <= p /\ p <= n => p \in PageNumbers
<1> DEFINE Totals == UNION {Pages[k] : k \in Markets \X Texts}
<1>1. \A n \in Totals : n \in Nat
  BY SearchAssumption DEF SearchAssumption
<1>2. ASSUME NEW n \in Totals, NEW p \in Nat, 1 <= p, p <= n  PROVE p \in PageNumbers
  BY <1>1, <1>2 DEF PageNumbers
<1>3. ASSUME NEW p \in PageNumbers, p # 1
      PROVE  p \in Nat /\ p >= 1 /\ (p > 1 => p - 1 \in PageNumbers)
  <2>1. PICK n \in Totals : p \in 1..n
    BY <1>3 DEF PageNumbers
  <2>2. p \in Nat /\ p >= 1 /\ p <= n /\ n \in Nat
    BY <1>1, <2>1
  <2>3. ASSUME p > 1  PROVE p - 1 \in PageNumbers
    <3>1. p - 1 \in Nat /\ 1 <= p - 1 /\ p - 1 <= n
      BY <2>2, <2>3
    <3> QED
      BY <1>2, <3>1
  <2> QED
    BY <2>2, <2>3
<1>4. 1 \in PageNumbers
  BY DEF PageNumbers
<1> QED
  BY <1>2, <1>3, <1>4

\* What comes for a question has its rows, a number of them or of pages, and is not nothing.
LEMMA RowsType ==
  ASSUME NEW q \in Questions, NEW rows \in RowsOf(q)
  PROVE  /\ rows.of = q /\ rows # NoRows /\ rows.count \in Counts(q)
         /\ rows \in UNION {RowsOf(k) : k \in Questions}
<1>1. rows.of = q /\ rows.count \in Counts(q)
  BY DEF RowsOf
<1>2. q # <<>>
  BY DEF Questions, TextQuestions, AssetQuestions
<1> QED
  BY <1>1, <1>2 DEF NoRows

\* The question of the browser is one about assets, and how many symbols a box offers is one
\* of what may be offered for its text.
LEMMA QuestionKinds ==
  /\ \A b \in Browsers : AssetsQuestion(b) \in AssetQuestions /\ AssetsQuestion(b) \in Questions
  /\ \A q \in AssetQuestions : q \in Questions /\ q[1] \in Markets \X Texts /\ Counts(q) = Pages[q[1]]
  /\ \A t : <<"search", t, 1>> \in Questions => t \in Texts /\ Counts(<<"search", t, 1>>) = Offers[t]
<1>1. \A q \in AssetQuestions : q \in Questions /\ q[1] \in Markets \X Texts
  BY DEF AssetQuestions, Questions
<1>2. \A q \in AssetQuestions : q \notin TextQuestions
  BY DEF AssetQuestions, TextQuestions
<1>3. ASSUME NEW b \in Browsers  PROVE AssetsQuestion(b) \in AssetQuestions
  BY DEF Browsers, AssetsQuestion, AssetQuestions
<1>4. ASSUME NEW t, <<"search", t, 1>> \in Questions
      PROVE  t \in Texts /\ Counts(<<"search", t, 1>>) = Offers[t]
  <2>1. <<"search", t, 1>> \in TextQuestions
    BY <1>4 DEF Questions, AssetQuestions, TextQuestions
  <2>2. t \in Texts
    BY <2>1 DEF TextQuestions
  <2> QED
    BY <2>1, <2>2 DEF Counts
<1> QED
  BY <1>1, <1>2, <1>3, <1>4 DEF Counts

LEMMA AnyRowsType ==
  /\ NoRows \in AnyRows /\ NoRows \in AssetRows
  /\ \A q \in Questions : RowsOf(q) \subseteq AnyRows
  /\ \A q \in AssetQuestions : RowsOf(q) \subseteq AssetRows
  /\ \A rows \in AssetRows : rows = NoRows \/ \E q \in AssetQuestions : rows \in RowsOf(q)
<1>1. NoRows \in AnyRows /\ NoRows \in AssetRows
  BY Zenon DEF AnyRows, AssetRows
<1>2. ASSUME NEW q \in Questions, NEW rows \in RowsOf(q)  PROVE rows \in AnyRows
  BY Zenon DEF AnyRows
<1>3. ASSUME NEW q \in AssetQuestions, NEW rows \in RowsOf(q)  PROVE rows \in AssetRows
  BY Zenon DEF AssetRows
<1>4. ASSUME NEW rows \in AssetRows, rows # NoRows
      PROVE  \E q \in AssetQuestions : rows \in RowsOf(q)
  <2>1. rows \in UNION {RowsOf(q) : q \in AssetQuestions}
    BY <1>4, Zenon DEF AssetRows
  <2>2. PICK some \in {RowsOf(q) : q \in AssetQuestions} : rows \in some
    BY <2>1, Zenon
  <2> QED
    BY <2>2, Zenon
<1> QED
  BY <1>1, <1>2, <1>3, <1>4

\* A question that is unasked, waiting or failed at first has no rows.
LEMMA NoRowsYet ==
  /\ Unasked \in Answers /\ Waiting \in Answers
  /\ Unasked.rows = NoRows /\ Waiting.rows = NoRows /\ Failed.rows = NoRows
BY AnyRowsType DEF Unasked, Waiting, Failed, Answers

\* Asking changes no rows.
LEMMA AskedStep ==
  ASSUME AnswersOK, NEW q, Asked(q)
  PROVE  AnswersOK' /\ \A k \in Questions : answers'[k].rows = answers[k].rows
<1> USE DEF AnswersOK
<1>1. CASE q \in Questions /\ answers[q] \in {Unasked, Failed}
  <2>1. answers' = [answers EXCEPT ![q] = Waiting] /\ answers[q].rows = NoRows
    BY <1>1, NoRowsYet DEF Asked
  <2>2. Waiting \in Answers /\ Waiting.rows = NoRows
    BY NoRowsYet
  <2>3. answers' \in [Questions -> Answers]
    BY <2>1, <2>2
  <2>4. \A k \in Questions : answers'[k] = IF k = q THEN Waiting ELSE answers[k]
    BY <2>1
  <2> QED
    BY <2>1, <2>2, <2>3, <2>4 DEF RowsAreOwn
<1>2. CASE ~ (q \in Questions /\ answers[q] \in {Unasked, Failed})
  BY <1>2 DEF Asked, RowsAreOwn
<1> QED
  BY <1>1, <1>2

\* While the browser stays and its question keeps its rows, what it shows is that question's.
LEMMA BrowserStays ==
  ASSUME browser \in Browsers, RowsAreTheAsked, browser' = browser,
         answers'[AssetsQuestion(browser)].rows = answers[AssetsQuestion(browser)].rows
  PROVE  RowsAreTheAsked'
BY QuestionKinds DEF RowsAreTheAsked, AskedRows, AssetsQuestion

\* How many symbols a box offers.
LEMMA ResultsType ==
  ASSUME AnswersOK
  PROVE  Results \in 0..8
<1>1. CASE AskedRows(BoxQuestion) = NoRows
  BY <1>1 DEF Results, NoRows
<1>2. CASE AskedRows(BoxQuestion) # NoRows
  <2>1. BoxQuestion \in Questions /\ AskedRows(BoxQuestion) \in RowsOf(BoxQuestion)
    BY <1>2 DEF AskedRows, AnswersOK, RowsAreOwn
  <2>2. Results \in Offers[box.asked] /\ box.asked \in Texts
    BY <2>1, RowsType, QuestionKinds DEF Results, BoxQuestion
  <2> QED
    BY <2>2, SearchAssumption DEF SearchAssumption
<1> QED
  BY <1>1, <1>2

LEMMA SearchInitHolds == SearchInit => SearchIInv
<1> SUFFICES ASSUME SearchInit  PROVE SearchIInv
  OBVIOUS
<1>1. PICK m \in DefaultMarkets :
        /\ browser = [tab |-> m, find |-> Empty, page |-> 1, rows |-> NoRows, default |-> m, chosen |-> FALSE]
        /\ answers = [q \in Questions |-> IF q = <<<<m, Empty>>, 1>> THEN Waiting ELSE Unasked]
  BY DEF SearchInit
<1>2. m \in Markets /\ Empty \in Texts /\ NoFilters \in Filters
  BY SearchAssumption DEF SearchAssumption
<1>3. answers \in [Questions -> Answers] /\ \A q \in Questions : answers[q].rows = NoRows
  BY <1>1, NoRowsYet
<1>4. browser \in Browsers
  BY <1>1, <1>2, PagesOf, AnyRowsType DEF Browsers
<1>5. box \in [text : Texts, asked : Texts, rested : BOOLEAN, open : BOOLEAN, active : -1..7, at : {"navbar", "form"}]
  <2>1. -1 \in -1..7
    OBVIOUS
  <2> QED
    BY <1>2, <2>1 DEF SearchInit
<1>6. SearchTypeOK
  BY <1>2, <1>3, <1>4, <1>5 DEF SearchInit, SearchTypeOK, Answers, Browsers, AnyRows, AssetRows
<1>7. RowsAreOwn /\ RowsAreTheAsked
  BY <1>3 DEF RowsAreOwn, RowsAreTheAsked, AskedRows
<1>8. AskedIsText
  BY DEF SearchInit, AskedIsText
<1> QED
  BY <1>6, <1>7, <1>8 DEF SearchIInv

\* A step of the box.
LEMMA BoxStep ==
  ASSUME SearchIInv, BoxNext
  PROVE  SearchIInv'
<1> DEFINE Box == [text : Texts, asked : Texts, rested : BOOLEAN, open : BOOLEAN, active : -1..7, at : {"navbar", "form"}]
<1>0. -1 \in -1..7
  OBVIOUS
<1>1. box \in Box /\ Empty \in Texts /\ AnswersOK /\ AskedIsText /\ browser \in Browsers /\ RowsAreTheAsked
  BY SearchAssumption DEF SearchIInv, SearchTypeOK, AnswersOK, Answers, AnyRows, AssetRows, Browsers, SearchAssumption
<1>01. Results \in 0..8
  BY <1>1, ResultsType
<1>2. ASSUME box' \in Box, AskedIsText', AnswersOK', UNCHANGED <<browser, screener>>,
             \A k \in Questions : answers'[k].rows = answers[k].rows
      PROVE  SearchIInv'
  <2>1. RowsAreTheAsked'
    BY <1>1, <1>2, BrowserStays, QuestionKinds
  <2> QED
    BY <1>2, <2>1 DEF SearchIInv, SearchTypeOK, AnswersOK, Answers, AnyRows
<1>3. ASSUME box' \in Box, AskedIsText', UNCHANGED <<browser, screener, answers>>
      PROVE  SearchIInv'
  BY <1>1, <1>2, <1>3 DEF AnswersOK, RowsAreOwn
<1>4. ASSUME NEW t \in Texts, Type(t)  PROVE SearchIInv'
  <2>1. box' = [box EXCEPT !.text = t, !.rested = FALSE, !.open = TRUE, !.active = -1]
    BY <1>4 DEF Type
  <2>2. box' \in Box /\ box'.rested = FALSE
    BY <1>0, <1>1, <2>1
  <2> QED
    BY <1>3, <1>4, <2>2 DEF Type, AskedIsText
<1>5. CASE DebounceEnds
  <2>1. AnswersOK' /\ \A k \in Questions : answers'[k].rows = answers[k].rows
    BY <1>1, <1>5, AskedStep DEF DebounceEnds
  <2> QED
    BY <1>1, <1>2, <1>5, <2>1 DEF DebounceEnds, AskedIsText
<1>6. CASE ArrowDown
  <2> DEFINE next == IF Results = 0 THEN box.active
                     ELSE IF box.active + 1 < Results THEN box.active + 1 ELSE Results - 1
  <2>1. next \in -1..7
    BY <1>1, <1>01
  <2>2. box' = [box EXCEPT !.open = TRUE, !.active = next]
    BY <1>6 DEF ArrowDown
  <2> QED
    BY <1>1, <1>3, <1>6, <2>1, <2>2 DEF ArrowDown, AskedIsText
<1>7. CASE ArrowUp
  BY <1>1, <1>3, <1>7 DEF ArrowUp, AskedIsText
<1>8. ASSUME NEW t \in Texts  PROVE Closed(t) \in Box /\ (Closed(t).rested => Closed(t).asked = Closed(t).text)
  <2>1. (t = box.text /\ box.rested) \in BOOLEAN
    OBVIOUS
  <2>2. Closed(t) \in Box
    BY <1>0, <1>1, <2>1 DEF Closed
  <2>3. Closed(t).text = t /\ Closed(t).asked = box.asked /\ Closed(t).rested = (t = box.text /\ box.rested)
    BY <1>1 DEF Closed
  <2> QED
    BY <1>1, <2>2, <2>3 DEF AskedIsText
<1>9. ASSUME NEW i, Pick(i)  PROVE SearchIInv'
  <2>1. PICK t \in Texts : box' = Closed(t)
    BY <1>1, <1>9 DEF Pick
  <2> QED
    BY <1>3, <1>8, <1>9, <2>1 DEF Pick, AskedIsText
<1>10. CASE Enter
  <2>1. CASE box.active >= 0 /\ Pick(box.active)
    BY <1>9, <2>1
  <2>2. CASE box' = Closed(Empty) /\ UNCHANGED <<browser, screener, answers>>
    BY <1>1, <1>3, <1>8, <2>2 DEF AskedIsText
  <2> QED
    BY <1>10, <2>1, <2>2 DEF Enter
<1>11. CASE Close
  <2>1. \/ box' = [box EXCEPT !.open = FALSE, !.active = -1]
        \/ box' = [box EXCEPT !.open = FALSE]
    BY <1>11 DEF Close
  <2>2. box' \in Box /\ box'.rested = box.rested /\ box'.asked = box.asked /\ box'.text = box.text
    BY <1>0, <1>1, <2>1
  <2> QED
    BY <1>1, <1>3, <1>11, <2>2 DEF Close, AskedIsText
<1> QED
  BY <1>4, <1>5, <1>6, <1>7, <1>9, <1>10, <1>11 DEF BoxNext, PickWithMouse

\* A step of the market browser: it shows the rows of what it turns to as soon as there are any.
LEMMA TurnedStep ==
  ASSUME SearchIInv, NEW b \in Browsers, Turned(b)
  PROVE  SearchIInv'
<1> DEFINE q == AssetsQuestion(b)
           rows == answers[q].rows
<1>1. AnswersOK
  BY DEF SearchIInv, SearchTypeOK, AnswersOK, Answers, AnyRows
<1>2. q \in AssetQuestions /\ q \in Questions
  BY QuestionKinds
<1>3. AnswersOK' /\ answers'[q].rows = rows
  BY <1>1, <1>2, AskedStep DEF Turned
<1>4. rows \in RowsOf(q) \cup {NoRows}
  BY <1>1, <1>2 DEF AnswersOK, RowsAreOwn
<1>5. browser' = IF rows = NoRows THEN b ELSE [b EXCEPT !.rows = rows]
  BY DEF Turned
<1>6. browser' \in Browsers /\ AssetsQuestion(browser') = q /\ (rows # NoRows => browser'.rows = rows)
  BY <1>2, <1>4, <1>5, AnyRowsType DEF Browsers, AssetsQuestion
<1>7. SearchTypeOK'
  BY <1>3, <1>6 DEF Turned, SearchIInv, SearchTypeOK, AnswersOK, Answers, AnyRows, AssetRows, Browsers
<1>8. RowsAreTheAsked'
  <2>1. AskedRows(AssetsQuestion(browser))' = rows
    BY <1>2, <1>3, <1>6 DEF AskedRows, AssetsQuestion
  <2> QED
    BY <1>6, <2>1 DEF RowsAreTheAsked
<1> QED
  BY <1>3, <1>7, <1>8 DEF SearchIInv, AnswersOK, Turned, AskedIsText

LEMMA BrowserStep ==
  ASSUME SearchIInv, BrowserNext
  PROVE  SearchIInv'
<1>1. /\ browser \in Browsers /\ Empty \in Texts /\ DefaultMarkets \subseteq Markets
      /\ browser.page \in PageNumbers /\ browser.page \in Nat /\ browser.page >= 1 /\ 1 \in PageNumbers
  BY PagesOf, SearchAssumption DEF SearchIInv, SearchTypeOK, SearchAssumption, Browsers, AssetRows
<1>2. ASSUME NEW m \in Markets, TabChange(m)  PROVE SearchIInv'
  <2>1. [browser EXCEPT !.tab = m, !.find = Empty, !.page = 1, !.chosen = TRUE] \in Browsers
    BY <1>1 DEF Browsers
  <2> QED
    BY <1>2, <2>1, TurnedStep DEF TabChange
<1>3. ASSUME NEW t \in Texts, FindText(t)  PROVE SearchIInv'
  <2>1. [browser EXCEPT !.find = t, !.page = 1] \in Browsers
    BY <1>1 DEF Browsers
  <2> QED
    BY <1>3, <2>1, TurnedStep DEF FindText
<1>4. CASE NextPage
  <2>1. browser.page < browser.rows.count \/ browser.page < 0
    BY <1>4 DEF NextPage, TotalPages
  <2>2. browser.rows # NoRows
    BY <1>1, <2>1 DEF NoRows
  <2>3. PICK q \in AssetQuestions : browser.rows \in RowsOf(q)
    BY <1>1, <2>2, AnyRowsType DEF Browsers
  <2>4. q[1] \in Markets \X Texts /\ browser.rows.count \in Pages[q[1]]
    BY <2>3, RowsType, QuestionKinds
  <2>5. browser.rows.count \in Nat
    BY <2>4, SearchAssumption DEF SearchAssumption
  <2>6. browser.page + 1 \in PageNumbers
    BY <1>1, <2>1, <2>4, <2>5, PagesOf
  <2>7. [browser EXCEPT !.page = @ + 1] \in Browsers
    BY <1>1, <2>6 DEF Browsers
  <2> QED
    BY <1>4, <2>7, TurnedStep DEF NextPage
<1>5. CASE PrevPage
  <2>1. browser.page - 1 \in PageNumbers
    BY <1>1, <1>5, PagesOf DEF PrevPage
  <2>2. [browser EXCEPT !.page = @ - 1] \in Browsers
    BY <1>1, <2>1 DEF Browsers
  <2> QED
    BY <1>5, <2>2, TurnedStep DEF PrevPage
<1>6. ASSUME NEW m \in DefaultMarkets, DefaultChanges(m)  PROVE SearchIInv'
  <2>1. [browser EXCEPT !.default = m, !.tab = IF browser.chosen THEN @ ELSE m] \in Browsers
    BY <1>1 DEF Browsers
  <2> QED
    BY <1>6, <2>1, TurnedStep DEF DefaultChanges
<1> QED
  BY <1>2, <1>3, <1>4, <1>5, <1>6 DEF BrowserNext

LEMMA ScreenerStep ==
  ASSUME SearchIInv, ScreenerNext
  PROVE  SearchIInv'
<1>1. AnswersOK /\ screener \in [form : Filters, applied : Filters] /\ NoFilters \in Filters
      /\ browser \in Browsers /\ RowsAreTheAsked
  BY SearchAssumption DEF SearchIInv, SearchTypeOK, AnswersOK, Answers, AnyRows, AssetRows, Browsers, SearchAssumption
<1>2. ASSUME screener' \in [form : Filters, applied : Filters], AnswersOK', UNCHANGED <<box, browser>>,
             \A k \in Questions : answers'[k].rows = answers[k].rows
      PROVE  SearchIInv'
  <2>1. RowsAreTheAsked'
    BY <1>1, <1>2, BrowserStays, QuestionKinds
  <2> QED
    BY <1>2, <2>1 DEF SearchIInv, SearchTypeOK, AnswersOK, Answers, AnyRows, AskedIsText
<1>3. ASSUME NEW f \in Filters, SetFilters(f)  PROVE SearchIInv'
  BY <1>1, <1>2, <1>3 DEF SetFilters, AnswersOK, RowsAreOwn
<1>4. ASSUME NEW f \in Filters, ScreenFor(f)  PROVE SearchIInv'
  BY <1>1, <1>2, <1>4, AskedStep DEF ScreenFor
<1> QED
  BY <1>1, <1>3, <1>4 DEF ScreenerNext, ApplyFilters, ResetFilters

LEMMA AnswersStep ==
  ASSUME SearchIInv, NEW q \in Questions, Answered(q) \/ Fails(q) \/ Forget(q)
  PROVE  SearchIInv'
<1>1. AnswersOK /\ browser \in Browsers /\ RowsAreTheAsked
      /\ AssetsQuestion(browser) \in AssetQuestions /\ AssetsQuestion(browser) \in Questions
  BY QuestionKinds DEF SearchIInv, SearchTypeOK, AnswersOK, Answers, AnyRows, AssetRows, Browsers
<1>2. ASSUME NEW a \in Answers, a.rows \in RowsOf(q) \cup {NoRows}, answers' = [answers EXCEPT ![q] = a],
             browser' \in Browsers, UNCHANGED <<box, screener>>, RowsAreTheAsked'
      PROVE  SearchIInv'
  <2>1. answers' \in [Questions -> Answers] /\ RowsAreOwn'
    BY <1>1, <1>2 DEF AnswersOK, RowsAreOwn
  <2> QED
    BY <1>2, <2>1 DEF SearchIInv, SearchTypeOK, Answers, Browsers, AnyRows, AssetRows, AskedIsText
<1>3. CASE Answered(q)
  <2>1. PICK rows \in RowsOf(q) :
          /\ answers' = [answers EXCEPT ![q] = [is |-> "answered", rows |-> rows]]
          /\ browser' = IF q = AssetsQuestion(browser) THEN [browser EXCEPT !.rows = rows] ELSE browser
    BY <1>3 DEF Answered, Answer
  <2>2. [is |-> "answered", rows |-> rows] \in Answers
    BY AnyRowsType DEF Answers
  <2>3. browser' \in Browsers /\ AssetsQuestion(browser') = AssetsQuestion(browser)
    BY <1>1, <2>1, AnyRowsType DEF Browsers, AssetsQuestion
  <2>4. RowsAreTheAsked'
    <3>1. CASE q = AssetsQuestion(browser)
      <4>1. browser'.rows = rows /\ answers'[q].rows = rows
        BY <1>1, <2>1, <3>1 DEF Browsers, AnswersOK
      <4> QED
        BY <1>1, <2>3, <3>1, <4>1 DEF RowsAreTheAsked, AskedRows, AssetsQuestion
    <3>2. CASE q # AssetsQuestion(browser)
      <4>1. browser' = browser /\ answers'[AssetsQuestion(browser)].rows = answers[AssetsQuestion(browser)].rows
        BY <1>1, <2>1, <3>2 DEF AnswersOK
      <4> QED
        BY <1>1, <4>1, BrowserStays
    <3> QED
      BY <3>1, <3>2
  <2> QED
    BY <1>2, <1>3, <2>1, <2>2, <2>3, <2>4 DEF Answered
<1>4. CASE Fails(q)
  <2> DEFINE a == [answers[q] EXCEPT !.is = "failed"]
  <2>1. a \in Answers /\ a.rows = answers[q].rows
    BY <1>1 DEF AnswersOK, Answers
  <2>2. answers' = [answers EXCEPT ![q] = a] /\ UNCHANGED <<box, browser, screener>>
    BY <1>1, <1>4 DEF Fails, AnswersOK
  <2>3. answers'[AssetsQuestion(browser)].rows = answers[AssetsQuestion(browser)].rows
    BY <1>1, <2>1, <2>2 DEF AnswersOK
  <2>4. a.rows \in RowsOf(q) \cup {NoRows}
    BY <1>1, <2>1 DEF AnswersOK, RowsAreOwn
  <2>5. RowsAreTheAsked'
    BY <1>1, <2>2, <2>3, BrowserStays
  <2> QED
    BY <1>1, <1>2, <2>1, <2>2, <2>4, <2>5
<1>5. CASE Forget(q)
  <2>1. Unasked \in Answers /\ Unasked.rows = NoRows
    BY NoRowsYet
  <2>2. q # AssetsQuestion(browser) /\ answers' = [answers EXCEPT ![q] = Unasked] /\ UNCHANGED <<box, browser, screener>>
    BY <1>5 DEF Forget, Shown
  <2>3. answers'[AssetsQuestion(browser)].rows = answers[AssetsQuestion(browser)].rows
    BY <1>1, <2>2 DEF AnswersOK
  <2>4. RowsAreTheAsked'
    BY <1>1, <2>2, <2>3, BrowserStays
  <2> QED
    BY <1>1, <1>2, <2>1, <2>2, <2>4
<1> QED
  BY <1>3, <1>4, <1>5

\* The invariant that carries the theorems.
THEOREM SearchInvariance == SearchSpec => []SearchIInv
<1>1. SearchIInv /\ UNCHANGED searchVars => SearchIInv'
  <2>1. SearchTypeOK /\ UNCHANGED searchVars => SearchTypeOK'
    BY DEF SearchTypeOK, searchVars
  <2> QED
    BY <2>1 DEF SearchIInv, RowsAreOwn, AskedIsText, RowsAreTheAsked, AskedRows, AssetsQuestion, searchVars
<1>2. SearchIInv /\ [SearchNext]_searchVars => SearchIInv'
  BY <1>1, BoxStep, BrowserStep, ScreenerStep, AnswersStep DEF SearchNext, AnswersNext
<1> QED
  BY SearchInitHolds, <1>2, PTL DEF SearchSpec

\* The box, the browser, the screener and their answers have their types: a highlight is one
\* of eight offers at most, and the browser's page is one that some market and text have.
THEOREM SearchTypeCorrect == SearchSpec => []SearchTypeOK
<1>1. SearchIInv => SearchTypeOK
  BY DEF SearchIInv
<1> QED
  BY SearchInvariance, <1>1, PTL

\* In whatever order answers come, a box whose user has rested offers what matches its text.
THEOREM OffersMatch == SearchSpec => []OffersMatchText
<1>1. SearchIInv => OffersMatchText
  <2> SUFFICES ASSUME SearchIInv, box.rested, ShowDropdown
               PROVE  AskedRows(BoxQuestion).of = <<"search", box.text, 1>>
    BY DEF OffersMatchText
  <2>1. AskedRows(BoxQuestion) # NoRows
    BY DEF ShowDropdown, Results, NoRows
  <2>2. BoxQuestion \in Questions /\ AskedRows(BoxQuestion) \in RowsOf(BoxQuestion)
    BY <2>1 DEF AskedRows, SearchIInv, RowsAreOwn
  <2>3. AskedRows(BoxQuestion).of = BoxQuestion
    BY <2>2, RowsType
  <2> QED
    BY <2>3 DEF SearchIInv, AskedIsText, BoxQuestion
<1> QED
  BY SearchInvariance, <1>1, PTL

(* What a box offers and what the market browser keeps for the screen is of the question *)
(* that is asked now.                                                                    *)
THEOREM SearchesShowTheAsked == SearchSpec => []SearchesAreTrue
<1>1. OffersMatchText /\ SearchIInv => SearchesAreTrue
  BY DEF SearchesAreTrue, SearchIInv
<1> QED BY <1>1, OffersMatch, SearchInvariance, PTL

-----------------------------------------------------------------------------
(* AccountPage *)

Account == [mfa : BOOLEAN, pending : BOOLEAN, entries : Entries, gone : BOOLEAN]
Call == [op : {"none", "read", "status", "save", "password", "delete"} \cup MFAOps, sends : Entries,
         phase : {"sent", "served"}, got : [entries : Entries, mfa : BOOLEAN], awaited : BOOLEAN]
Form == [entries : Entries, edited : SUBSET Fields, off : BOOLEAN]
Section == [enabled : {"unknown", "on", "off"}, setup : BOOLEAN]
Served(c) == call[c].phase = "served"

\* Out of doubt, an answer about the profile that is under way has the stored one, and the tab
\* has it or is about to.
ProfileIsComing ==
  /\ \A c \in Calls : ReadsProfile(c) /\ Served(c) => call[c].got.entries = stored.entries
  /\ profile # Unread => profile = stored.entries \/ \E c \in Calls : ReadsProfile(c) /\ Served(c)
ProfileKnown == "profile" \notin doubt => ProfileIsComing

\* Out of doubt, an answer about the second factor that the page waits for says what is so, and
\* the section shows it or is about to.
MfaSaid(c) ==
  /\ Does(c, "status") => call[c].got.mfa = stored.mfa
  /\ Does(c, "enable") /\ call[c].awaited => stored.mfa = TRUE
  /\ Does(c, "disable") /\ call[c].awaited => stored.mfa = FALSE
MfaIsComing ==
  /\ \A c \in Calls : Served(c) => MfaSaid(c)
  /\ section.enabled # "unknown" =>
       \/ section.enabled = (IF stored.mfa THEN "on" ELSE "off")
       \/ \E c \in Calls : Served(c) /\ call[c].awaited /\ call[c].op \in {"status", "enable", "disable"}
MfaKnown == "mfa" \notin doubt => MfaIsComing

\* One button of the section at a time, and no reading of the status outlives the page.
OneButton ==
  /\ \A c, d \in Calls : call[c].op \in MFAOps /\ call[c].awaited /\ call[d].op \in MFAOps /\ call[d].awaited => c = d
  /\ \A c \in Calls : Does(c, "status") => call[c].awaited

\* A save that the form waits for sends what the form still has, where its user left it alone.
SendsTheForm ==
  \A c \in Calls : Does(c, "save") /\ call[c].awaited =>
    \A f \in Fields \ form.edited : call[c].sends[f] = form.entries[f]

AccountIInv ==
  AccountTypeOK /\ ProfileKnown /\ MfaKnown /\ OneButton /\ SendsTheForm /\ FormKeepsTheRest

LEMMA AccountTypes ==
  AccountTypeOK <=>
    /\ stored \in Account /\ profile \in Entries \cup {Unread}
    /\ open \in {"none", "profile", "password", "delete"} /\ dialog \in BOOLEAN
    /\ form \in Form /\ section \in Section /\ call \in [Calls -> Call] /\ doubt \subseteq {"profile", "mfa"}
BY DEF AccountTypeOK, Account, Form, Section, Call

LEMMA BlankIs == Blank \in Entries
BY AccountAssumption DEF Blank, Entries

LEMMA NoCallIs ==
  /\ NoCall \in Call /\ NoCall.op = "none" /\ NoCall.phase = "sent" /\ NoCall.awaited = FALSE
  /\ NoForm \in Form /\ NoForm.off = TRUE /\ NoSection \in Section /\ NoSection.enabled = "unknown"
<1>1. [entries |-> Blank, mfa |-> FALSE] \in [entries : Entries, mfa : BOOLEAN]
  BY BlankIs
<1> QED
  BY <1>1, BlankIs DEF NoCall, NoForm, NoSection, Call, Form, Section

LEMMA NewCallIs ==
  ASSUME NEW op \in {"read", "status", "save", "password", "delete"} \cup MFAOps, NEW sends \in Entries
  PROVE  /\ NewCall(op, sends) \in Call /\ NewCall(op, sends).op = op /\ NewCall(op, sends).sends = sends
         /\ NewCall(op, sends).phase = "sent" /\ NewCall(op, sends).awaited = TRUE
<1>1. NewCall(op, sends) = [NoCall EXCEPT !.op = op, !.sends = sends, !.awaited = TRUE]
  BY DEF NewCall
<1> QED
  BY <1>1, NoCallIs DEF Call

LEMMA StatusCallIs ==
  LET new == NewCall("status", Blank) IN
  new \in Call /\ new.op = "status" /\ new.phase = "sent" /\ new.awaited = TRUE
BY NewCallIs, BlankIs

\* The section asks for the status in a place that is free.
LEMMA AskStatusIs ==
  ASSUME NEW calls \in [Calls -> Call], NEW e \in Calls, calls[e] = NoCall
  PROVE  /\ AskStatus(calls) \in [Calls -> Call]
         /\ \A d \in Calls : \/ AskStatus(calls)[d] = calls[d]
                             \/ calls[d] = NoCall /\ AskStatus(calls)[d] = NewCall("status", Blank)
<1> DEFINE k == CHOOSE d \in Calls : calls[d] = NoCall
<1>1. k \in Calls /\ calls[k] = NoCall
  OBVIOUS
<1>2. AskStatus(calls) = [calls EXCEPT ![k] = NewCall("status", Blank)]
  BY DEF AskStatus
<1>3. NewCall("status", Blank) \in Call
  BY StatusCallIs
<1> HIDE DEF k
<1> QED
  BY <1>1, <1>2, <1>3

\* What leaving a part makes of the calls.
LEMMA UnawaitedIs ==
  ASSUME call \in [Calls -> Call]
  PROVE  /\ Unawaited \in [Calls -> Call]
         /\ \A d \in Calls :
              IF Does(d, "status") THEN Unawaited[d] = NoCall
              ELSE /\ Unawaited[d].op = call[d].op /\ Unawaited[d].phase = call[d].phase
                   /\ Unawaited[d].got = call[d].got /\ Unawaited[d].sends = call[d].sends
                   /\ Unawaited[d].awaited => Does(d, "read")
<1>1. ASSUME NEW d \in Calls, ~ Does(d, "status")
      PROVE  /\ Unawaited[d] \in Call
             /\ Unawaited[d].op = call[d].op /\ Unawaited[d].phase = call[d].phase
             /\ Unawaited[d].got = call[d].got /\ Unawaited[d].sends = call[d].sends
             /\ Unawaited[d].awaited => Does(d, "read")
  <2> DEFINE w == (call[d].awaited /\ Does(d, "read"))
  <2>1. Unawaited[d] = [call[d] EXCEPT !.awaited = w] /\ call[d] \in Call /\ w \in BOOLEAN
    BY <1>1 DEF Unawaited
  <2>2. w => Does(d, "read")
    OBVIOUS
  <2> HIDE DEF w
  <2> QED
    BY <2>1, <2>2 DEF Call
<1>2. ASSUME NEW d \in Calls, Does(d, "status")  PROVE Unawaited[d] = NoCall
  BY <1>2 DEF Unawaited
<1>3. Unawaited \in [Calls -> Call]
  BY <1>1, <1>2, NoCallIs DEF Unawaited
<1> QED
  BY <1>1, <1>2, <1>3

LEMMA AccountInitHolds == AccountInit => AccountIInv
<1> SUFFICES ASSUME AccountInit  PROVE AccountIInv
  OBVIOUS
<1>1. PICK c \in Calls : call = [d \in Calls |-> IF d = c THEN NewCall("read", Blank) ELSE NoCall]
  BY DEF AccountInit
<1>2. call \in [Calls -> Call]
  BY <1>1, NewCallIs, NoCallIs, BlankIs
<1>3. AccountTypeOK
  BY <1>2, AccountTypes, NoCallIs DEF AccountInit, Account
<1>4. \A d \in Calls : ~ Served(d) /\ call[d].op \in {"none", "read"}
  BY <1>1, NewCallIs, NoCallIs, BlankIs DEF Served
<1>5. ProfileKnown /\ MfaKnown
  BY <1>4, NoCallIs DEF ProfileKnown, ProfileIsComing, MfaKnown, MfaIsComing, AccountInit
<1>6. OneButton /\ SendsTheForm
  BY <1>4 DEF OneButton, SendsTheForm, MFAOps, Does
<1>7. FormKeepsTheRest
  BY DEF AccountInit, FormKeepsTheRest
<1> QED
  BY <1>3, <1>5, <1>6, <1>7 DEF AccountIInv

LEMMA ProfilePageStep ==
  ASSUME AccountIInv, NEW part \in {"none", "profile", "password", "delete"}, ProfilePage(part)
  PROVE  AccountIInv'
<1>1. call \in [Calls -> Call] /\ AccountTypeOK
  BY AccountTypes DEF AccountIInv
<1> DEFINE Left == Unawaited
<1>2. /\ Left \in [Calls -> Call]
      /\ \A d \in Calls :
           IF Does(d, "status") THEN Left[d] = NoCall
           ELSE /\ Left[d].op = call[d].op /\ Left[d].phase = call[d].phase
                /\ Left[d].got = call[d].got /\ Left[d].sends = call[d].sends
                /\ Left[d].awaited => Does(d, "read")
  BY <1>1, UnawaitedIs
<1>3. /\ call' \in [Calls -> Call]
      /\ \A d \in Calls : \/ call'[d] = Left[d]
                          \/ Left[d] = NoCall /\ call'[d] = NewCall("status", Blank)
  <2>1. CASE part = "profile"
    <3>1. PICK e \in Calls : Left[e] = NoCall
      BY <2>1 DEF ProfilePage
    <3>2. call' = AskStatus(Left)
      BY <2>1 DEF ProfilePage
    <3> HIDE DEF Left
    <3> QED
      BY <1>2, <3>1, <3>2, AskStatusIs
  <2>2. CASE part # "profile"
    BY <1>2, <2>2 DEF ProfilePage
  <2> QED
    BY <2>1, <2>2
<1> HIDE DEF Left
<1>4. ASSUME NEW d \in Calls
      PROVE  /\ call'[d].op = "status" => call'[d].phase = "sent" /\ call'[d].awaited
             /\ call'[d].op \notin {"status", "none"} =>
                  /\ call'[d].op = call[d].op /\ call'[d].phase = call[d].phase /\ call'[d].got = call[d].got
                  /\ call'[d].awaited => call[d].op = "read"
             /\ call[d].op \notin {"status", "none"} => call'[d].op = call[d].op /\ call'[d].phase = call[d].phase
  <2> DEFINE new == NewCall("status", Blank)
  <2>1. new.op = "status" /\ new.phase = "sent" /\ new.awaited = TRUE
    BY StatusCallIs
  <2>2. \/ call'[d] = Left[d]
        \/ Left[d] = NoCall /\ call'[d] = new
    BY <1>3
  <2> HIDE DEF new
  <2>3. CASE Does(d, "status")
    <3>1. Left[d] = NoCall
      BY <1>2, <2>3
    <3> QED
      BY <2>1, <2>2, <2>3, <3>1, NoCallIs DEF Does
  <2>4. CASE ~ Does(d, "status")
    <3>1. /\ Left[d].op = call[d].op /\ Left[d].phase = call[d].phase /\ Left[d].got = call[d].got
          /\ Left[d].awaited => call[d].op = "read"
      BY <1>2, <2>4 DEF Does
    <3>2. CASE call'[d] = Left[d]
      BY <2>4, <3>1, <3>2 DEF Does
    <3>3. CASE Left[d] = NoCall /\ call'[d] = new
      BY <2>1, <3>1, <3>3, NoCallIs
    <3> QED
      BY <2>2, <3>2, <3>3
  <2> QED
    BY <2>3, <2>4
<1>5. AccountTypeOK'
  <2>1. form' \in Form
    <3>1. EditProfileForm(profile) \in Form
      <4> DEFINE off == (profile = Unread \/ "profile" \in doubt \/ \E c \in Calls : ReadsProfile(c))
                 held == IF profile = Unread THEN Blank ELSE profile
      <4>1. held \in Entries /\ off \in BOOLEAN
        BY <1>1, BlankIs, AccountTypes
      <4>2. EditProfileForm(profile) = [entries |-> held, edited |-> {}, off |-> off]
        BY DEF EditProfileForm
      <4> HIDE DEF off, held
      <4> QED
        BY <4>1, <4>2 DEF Form
    <3> QED
      BY <3>1, NoCallIs DEF ProfilePage
  <2> QED
    BY <1>1, <1>3, <2>1, AccountTypes, NoCallIs DEF ProfilePage, AccountTypeOK, Form, Section, Call
<1>6. ProfileKnown'
  BY <1>4 DEF AccountIInv, ProfileKnown, ProfileIsComing, ReadsProfile, Served, ProfilePage
<1>7. MfaKnown'
  BY <1>4, NoCallIs DEF MfaKnown, MfaIsComing, MfaSaid, Served, Does, ProfilePage, AccountIInv
<1>8. OneButton' /\ SendsTheForm'
  BY <1>4 DEF OneButton, SendsTheForm, MFAOps, Does
<1>9. FormKeepsTheRest'
  <2> SUFFICES ASSUME open' = "profile", ~ form'.off  PROVE \A f \in Fields : form'.entries[f] = stored'.entries[f]
    BY DEF FormKeepsTheRest
  <2>1. form' = EditProfileForm(profile) /\ stored' = stored
    BY DEF ProfilePage
  <2>2. profile # Unread /\ "profile" \notin doubt /\ \A c \in Calls : ~ ReadsProfile(c)
    BY <2>1 DEF EditProfileForm
  <2>3. form'.entries = profile /\ profile = stored.entries
    BY <2>1, <2>2 DEF EditProfileForm, AccountIInv, ProfileKnown, ProfileIsComing
  <2> QED
    BY <2>1, <2>3
<1> QED
  BY <1>5, <1>6, <1>7, <1>8, <1>9 DEF AccountIInv

\* A call starts.
LEMMA SendStep ==
  ASSUME AccountIInv, NEW c \in Calls, NEW op \in {"save", "password", "delete"} \cup MFAOps,
         NEW sends \in Entries, Send(c, op, sends),
         op = "save" => sends = form.entries,
         op \in MFAOps => ~ UnderWay(MFAOps)
  PROVE  AccountIInv'
<1> DEFINE new == NewCall(op, sends)
<1>1. /\ new \in Call /\ new.op = op /\ new.sends = sends /\ new.phase = "sent" /\ new.awaited = TRUE
  BY NewCallIs
<1>2. /\ call \in [Calls -> Call] /\ call[c] = NoCall /\ call' = [call EXCEPT ![c] = new]
      /\ UNCHANGED <<stored, profile, open, form, section, dialog, doubt>>
  BY AccountTypes DEF AccountIInv, Send
<1> HIDE DEF new
<1>3. call' \in [Calls -> Call] /\ call'[c] = new /\ \A d \in Calls \ {c} : call'[d] = call[d]
  BY <1>1, <1>2
<1>4. AccountTypeOK'
  BY <1>2, <1>3 DEF AccountIInv, AccountTypeOK, Call
<1>5. ProfileKnown'
  BY <1>1, <1>2, <1>3, NoCallIs DEF AccountIInv, ProfileKnown, ProfileIsComing, ReadsProfile, Served
<1>6. MfaKnown'
  BY <1>1, <1>2, <1>3, NoCallIs DEF AccountIInv, MfaKnown, MfaIsComing, MfaSaid, Served, Does
<1>7. OneButton'
  BY <1>1, <1>2, <1>3 DEF AccountIInv, OneButton, UnderWay, Does, MFAOps
<1>8. SendsTheForm'
  BY <1>1, <1>2, <1>3 DEF AccountIInv, SendsTheForm, Does
<1>9. FormKeepsTheRest'
  BY <1>2 DEF AccountIInv, FormKeepsTheRest
<1> QED
  BY <1>4, <1>5, <1>6, <1>7, <1>8, <1>9 DEF AccountIInv

\* What changes the form, the dialog or the section's setup only.
LEMMA PageStep ==
  ASSUME AccountIInv, \/ \E f \in Fields, v \in Values : Edit(f, v)
                      \/ CancelSetup \/ DeleteDialog \/ UNCHANGED accountVars
  PROVE  AccountIInv'
<1> USE DEF AccountIInv, ProfileKnown, ProfileIsComing, ReadsProfile, MfaKnown, MfaIsComing, MfaSaid,
        Served, Does, OneButton
<1>1. ASSUME NEW f \in Fields, NEW v \in Values, Edit(f, v)  PROVE AccountIInv'
  <2>1. /\ form \in Form /\ form' = [form EXCEPT !.entries[f] = v, !.edited = form.edited \cup {f}]
        /\ UNCHANGED <<stored, profile, open, section, dialog, call, doubt>>
    BY <1>1, AccountTypes DEF Edit
  <2>2. /\ form' \in Form /\ form'.edited = form.edited \cup {f} /\ form'.off = form.off
        /\ \A g \in Fields \ {f} : form'.entries[g] = form.entries[g]
    BY <2>1 DEF Form, Entries
  <2>3. AccountTypeOK'
    BY <2>1, <2>2 DEF AccountTypeOK, Form
  <2>4. SendsTheForm' /\ FormKeepsTheRest'
    BY <2>1, <2>2 DEF SendsTheForm, FormKeepsTheRest
  <2> QED
    BY <2>1, <2>3, <2>4
<1>2. ASSUME UNCHANGED <<stored, profile, open, form, call, doubt>>, section'.enabled = section.enabled,
             section' \in Section, dialog' \in BOOLEAN
      PROVE  AccountIInv'
  <2>1. AccountTypeOK'
    BY <1>2 DEF AccountTypeOK, Section
  <2>2. SendsTheForm' /\ FormKeepsTheRest'
    BY <1>2 DEF SendsTheForm, FormKeepsTheRest
  <2> QED
    BY <1>2, <2>1, <2>2
<1>3. section \in Section /\ dialog \in BOOLEAN
  BY AccountTypes
<1>4. CASE CancelSetup
  BY <1>2, <1>3, <1>4 DEF CancelSetup, Section
<1>5. CASE DeleteDialog
  BY <1>2, <1>3, <1>5 DEF DeleteDialog
<1>6. CASE UNCHANGED accountVars
  BY <1>2, <1>3, <1>6 DEF accountVars
<1> QED
  BY <1>1, <1>4, <1>5, <1>6

-----------------------------------------------------------------------------
\* What the services do with a call.
LEMMA EffectsIs ==
  ASSUME stored \in Account, NEW a \in Call, NEW s \in Effects(a)
  PROVE  /\ s \in Account
         /\ a.op # "save" => s.entries = stored.entries
         /\ a.op = "save" => s.entries = Patched(stored.entries, a.sends)
         /\ a.op \notin {"enable", "disable"} => s.mfa = stored.mfa
         /\ a.op = "enable" => s.mfa = TRUE
         /\ a.op = "disable" => s.mfa = FALSE
<1>1. CASE a.op = "save"
  <2>1. Patched(stored.entries, a.sends) \in Entries
    BY DEF Patched, Entries, Account, Call
  <2>2. s = [stored EXCEPT !.entries = Patched(stored.entries, a.sends)]
    BY <1>1 DEF Effects
  <2> HIDE DEF Patched
  <2> QED
    BY <1>1, <2>1, <2>2 DEF Account
<1>2. CASE a.op = "setup"
  <2>1. s = [stored EXCEPT !.pending = TRUE]
    BY <1>2 DEF Effects
  <2> QED
    BY <1>2, <2>1 DEF Account
<1>3. CASE a.op = "enable"
  <2>1. s = [stored EXCEPT !.mfa = TRUE, !.pending = FALSE]
    BY <1>3 DEF Effects
  <2> QED
    BY <1>3, <2>1 DEF Account
<1>4. CASE a.op = "disable"
  <2>1. s = [stored EXCEPT !.mfa = FALSE]
    BY <1>4 DEF Effects
  <2> QED
    BY <1>4, <2>1 DEF Account
<1>5. CASE a.op = "delete"
  <2>1. s = [stored EXCEPT !.gone = TRUE]
    BY <1>5 DEF Effects
  <2> QED
    BY <1>5, <2>1 DEF Account
<1>6. CASE a.op \notin {"save", "setup", "enable", "disable", "delete"}
  <2>1. s = stored
    BY <1>6 DEF Effects
  <2> QED
    BY <1>6, <2>1
<1> QED
  BY <1>1, <1>2, <1>3, <1>4, <1>5, <1>6

\* When a service's step leaves the tab out of doubt.
LEMMA DoubtedIs ==
  ASSUME NEW c \in Calls, NEW s
  PROVE  /\ Doubted(c, s) \subseteq doubt \cup {"profile", "mfa"}
         /\ "profile" \notin Doubted(c, s) =>
              /\ s.entries # stored.entries => \A d \in Calls \ {c} : ~ (Served(d) /\ ReadsProfile(d))
              /\ "profile" \in doubt =>
                   /\ ReadsProfile(c)
                   /\ \A d \in Calls \ {c} : Served(d) /\ ReadsProfile(d) => call[d].got.entries = s.entries
         /\ "mfa" \notin Doubted(c, s) =>
              /\ s.mfa # stored.mfa => /\ call[c].awaited
                                       /\ \A d \in Calls \ {c} : ~ (Served(d) /\ Does(d, "status"))
              /\ "mfa" \in doubt =>
                   /\ Does(c, "status")
                   /\ \A d \in Calls \ {c} : Served(d) => call[d].op \notin MFAOps
                   /\ \A d \in Calls \ {c} : Served(d) /\ Does(d, "status") => call[d].got.mfa = s.mfa
<1> DEFINE heard == {d \in Calls \ {c} : call[d].phase = "served"}
           profileHeard == {call[d].got.entries : d \in {e \in heard : ReadsProfile(e)}}
           mfaHeard == {call[d].got.mfa : d \in {e \in heard : Does(e, "status")}}
           told == (IF ReadsProfile(c) /\ profileHeard \subseteq {s.entries} THEN {"profile"} ELSE {})
                   \cup (IF call[c].op = "status" /\ mfaHeard \subseteq {s.mfa}
                             /\ \A d \in heard : call[d].op \notin MFAOps THEN {"mfa"} ELSE {})
           overtaken == (IF s.entries # stored.entries /\ profileHeard # {} THEN {"profile"} ELSE {})
                        \cup (IF s.mfa # stored.mfa /\ (~ call[c].awaited \/ mfaHeard # {}) THEN {"mfa"} ELSE {})
<1>1. Doubted(c, s) = (doubt \ told) \cup overtaken
  BY DEF Doubted
<1>2. \A d \in Calls \ {c} : Served(d) /\ ReadsProfile(d) => call[d].got.entries \in profileHeard
  BY DEF Served
<1>3. \A d \in Calls \ {c} : Served(d) /\ Does(d, "status") => call[d].got.mfa \in mfaHeard
  BY DEF Served
<1>4. \A d \in Calls \ {c} : Served(d) => d \in heard
  BY DEF Served
<1>5. /\ told \subseteq {"profile", "mfa"} /\ overtaken \subseteq {"profile", "mfa"}
      /\ "profile" \in told => ReadsProfile(c) /\ profileHeard \subseteq {s.entries}
      /\ "mfa" \in told => /\ call[c].op = "status" /\ mfaHeard \subseteq {s.mfa}
                           /\ \A d \in heard : call[d].op \notin MFAOps
      /\ "profile" \notin overtaken => s.entries = stored.entries \/ profileHeard = {}
      /\ "mfa" \notin overtaken => s.mfa = stored.mfa \/ (call[c].awaited /\ mfaHeard = {})
  <2> HIDE DEF heard, profileHeard, mfaHeard
  <2> QED
    OBVIOUS
<1> HIDE DEF heard, profileHeard, mfaHeard, told, overtaken
<1> QED
  BY <1>1, <1>2, <1>3, <1>4, <1>5 DEF Does

LEMMA AccountServeStep ==
  ASSUME AccountIInv, NEW c \in Calls, Serve(c)
  PROVE  AccountIInv'
<1> DEFINE a == call[c]
<1>1. PICK s \in Effects(a) :
        /\ stored' = s
        /\ call' = [call EXCEPT ![c].phase = "served", ![c].got = Carried(a, s)]
        /\ doubt' = Doubted(c, s)
        /\ form' = [form EXCEPT !.off = form.off \/ (s.entries # stored.entries /\ ~ a.awaited)]
  BY DEF Serve
<1>2. /\ call \in [Calls -> Call] /\ stored \in Account /\ form \in Form /\ doubt \subseteq {"profile", "mfa"}
      /\ a \in Call /\ a.op # "none" /\ a.phase = "sent" /\ UNCHANGED <<profile, open, section, dialog>>
  BY AccountTypes DEF AccountIInv, Serve
<1>3. /\ s \in Account
      /\ a.op # "save" => s.entries = stored.entries
      /\ a.op = "save" => s.entries = Patched(stored.entries, a.sends)
      /\ a.op \notin {"enable", "disable"} => s.mfa = stored.mfa
      /\ a.op = "enable" => s.mfa = TRUE
      /\ a.op = "disable" => s.mfa = FALSE
  BY <1>2, EffectsIs
<1>4. /\ Carried(a, s) \in [entries : Entries, mfa : BOOLEAN]
      /\ a.op \in {"read", "save"} => Carried(a, s).entries = s.entries
      /\ a.op = "status" => Carried(a, s).mfa = s.mfa
  BY <1>3, BlankIs DEF Carried, Account
<1>5. /\ call' \in [Calls -> Call] /\ \A d \in Calls \ {c} : call'[d] = call[d]
      /\ call'[c].op = a.op /\ call'[c].sends = a.sends /\ call'[c].awaited = a.awaited
      /\ call'[c].phase = "served" /\ call'[c].got = Carried(a, s)
  <2> HIDE DEF Carried
  <2>1. [call[c] EXCEPT !.phase = "served", !.got = Carried(a, s)] \in Call
    BY <1>2, <1>4 DEF Call
  <2>2. call' = [call EXCEPT ![c] = [call[c] EXCEPT !.phase = "served", !.got = Carried(a, s)]]
    BY <1>1
  <2> QED
    BY <1>2, <2>1, <2>2 DEF Call
<1>6. /\ form' \in Form /\ form'.entries = form.entries /\ form'.edited = form.edited
      /\ ~ form'.off => ~ form.off /\ (s.entries = stored.entries \/ a.awaited)
  <2> DEFINE off == (form.off \/ (s.entries # stored.entries /\ ~ a.awaited))
  <2>1. off \in BOOLEAN /\ (~ off => ~ form.off /\ (s.entries = stored.entries \/ a.awaited))
    OBVIOUS
  <2>2. form' = [form EXCEPT !.off = off]
    BY <1>1
  <2> HIDE DEF off
  <2> QED
    BY <1>2, <2>1, <2>2 DEF Form
<1>7. AccountTypeOK'
  <2>1. doubt' \subseteq {"profile", "mfa"}
    BY <1>1, <1>2, DoubtedIs
  <2> QED
    BY <1>1, <1>2, <1>3, <1>5, <1>6, <2>1 DEF AccountIInv, AccountTypeOK, Form, Call, Account
<1>8. ProfileKnown'
  <2> SUFFICES ASSUME "profile" \notin doubt'  PROVE ProfileIsComing'
    BY DEF ProfileKnown
  <2>1. /\ s.entries # stored.entries => \A d \in Calls \ {c} : ~ (Served(d) /\ ReadsProfile(d))
        /\ "profile" \in doubt =>
             /\ ReadsProfile(c)
             /\ \A d \in Calls \ {c} : Served(d) /\ ReadsProfile(d) => call[d].got.entries = s.entries
    BY <1>1, DoubtedIs
  <2>2. ASSUME NEW d \in Calls, ReadsProfile(d)', Served(d)'
        PROVE  call'[d].got.entries = s.entries
    <3>1. CASE d = c
      BY <1>4, <1>5, <2>2, <3>1 DEF ReadsProfile
    <3>2. CASE d # c
      BY <1>5, <2>1, <2>2, <3>2 DEF ReadsProfile, Served, AccountIInv, ProfileKnown, ProfileIsComing
    <3> QED
      BY <3>1, <3>2
  <2>3. ASSUME profile # Unread
        PROVE  profile = s.entries \/ \E d \in Calls : ReadsProfile(d)' /\ Served(d)'
    <3>1. CASE ReadsProfile(c)
      BY <1>5, <3>1 DEF ReadsProfile, Served
    <3>2. CASE ~ ReadsProfile(c)
      BY <1>2, <1>3, <1>5, <2>1, <2>3, <3>2
         DEF ReadsProfile, Served, AccountIInv, ProfileKnown, ProfileIsComing
    <3> QED
      BY <3>1, <3>2
  <2> QED
    BY <1>1, <1>2, <2>2, <2>3 DEF ProfileIsComing
<1>9. MfaKnown'
  <2> SUFFICES ASSUME "mfa" \notin doubt'  PROVE MfaIsComing'
    BY DEF MfaKnown
  <2>1. /\ s.mfa # stored.mfa => /\ a.awaited
                                 /\ \A d \in Calls \ {c} : ~ (Served(d) /\ Does(d, "status"))
        /\ "mfa" \in doubt =>
             /\ Does(c, "status")
             /\ \A d \in Calls \ {c} : Served(d) => call[d].op \notin MFAOps
             /\ \A d \in Calls \ {c} : Served(d) /\ Does(d, "status") => call[d].got.mfa = s.mfa
    BY <1>1, DoubtedIs
  <2>2. ASSUME NEW d \in Calls, Served(d)'  PROVE MfaSaid(d)'
    <3>1. CASE d = c
      BY <1>1, <1>3, <1>4, <1>5, <3>1 DEF MfaSaid, Does
    <3>2. CASE d # c /\ s.mfa = stored.mfa
      <4>1. Served(d) /\ call'[d] = call[d]
        BY <1>5, <2>2, <3>2 DEF Served
      <4>2. CASE "mfa" \in doubt
        BY <1>1, <2>1, <3>2, <4>1, <4>2 DEF MfaSaid, Does, MFAOps
      <4>3. CASE "mfa" \notin doubt
        BY <1>1, <3>2, <4>1, <4>3 DEF MfaSaid, Does, AccountIInv, MfaKnown, MfaIsComing
      <4> QED
        BY <4>2, <4>3
    <3>3. CASE d # c /\ s.mfa # stored.mfa
      <4>1. Served(d) /\ call'[d] = call[d] /\ ~ Does(d, "status")
        BY <1>5, <2>1, <2>2, <3>3 DEF Served
      <4>2. a.op \in MFAOps /\ a.awaited
        BY <1>3, <2>1, <3>3 DEF MFAOps
      <4>3. ~ (call[d].op \in MFAOps /\ call[d].awaited)
        BY <3>3, <4>2 DEF AccountIInv, OneButton
      <4> QED
        BY <4>1, <4>3 DEF MfaSaid, Does, MFAOps
    <3> QED
      BY <3>1, <3>2, <3>3
  <2>3. ASSUME section'.enabled # "unknown"
        PROVE  \/ section'.enabled = (IF s.mfa THEN "on" ELSE "off")
               \/ \E d \in Calls : Served(d)' /\ call'[d].awaited /\ call'[d].op \in {"status", "enable", "disable"}
    <3>1. CASE Does(c, "status")
      BY <1>5, <3>1 DEF Does, Served, AccountIInv, OneButton
    <3>2. CASE ~ Does(c, "status") /\ s.mfa # stored.mfa
      BY <1>3, <1>5, <2>1, <3>2 DEF Served
    <3>3. CASE ~ Does(c, "status") /\ s.mfa = stored.mfa
      <4>1. MfaIsComing
        BY <2>1, <3>3 DEF AccountIInv, MfaKnown
      <4>2. CASE section.enabled = (IF stored.mfa THEN "on" ELSE "off")
        BY <1>2, <3>3, <4>2
      <4>3. ASSUME NEW d \in Calls, Served(d), call[d].awaited, call[d].op \in {"status", "enable", "disable"}
            PROVE  Served(d)' /\ call'[d].awaited /\ call'[d].op \in {"status", "enable", "disable"}
        BY <1>2, <1>5, <4>3 DEF Served
      <4> QED
        BY <1>2, <2>3, <4>1, <4>2, <4>3 DEF MfaIsComing
    <3> QED
      BY <3>1, <3>2, <3>3
  <2> QED
    BY <1>1, <2>2, <2>3 DEF MfaIsComing
<1>10. OneButton' /\ SendsTheForm'
  BY <1>5, <1>6 DEF AccountIInv, OneButton, SendsTheForm, Does
<1>11. FormKeepsTheRest'
  <2> SUFFICES ASSUME open' = "profile", ~ form'.off, NEW f \in Fields \ form'.edited
               PROVE  form'.entries[f] = s.entries[f]
    BY <1>1 DEF FormKeepsTheRest
  <2>1. form.entries[f] = stored.entries[f]
    BY <1>2, <1>6 DEF AccountIInv, FormKeepsTheRest
  <2>2. CASE s.entries = stored.entries
    BY <1>6, <2>1, <2>2
  <2>3. CASE s.entries # stored.entries
    <3>1. a.op = "save" /\ a.awaited /\ s.entries = Patched(stored.entries, a.sends)
      BY <1>3, <1>6, <2>3
    <3>2. a.sends[f] = form.entries[f]
      BY <1>6, <3>1 DEF AccountIInv, SendsTheForm, Does
    <3>3. s.entries[f] \in {stored.entries[f], a.sends[f]}
      BY <3>1 DEF Patched
    <3> QED
      BY <1>6, <2>1, <3>2, <3>3
  <2> QED
    BY <2>2, <2>3
<1> QED
  BY <1>7, <1>8, <1>9, <1>10, <1>11 DEF AccountIInv

-----------------------------------------------------------------------------
\* A call ends, the others stay, and a reading of the status may start.
LEMMA SettleIs ==
  ASSUME AccountIInv, NEW c \in Calls,
         call' \in {Settle(c), AskStatus(Settle(c))}
  PROVE  /\ call' \in [Calls -> Call]
         /\ \A d \in Calls \ {c} : \/ call'[d] = call[d]
                                   \/ call[d] = NoCall /\ call'[d] = NewCall("status", Blank)
         /\ call'[c] \in {NoCall, NewCall("status", Blank)}
<1> DEFINE left == Settle(c)
<1>1. left \in [Calls -> Call] /\ left[c] = NoCall /\ \A d \in Calls \ {c} : left[d] = call[d]
  BY NoCallIs, AccountTypes DEF AccountIInv, Settle
<1> HIDE DEF left
<1>2. /\ AskStatus(left) \in [Calls -> Call]
      /\ \A d \in Calls : \/ AskStatus(left)[d] = left[d]
                          \/ left[d] = NoCall /\ AskStatus(left)[d] = NewCall("status", Blank)
  BY <1>1, AskStatusIs
<1>3. call' = left \/ call' = AskStatus(left)
  BY DEF left
<1> QED
  BY <1>1, <1>2, <1>3

\* What a call that ends cannot disturb.
LEMMA EndKeeps ==
  ASSUME AccountIInv, NEW c \in Calls, call' \in {Settle(c), AskStatus(Settle(c))},
         stored'.entries = stored.entries, stored'.mfa = stored.mfa
  PROVE  /\ OneButton'
         /\ form'.entries = form.entries /\ form'.edited = form.edited => SendsTheForm'
         /\ \A d \in Calls : ReadsProfile(d)' /\ Served(d)' => ReadsProfile(d) /\ Served(d) /\ call'[d] = call[d]
         /\ \A d \in Calls \ {c} : Served(d) => call'[d] = call[d]
         /\ \A d \in Calls : Served(d)' => Served(d) /\ call'[d] = call[d] /\ d # c
<1> DEFINE new == NewCall("status", Blank)
<1>1. /\ \A d \in Calls \ {c} : call'[d] = call[d] \/ (call[d] = NoCall /\ call'[d] = new)
      /\ call'[c] \in {NoCall, new}
  BY SettleIs
<1>2. new.op = "status" /\ new.phase = "sent" /\ new.awaited = TRUE
  BY StatusCallIs
<1> HIDE DEF new
<1>3. OneButton'
  BY <1>1, <1>2, NoCallIs DEF AccountIInv, OneButton, Does, MFAOps
<1>4. form'.entries = form.entries /\ form'.edited = form.edited => SendsTheForm'
  BY <1>1, <1>2, NoCallIs DEF AccountIInv, SendsTheForm, Does
<1>5. \A d \in Calls : Served(d)' => Served(d) /\ call'[d] = call[d] /\ d # c
  BY <1>1, <1>2, NoCallIs DEF Served
<1>6. \A d \in Calls \ {c} : Served(d) => call'[d] = call[d]
  BY <1>1, NoCallIs DEF Served
<1> QED
  BY <1>3, <1>4, <1>5, <1>6 DEF ReadsProfile

LEMMA CallFailsStep ==
  ASSUME AccountIInv, NEW c \in Calls, CallFails(c)
  PROVE  AccountIInv'
<1>1. /\ call' = Settle(c) /\ UNCHANGED <<stored, open, dialog>>
      /\ profile' = (IF Does(c, "read") THEN Unread ELSE profile)
      /\ section' = (IF Does(c, "status") THEN [section EXCEPT !.enabled = "off"] ELSE section)
      /\ doubt' = doubt \cup (IF call[c].op \in {"save", "read"} THEN {"profile"} ELSE {})
                        \cup (IF call[c].op \in {"status", "enable", "disable"} THEN {"mfa"} ELSE {})
      /\ form' = [form EXCEPT !.off = form.off \/ Does(c, "save")]
  BY DEF CallFails, Settle
<1>2. call' \in [Calls -> Call]
  BY <1>1, SettleIs
<1>3. /\ OneButton'
      /\ form'.entries = form.entries /\ form'.edited = form.edited => SendsTheForm'
      /\ \A d \in Calls \ {c} : Served(d) => call'[d] = call[d]
      /\ \A d \in Calls : Served(d)' => Served(d) /\ call'[d] = call[d] /\ d # c
  BY <1>1, EndKeeps
<1>4. /\ form' \in Form /\ form'.entries = form.entries /\ form'.edited = form.edited /\ (~ form'.off => ~ form.off)
  <2> DEFINE off == (form.off \/ Does(c, "save"))
  <2>1. off \in BOOLEAN /\ (~ off => ~ form.off) /\ form' = [form EXCEPT !.off = off] /\ form \in Form
    BY <1>1, AccountTypes DEF AccountIInv
  <2> HIDE DEF off
  <2> QED
    BY <2>1 DEF Form
<1>5. AccountTypeOK'
  BY <1>1, <1>2, <1>4 DEF AccountIInv, AccountTypeOK, Call, Form
<1>6. ProfileKnown'
  <2> SUFFICES ASSUME "profile" \notin doubt'  PROVE ProfileIsComing'
    BY DEF ProfileKnown
  <2>1. ~ ReadsProfile(c) /\ "profile" \notin doubt /\ profile' = profile
    BY <1>1 DEF ReadsProfile, Does
  <2> QED
    BY <1>1, <1>3, <2>1 DEF AccountIInv, ProfileKnown, ProfileIsComing, ReadsProfile, Served
<1>7. MfaKnown'
  <2> SUFFICES ASSUME "mfa" \notin doubt'  PROVE MfaIsComing'
    BY DEF MfaKnown
  <2>1. call[c].op \notin {"status", "enable", "disable"} /\ "mfa" \notin doubt /\ section' = section
    BY <1>1 DEF Does
  <2> QED
    BY <1>1, <1>3, <2>1 DEF AccountIInv, MfaKnown, MfaIsComing, MfaSaid, Does, Served
<1>8. FormKeepsTheRest'
  BY <1>1, <1>4 DEF AccountIInv, FormKeepsTheRest
<1> QED
  BY <1>3, <1>4, <1>5, <1>6, <1>7, <1>8 DEF AccountIInv

LEMMA ProfileAnswerStep ==
  ASSUME AccountIInv, NEW c \in Calls, ProfileAnswer(c)
  PROVE  AccountIInv'
<1>1. /\ ReadsProfile(c) /\ Served(c) /\ profile' = call[c].got.entries
      /\ call' \in {Settle(c), AskStatus(Settle(c))}
      /\ UNCHANGED <<stored, open, form, section, dialog, doubt>>
  BY DEF ProfileAnswer, UpdateProfile, FetchProfile, SetProfile, Heard, ReadsProfile, Served, Does
<1>2. call' \in [Calls -> Call] /\ call[c].got.entries \in Entries
  BY <1>1, SettleIs, AccountTypes DEF AccountIInv, Call
<1>3. /\ OneButton' /\ SendsTheForm'
      /\ \A d \in Calls \ {c} : Served(d) => call'[d] = call[d]
      /\ \A d \in Calls : Served(d)' => Served(d) /\ call'[d] = call[d] /\ d # c
  BY <1>1, EndKeeps
<1>4. AccountTypeOK'
  BY <1>1, <1>2 DEF AccountIInv, AccountTypeOK, Call
<1>5. ProfileKnown'
  BY <1>1, <1>3 DEF AccountIInv, ProfileKnown, ProfileIsComing, ReadsProfile, Served
<1>6. MfaKnown'
  BY <1>1, <1>3 DEF AccountIInv, MfaKnown, MfaIsComing, MfaSaid, Does, Served, ReadsProfile
<1>7. FormKeepsTheRest'
  BY <1>1 DEF AccountIInv, FormKeepsTheRest
<1> QED
  BY <1>3, <1>4, <1>5, <1>6, <1>7 DEF AccountIInv

LEMMA SectionAnswerStep ==
  ASSUME AccountIInv, NEW c \in Calls, SectionAnswer(c)
  PROVE  AccountIInv'
<1>1. /\ call[c].op \in MFAOps \cup {"status"} /\ Served(c) /\ call' = Settle(c)
      /\ UNCHANGED <<stored, profile, open, form, dialog, doubt>>
  BY DEF SectionAnswer, Served
<1>2. call' \in [Calls -> Call] /\ section \in Section /\ stored.mfa \in BOOLEAN
  BY <1>1, SettleIs, AccountTypes DEF AccountIInv, Account
<1>3. /\ OneButton' /\ SendsTheForm'
      /\ \A d \in Calls \ {c} : Served(d) => call'[d] = call[d]
      /\ \A d \in Calls : Served(d)' => Served(d) /\ call'[d] = call[d] /\ d # c
  BY <1>1, EndKeeps
<1>4. /\ section' \in Section
      /\ IF call[c].awaited /\ call[c].op # "setup"
         THEN section'.enabled =
                (IF (Does(c, "status") /\ call[c].got.mfa) \/ Does(c, "enable") THEN "on" ELSE "off")
         ELSE section'.enabled = section.enabled
  <2>1. CASE ~ call[c].awaited
    <3>1. section' = section
      BY <2>1 DEF SectionAnswer
    <3> QED
      BY <1>2, <2>1, <3>1
  <2>2. CASE call[c].awaited /\ Does(c, "status")
    BY <1>2, <2>2 DEF SectionAnswer, Section, Does
  <2>3. CASE call[c].awaited /\ Does(c, "setup")
    BY <1>2, <2>3 DEF SectionAnswer, Section, Does, HandleSetup
  <2>4. CASE call[c].awaited /\ Does(c, "enable")
    BY <1>2, <2>4 DEF SectionAnswer, Section, Does, HandleEnable
  <2>5. CASE call[c].awaited /\ Does(c, "disable")
    BY <1>2, <2>5 DEF SectionAnswer, Section, Does, HandleDisable
  <2> QED
    BY <1>1, <2>1, <2>2, <2>3, <2>4, <2>5 DEF Does, MFAOps
<1>5. AccountTypeOK'
  BY <1>1, <1>2, <1>4 DEF AccountIInv, AccountTypeOK, Call, Section
<1>6. ProfileKnown'
  BY <1>1, <1>3 DEF AccountIInv, ProfileKnown, ProfileIsComing, ReadsProfile, Served, MFAOps
<1>7. MfaKnown'
  <2> SUFFICES ASSUME "mfa" \notin doubt  PROVE MfaIsComing'
    BY <1>1 DEF MfaKnown
  <2>1. MfaIsComing
    BY DEF AccountIInv, MfaKnown
  <2>2. \A d \in Calls : Served(d)' => MfaSaid(d)'
    BY <1>1, <1>3, <2>1 DEF MfaIsComing, MfaSaid, Does, Served
  <2>3. CASE call[c].awaited /\ call[c].op # "setup"
    <3>1. section'.enabled = (IF stored.mfa THEN "on" ELSE "off")
      <4>1. MfaSaid(c)
        BY <1>1, <2>1 DEF MfaIsComing
      <4>2. CASE Does(c, "status")
        BY <1>2, <1>4, <2>3, <4>1, <4>2 DEF MfaSaid, Does
      <4>3. CASE Does(c, "enable")
        BY <1>2, <1>4, <2>3, <4>1, <4>3 DEF MfaSaid, Does
      <4>4. CASE Does(c, "disable")
        BY <1>2, <1>4, <2>3, <4>1, <4>4 DEF MfaSaid, Does
      <4> QED
        BY <1>1, <2>3, <4>2, <4>3, <4>4 DEF Does, MFAOps
    <3> QED
      BY <1>1, <2>2, <3>1 DEF MfaIsComing
  <2>4. CASE ~ (call[c].awaited /\ call[c].op # "setup")
    <3>1. section'.enabled = section.enabled
      BY <1>4, <2>4
    <3>2. ASSUME NEW d \in Calls, Served(d), call[d].awaited, call[d].op \in {"status", "enable", "disable"}
          PROVE  Served(d)' /\ call'[d].awaited /\ call'[d].op \in {"status", "enable", "disable"}
      BY <1>3, <2>4, <3>2 DEF Served
    <3> QED
      BY <1>1, <2>1, <2>2, <3>1, <3>2 DEF MfaIsComing
  <2> QED
    BY <2>3, <2>4
<1>8. FormKeepsTheRest'
  BY <1>1 DEF AccountIInv, FormKeepsTheRest
<1> QED
  BY <1>3, <1>5, <1>6, <1>7, <1>8 DEF AccountIInv

LEMMA PasswordAnswerStep ==
  ASSUME AccountIInv, NEW c \in Calls, PasswordAnswer(c)
  PROVE  AccountIInv'
<1>1. /\ call[c].op = "password" /\ call' = Settle(c)
      /\ UNCHANGED <<stored, profile, open, form, section, dialog, doubt>>
  BY DEF PasswordAnswer, Heard, Does
<1>2. call' \in [Calls -> Call]
  BY <1>1, SettleIs
<1>3. /\ OneButton' /\ SendsTheForm'
      /\ \A d \in Calls \ {c} : Served(d) => call'[d] = call[d]
      /\ \A d \in Calls : Served(d)' => Served(d) /\ call'[d] = call[d] /\ d # c
  BY <1>1, EndKeeps
<1>4. AccountTypeOK'
  BY <1>1, <1>2 DEF AccountIInv, AccountTypeOK, Call
<1>5. ProfileKnown'
  BY <1>1, <1>3 DEF AccountIInv, ProfileKnown, ProfileIsComing, ReadsProfile, Served
<1>6. MfaKnown'
  BY <1>1, <1>3 DEF AccountIInv, MfaKnown, MfaIsComing, MfaSaid, Does, Served
<1>7. FormKeepsTheRest'
  BY <1>1 DEF AccountIInv, FormKeepsTheRest
<1> QED
  BY <1>3, <1>4, <1>5, <1>6, <1>7 DEF AccountIInv

LEMMA DeleteAccountStep ==
  ASSUME AccountIInv, NEW c \in Calls, DeleteAccount(c)
  PROVE  AccountIInv'
<1> DEFINE left == Unawaited
<1>1. /\ call' = [left EXCEPT ![c] = NoCall]
      /\ profile' = Unread /\ open' = "none" /\ form' = NoForm /\ section' = NoSection /\ dialog' = FALSE
      /\ call[c].op = "delete" /\ UNCHANGED <<stored, doubt>>
  BY DEF DeleteAccount, Heard, Does
<1>2. /\ left \in [Calls -> Call]
      /\ \A d \in Calls :
           IF Does(d, "status") THEN left[d] = NoCall
           ELSE /\ left[d].op = call[d].op /\ left[d].phase = call[d].phase
                /\ left[d].got = call[d].got /\ left[d].sends = call[d].sends
                /\ left[d].awaited => Does(d, "read")
  BY UnawaitedIs, AccountTypes DEF AccountIInv
<1> HIDE DEF left
<1>3. /\ call' \in [Calls -> Call]
      /\ \A d \in Calls : call'[d] = NoCall \/ call'[d] = left[d]
  BY <1>1, <1>2, NoCallIs
<1>4. ASSUME NEW d \in Calls
      PROVE  /\ call'[d].op # "status" /\ (call'[d].awaited => call'[d].op = "read")
             /\ Served(d)' => Served(d) /\ call'[d].op = call[d].op /\ call'[d].got = call[d].got
  BY <1>2, <1>3, NoCallIs DEF Served, Does
<1>5. AccountTypeOK'
  BY <1>1, <1>3, NoCallIs DEF AccountIInv, AccountTypeOK, Call, Form, Section
<1>6. ProfileKnown'
  BY <1>1, <1>4 DEF AccountIInv, ProfileKnown, ProfileIsComing, ReadsProfile, Served
<1>7. MfaKnown'
  BY <1>1, <1>4, NoCallIs DEF MfaKnown, MfaIsComing, MfaSaid, Does
<1>8. OneButton' /\ SendsTheForm'
  BY <1>4 DEF OneButton, SendsTheForm, Does, MFAOps
<1>9. FormKeepsTheRest'
  BY <1>1 DEF FormKeepsTheRest
<1> QED
  BY <1>5, <1>6, <1>7, <1>8, <1>9 DEF AccountIInv

LEMMA ChangedElsewhereStep ==
  ASSUME AccountIInv, ChangedElsewhere
  PROVE  AccountIInv'
<1>1. /\ form \in Form /\ stored \in Account
      /\ form' = [form EXCEPT !.off = form.off \/ stored'.entries # stored.entries]
      /\ UNCHANGED <<profile, open, section, dialog, call>>
  BY AccountTypes DEF AccountIInv, ChangedElsewhere
<1>2. /\ form' \in Form /\ form'.entries = form.entries /\ form'.edited = form.edited
      /\ ~ form'.off => ~ form.off /\ stored'.entries = stored.entries
  <2> DEFINE off == (form.off \/ stored'.entries # stored.entries)
  <2>1. off \in BOOLEAN /\ (~ off => ~ form.off /\ stored'.entries = stored.entries) /\ form' = [form EXCEPT !.off = off]
    BY <1>1
  <2> HIDE DEF off
  <2> QED
    BY <1>1, <2>1 DEF Form
<1>3. OneButton' /\ SendsTheForm' /\ FormKeepsTheRest'
  BY <1>1, <1>2 DEF AccountIInv, OneButton, SendsTheForm, FormKeepsTheRest, Does
<1>4. CASE \E e \in Entries : stored' = [stored EXCEPT !.entries = e] /\ doubt' = doubt \cup {"profile"}
  <2>1. stored' \in Account /\ stored'.mfa = stored.mfa
    BY <1>1, <1>4 DEF Account
  <2>2. AccountTypeOK'
    BY <1>1, <1>2, <1>4, <2>1 DEF AccountIInv, AccountTypeOK, Account, Form
  <2> QED
    BY <1>1, <1>3, <1>4, <2>1, <2>2
       DEF AccountIInv, ProfileKnown, MfaKnown, MfaIsComing, MfaSaid, Does, Served
<1>5. CASE stored' = [stored EXCEPT !.mfa = ~ stored.mfa, !.pending = FALSE] /\ doubt' = doubt \cup {"mfa"}
  <2>1. stored' \in Account /\ stored'.entries = stored.entries
    BY <1>1, <1>5 DEF Account
  <2>2. AccountTypeOK'
    BY <1>1, <1>2, <1>5, <2>1 DEF AccountIInv, AccountTypeOK, Account, Form
  <2> QED
    BY <1>1, <1>3, <1>5, <2>1, <2>2
       DEF AccountIInv, MfaKnown, ProfileKnown, ProfileIsComing, ReadsProfile, Served
<1> QED
  BY <1>4, <1>5 DEF ChangedElsewhere

\* The invariant that carries the two theorems.
THEOREM AccountInvariance == AccountSpec => []AccountIInv
<1>1. ASSUME AccountIInv, NEW c \in Calls,
             HandleSubmit(c) \/ ChangePasswordForm(c) \/ HandleConfirm(c) \/ \E op \in MFAOps : MFASection(c, op)
      PROVE  AccountIInv'
  <2>1. form.entries \in Entries
    BY <1>1, AccountTypes DEF AccountIInv, Form
  <2>2. ASSUME NEW op \in MFAOps, MFASection(c, op)  PROVE AccountIInv'
    <3>1. Send(c, op, Blank) /\ ~ UnderWay(MFAOps)
      BY <2>2 DEF MFASection, MFAButton
    <3>2. op # "save"
      BY DEF MFAOps
    <3> QED
      BY <1>1, <3>1, <3>2, BlankIs, SendStep
  <2>3. "save" \notin MFAOps /\ "password" \notin MFAOps /\ "delete" \notin MFAOps
    BY DEF MFAOps
  <2>4. CASE HandleSubmit(c)
    BY <1>1, <2>1, <2>3, <2>4, SendStep DEF HandleSubmit
  <2>5. CASE ChangePasswordForm(c)
    BY <1>1, <2>3, <2>5, BlankIs, SendStep DEF ChangePasswordForm
  <2>6. CASE HandleConfirm(c)
    BY <1>1, <2>3, <2>6, BlankIs, SendStep DEF HandleConfirm
  <2> QED
    BY <1>1, <2>2, <2>4, <2>5, <2>6
<1>2. AccountIInv /\ [AccountNext]_accountVars => AccountIInv'
  BY <1>1, ProfilePageStep, PageStep, AccountServeStep, CallFailsStep, ProfileAnswerStep, SectionAnswerStep,
     PasswordAnswerStep, DeleteAccountStep, ChangedElsewhereStep DEF AccountNext
<1> QED
  BY AccountInitHolds, <1>2, PTL DEF AccountSpec

\* The account, what the tab holds and shows of it, and its calls have their types.
THEOREM AccountTypeCorrect == AccountSpec => []AccountTypeOK
<1>1. AccountIInv => AccountTypeOK
  BY DEF AccountIInv
<1> QED
  BY AccountInvariance, <1>1, PTL

\* What the account page shows and would save is what the account has, for any number of calls
\* under way whose answers come in any order, except where the tab is left in doubt.
THEOREM PageIsTrue == AccountSpec => []AccountPageIsTrue
<1>1. AccountIInv => AccountPageIsTrue
  <2> SUFFICES ASSUME AccountIInv  PROVE AccountPageIsTrue
    OBVIOUS
  <2>1. Quiet => \A c \in Calls : ~ Served(c)
    BY NoCallIs DEF Quiet, Free, Served
  <2>2. ShownMfaIsTrue
    BY <2>1 DEF AccountIInv, MfaKnown, MfaIsComing, ShownMfaIsTrue
  <2>3. HeldProfileIsStored
    BY <2>1 DEF AccountIInv, ProfileKnown, ProfileIsComing, HeldProfileIsStored
  <2> QED
    BY <2>2, <2>3 DEF AccountIInv, AccountPageIsTrue
<1> QED
  BY AccountInvariance, <1>1, PTL

-----------------------------------------------------------------------------
(* StockChart *)

Markers == [bars : Bars, averages : SUBSET Averages, news : News \cup {Nothing}]
Charts ==
  [type : ChartTypes, daily : BOOLEAN, bars : Bars \cup {Nothing}, price : Quotes \cup {Nothing},
   lines : [Indicators -> Bars \cup {Nothing}], markers : Markers \cup {Nothing}]

\* What is true of a chart of a range and a type before it is drawn on again: its lines may be of
\* other bars, but not of another time format, and there are none without bars.
Fits(c, r, type) ==
  /\ c \in Charts /\ c.type = type /\ c.daily = IsDaily(r)
  /\ c.bars # Nothing => IsDaily(c.bars.range) = c.daily
  /\ \A i \in Indicators : c.lines[i] # Nothing =>
       /\ IsDaily(c.lines[i].range) = c.daily /\ c.bars # Nothing
       /\ c.lines[i] # c.bars => c.bars.size < Needs(i)

ChartInv == ChartTypeOK /\ Fits(chart, range, chartType) /\ ChosenIsDrawn

LEMMA NeedsType == ASSUME NEW i \in Indicators PROVE Needs(i) \in Nat
BY ChartAssumption DEF Needs, Averages

LEMMA NewFits ==
  ASSUME NEW r \in Ranges, NEW type \in ChartTypes
  PROVE  Fits(NewChart(type, IsDaily(r)), r, type)
BY DEF Fits, NewChart, Charts, IsDaily

LEMMA BarsOfType ==
  ASSUME NEW r \in Ranges, NEW d \in [bars : Sizes \cup {Nothing}, asked : BOOLEAN], HasBars(d)
  PROVE  BarsOf(r, d) \in Bars /\ BarsOf(r, d) # Nothing /\ BarsOf(r, d).range = r
<1>0. Sizes \subseteq Nat
  BY ChartAssumption
<1>a. d.bars \in Sizes /\ d.bars # 0
  BY DEF HasBars
<1>b. \A n \in Nat : n # 0 => n > 0
  OBVIOUS
<1>1. d.bars \in Nat /\ d.bars > 0 /\ d.bars \in Sizes
  <2>1. d.bars \in Nat
    BY <1>0, <1>a
  <2> QED BY <2>1, <1>a, <1>b
<1>2. BarsOf(r, d) \in Bars /\ BarsOf(r, d).range = r
  BY <1>1 DEF BarsOf, Bars
<1> QED BY <1>2, ChartAssumption

\* It shows what is chosen.
Shows(d, r, type, a, on, p, n) ==
  /\ Fits(d, r, type) /\ d.bars = a /\ d.price = p /\ d.markers = BuildMarkers(a, on, n)
  /\ \A i \in Indicators : /\ i \notin on => d.lines[i] = Nothing
                           /\ i \in on /\ a.size >= Needs(i) => d.lines[i] = a

\* Drawing keeps a chart fit, and makes it show what is chosen.
LEMMA DrawnFits ==
  ASSUME NEW c, NEW r \in Ranges, NEW type, Fits(c, r, type),
         NEW a \in Bars, a # Nothing, a.range = r, NEW on \in SUBSET Indicators,
         NEW p \in Quotes \cup {Nothing}, NEW n \in News \cup {Nothing},
         NEW d, d = Drawn(c, a, on, p, n)
  PROVE  Shows(d, r, type, a, on, p, n)
<1>0. a.size \in Nat
  BY ChartAssumption DEF Bars
<1>1. /\ d.type = c.type /\ d.daily = c.daily /\ d.bars = a /\ d.price = p
      /\ d.lines = [i \in Indicators |-> UpdateLine(i, c.lines[i], a, on)]
      /\ d.markers = BuildMarkers(a, on, n)
  <2>1. UpdateData(c, a, p) \in Charts /\ UpdateData(c, a, p).bars = a /\ UpdateData(c, a, p).price = p
        /\ UpdateData(c, a, p).type = c.type /\ UpdateData(c, a, p).daily = c.daily
    BY DEF Fits, Charts, UpdateData
  <2> HIDE DEF UpdateData
  <2> QED BY <2>1 DEF Drawn, Charts
<1>2. BuildMarkers(a, on, n) \in Markers
  BY DEF BuildMarkers, Markers
<1>3. ASSUME NEW i \in Indicators
      PROVE  /\ d.lines[i] \in Bars \cup {Nothing}
             /\ d.lines[i] # Nothing => /\ IsDaily(d.lines[i].range) = c.daily
                                        /\ d.lines[i] # a => a.size < Needs(i)
             /\ i \notin on => d.lines[i] = Nothing
             /\ i \in on /\ a.size >= Needs(i) => d.lines[i] = a
  <2>1. d.lines[i] = UpdateLine(i, c.lines[i], a, on)
    BY <1>1
  <2>2. c.lines[i] \in Bars \cup {Nothing} /\ (c.lines[i] # Nothing => IsDaily(c.lines[i].range) = c.daily)
    BY DEF Fits, Charts
  <2>3. IsDaily(a.range) = c.daily
    BY DEF Fits
  <2> QED BY <1>0, <2>1, <2>2, <2>3, NeedsType DEF UpdateLine
<1>4. d \in Charts
  <2>1. UpdateData(c, a, p) \in Charts
    BY DEF Fits, Charts, UpdateData
  <2>2. [i \in Indicators |-> UpdateLine(i, c.lines[i], a, on)] \in [Indicators -> Bars \cup {Nothing}]
    BY <1>1, <1>3
  <2> QED BY <2>1, <2>2, <1>2 DEF Charts, Drawn
<1>5. Fits(d, r, type)
  BY <1>1, <1>3, <1>4 DEF Fits
<1> QED BY <1>1, <1>3, <1>5 DEF Shows

\* The effects after a render: the chart that Setup leaves is fit, and Draw makes it show what is chosen.
LEMMA DrawFits ==
  ASSUME range' \in Ranges, chartType' \in ChartTypes, enabled' \subseteq Indicators,
         data' \in [Ranges -> [bars : Sizes \cup {Nothing}, asked : BOOLEAN]],
         currentPrice' \in Quotes \cup {Nothing}, news' \in News \cup {Nothing},
         NEW c, Fits(c, range', chartType'), Draw(c)
  PROVE  ChartInv'
<1> DEFINE d == data'[range']
<1>0. d \in [bars : Sizes \cup {Nothing}, asked : BOOLEAN]
  OBVIOUS
<1>1. CASE HasBars(d)
  <2> DEFINE a == BarsOf(range', d)
  <2>1. a \in Bars /\ a # Nothing /\ a.range = range'
    BY <1>0, <1>1, BarsOfType
  <2>2. chart' = Drawn(c, a, enabled', currentPrice', news')
    BY <1>1 DEF Draw
  <2> HIDE DEF a
  <2>3. Shows(chart', range', chartType', a, enabled', currentPrice', news')
    <3>1. enabled' \in SUBSET Indicators
      OBVIOUS
    <3> HIDE DEF d
    <3> QED BY <2>1, <2>2, <3>1, DrawnFits
  <2>4. chart'.type = chartType' /\ chart' \in Charts
    BY <2>3 DEF Fits, Shows
  <2> QED BY <2>3, <2>4 DEF Shows, a, ChartInv, ChartTypeOK, ChosenIsDrawn, Charts, Markers, Fits
<1>2. CASE ~ HasBars(d)
  <2>1. chart' = c
    BY <1>2 DEF Draw
  <2>2. chart' \in Charts
    BY <2>1 DEF Fits
  <2> QED BY <1>2, <2>1, <2>2 DEF ChartInv, ChartTypeOK, ChosenIsDrawn, Charts, Markers, Fits
<1> QED BY <1>1, <1>2

LEMMA SetupFits ==
  ASSUME Fits(chart, range, chartType), range \in Ranges, range' \in Ranges, chartType' \in ChartTypes
  PROVE  Fits(Setup, range', chartType')
BY NewFits DEF Setup, Fits

\* The invariant of the chart: it fits what is chosen, and shows it once there are bars.
LEMMA ChartHolds == ChartSpec => []ChartInv
<1>1. ChartInit => ChartInv
  <2> SUFFICES ASSUME ChartInit PROVE ChartInv
    OBVIOUS
  <2>1. range \in Ranges /\ chartType \in ChartTypes /\ IsDaily(range)
    BY ChartAssumption DEF ChartInit, ChartTypes, IsDaily
  <2>2. Fits(chart, range, chartType)
    BY <2>1, NewFits DEF ChartInit
  <2>3. chart \in Charts /\ data \in [Ranges -> [bars : Sizes \cup {Nothing}, asked : BOOLEAN]]
    <3>1. chart \in Charts
      BY <2>2 DEF Fits
    <3>2. data = [r \in Ranges |-> [bars |-> Nothing, asked |-> r \in InView \cup {"1W"}]]
      BY DEF ChartInit
    <3>3. \A r \in Ranges : (r \in InView \cup {"1W"}) \in BOOLEAN
      OBVIOUS
    <3>4. \A r \in Ranges : [bars |-> Nothing, asked |-> r \in InView \cup {"1W"}]
                           \in [bars : Sizes \cup {Nothing}, asked : BOOLEAN]
      BY <3>3, Zenon
    <3> QED BY <3>1, <3>2, <3>4, Zenon
  <2>4. ~ HasBars(data[range])
    BY <2>1 DEF ChartInit, HasBars
  <2>5. enabled = {} /\ currentPrice = Nothing /\ news = Nothing
    BY DEF ChartInit
  <2> QED BY <2>1, <2>2, <2>3, <2>4, <2>5 DEF ChartInv, ChartTypeOK, ChosenIsDrawn, Charts, Markers
<1>2. ChartInv /\ [ChartNext]_chartVars => ChartInv'
  <2> SUFFICES ASSUME ChartInv, [ChartNext]_chartVars PROVE ChartInv'
    OBVIOUS
  <2> DEFINE Queries == [Ranges -> [bars : Sizes \cup {Nothing}, asked : BOOLEAN]]
  <2>1. /\ range \in Ranges /\ chartType \in ChartTypes /\ enabled \subseteq Indicators
        /\ data \in Queries /\ currentPrice \in Quotes \cup {Nothing} /\ news \in News \cup {Nothing}
        /\ Fits(chart, range, chartType) /\ ChosenIsDrawn
    BY DEF ChartInv, ChartTypeOK
  \* An action that ends with the effects.
  <2>2. ASSUME /\ range' \in Ranges /\ chartType' \in ChartTypes /\ enabled' \subseteq Indicators
               /\ data' \in Queries /\ currentPrice' \in Quotes \cup {Nothing}
               /\ news' \in News \cup {Nothing} /\ Draw(Setup)
        PROVE  ChartInv'
    <3>1. Fits(Setup, range', chartType')
      BY <2>1, <2>2, SetupFits
    <3> HIDE DEF ChartInv
    <3> QED BY <2>2, <3>1, DrawFits
  \* An action on the queries alone, which leaves the bars of the chosen range.
  <2>3. ASSUME UNCHANGED <<range, chartType, enabled, currentPrice, news, chart>>,
               data' \in Queries, data'[range].bars = data[range].bars
        PROVE  ChartInv'
    <3>1. HasBars(data'[range']) = HasBars(data[range]) /\ BarsOf(range', data'[range']) = BarsOf(range, data[range])
      BY <2>3 DEF HasBars, BarsOf
    <3>2. ChosenIsDrawn'
      BY <2>1, <2>3, <3>1 DEF ChosenIsDrawn
    <3>3. Fits(chart, range, chartType)'
      BY <2>1, <2>3 DEF Fits, Charts
    <3> QED BY <2>3, <3>2, <3>3 DEF ChartInv, ChartTypeOK
  <2>4. ASSUME NEW d \in [bars : Sizes \cup {Nothing}, asked : BOOLEAN], NEW old \in BOOLEAN
        PROVE  Observed(d, old) \in [bars : Sizes \cup {Nothing}, asked : BOOLEAN]
    BY DEF Observed
  <2>5. ASSUME NEW r \in Ranges, SetRange(r) PROVE ChartInv'
    <3>1. data' \in Queries
      BY <2>1, <2>4, <2>5 DEF SetRange
    <3> QED BY <2>1, <2>2, <2>5, <3>1 DEF SetRange
  <2>6. ASSUME NEW type \in ChartTypes, SetChartType(type) PROVE ChartInv'
    BY <2>1, <2>2, <2>6 DEF SetChartType
  <2>7. ASSUME NEW i \in Indicators, Toggle(i) PROVE ChartInv'
    <3>1. enabled' \subseteq Indicators
      BY <2>1, <2>7 DEF Toggle
    <3> QED BY <2>1, <2>2, <2>7, <3>1 DEF Toggle
  <2>8. ASSUME Mount PROVE ChartInv'
    <3>1. /\ range' \in Ranges /\ chartType' \in ChartTypes /\ enabled' \subseteq Indicators
          /\ IsDaily(range') /\ chartType' = "candlestick"
      BY <2>8, ChartAssumption DEF Mount, ChartTypes, IsDaily
    <3>2. PICK dropped \in BOOLEAN, old \in BOOLEAN :
            data' = [r \in Ranges |->
              LET d == IF dropped /\ ~ data[r].asked THEN [data[r] EXCEPT !.bars = Nothing] ELSE data[r]
              IN IF r \in InView \cup {"1W"} THEN Observed(d, old) ELSE d]
      BY <2>8 DEF Mount
    <3>3. ASSUME NEW r \in Ranges
          PROVE  (IF dropped /\ ~ data[r].asked THEN [data[r] EXCEPT !.bars = Nothing] ELSE data[r])
                   \in [bars : Sizes \cup {Nothing}, asked : BOOLEAN]
      BY <2>1
    <3>4. data' \in Queries
      BY <3>2, <3>3, <2>4
    <3>5. Fits(NewChart("candlestick", TRUE), range', chartType')
      BY <3>1, NewFits DEF IsDaily
    <3> HIDE DEF ChartInv
    <3> QED BY <2>1, <2>8, <3>1, <3>4, <3>5, DrawFits DEF Mount
  <2>9. ASSUME NEW r \in Ranges, Refetch(r) PROVE ChartInv'
    <3>1. data' \in Queries /\ data'[range].bars = data[range].bars
      BY <2>1, <2>9 DEF Refetch
    <3> QED BY <2>3, <2>9, <3>1 DEF Refetch
  <2>10. ASSUME NEW r \in Ranges, NEW n \in Sizes, HistoryArrives(r, n) PROVE ChartInv'
    <3>1. data' \in Queries
      BY <2>1, <2>10 DEF HistoryArrives
    <3> QED BY <2>1, <2>2, <2>10, <3>1 DEF HistoryArrives
  <2>11. ASSUME NEW r \in Ranges, HistoryFails(r) PROVE ChartInv'
    <3>1. data' \in Queries /\ data'[range].bars = data[range].bars
      BY <2>1, <2>11 DEF HistoryFails
    <3> QED BY <2>3, <2>11, <3>1 DEF HistoryFails
  <2>12. ASSUME NEW r \in Ranges, Forgotten(r) PROVE ChartInv'
    <3>1. data' \in Queries /\ data'[range].bars = data[range].bars
      BY <2>1, <2>12 DEF Forgotten
    <3> QED BY <2>3, <2>12, <3>1 DEF Forgotten
  <2>13. ASSUME NEW p \in Quotes, PriceChanges(p) PROVE ChartInv'
    BY <2>1, <2>2, <2>13 DEF PriceChanges
  <2>14. ASSUME NEW n \in News, NewsArrive(n) PROVE ChartInv'
    BY <2>1, <2>2, <2>14 DEF NewsArrive
  <2>15. CASE UNCHANGED chartVars
    BY <2>1, <2>3, <2>15 DEF chartVars
  <2> QED BY <2>5, <2>6, <2>7, <2>8, <2>9, <2>10, <2>11, <2>12, <2>13, <2>14, <2>15 DEF ChartNext
<1> QED BY <1>1, <1>2, PTL DEF ChartSpec

\* Type correctness of the buttons, the queries and the chart.
THEOREM ChartTypeCorrect == ChartSpec => []ChartTypeOK
<1>1. ChartInv => ChartTypeOK
  BY DEF ChartInv
<1> QED BY <1>1, ChartHolds, PTL

(* The chart shows the bars, price, markers and indicators of what is chosen, whatever order *)
(* answers, prices, news and clicks come in.                                                 *)
THEOREM ChosenDrawn == ChartSpec => []ChosenIsDrawn
<1>1. ChartInv => ChosenIsDrawn
  BY DEF ChartInv
<1> QED BY <1>1, ChartHolds, PTL

(* No chart mixes the times of days with those of minutes, lines left behind included.       *)
THEOREM OneFormat == ChartSpec => []OneTimeFormat
<1>1. ChartInv => OneTimeFormat
  BY DEF ChartInv, Fits, OneTimeFormat
<1> QED BY <1>1, ChartHolds, PTL

(* A line of other bars than the chart's is there only when these are too few for it.        *)
THEOREM LeftForWantOfBars == ChartSpec => []LeftBehindForWantOfBars
<1>1. ChartInv => LeftBehindForWantOfBars
  BY DEF ChartInv, Fits, LeftBehindForWantOfBars
<1> QED BY <1>1, ChartHolds, PTL

(* What a stock's page shows is what its user chose and the tab knows, and no chart is put   *)
(* together of what does not go together.                                                    *)
THEOREM ChartsAreTrue == ChartSpec => []ChartIsTrue
<1>1. ChosenIsDrawn /\ OneTimeFormat /\ LeftBehindForWantOfBars => ChartIsTrue
  BY DEF ChartIsTrue
<1> QED BY <1>1, ChosenDrawn, OneFormat, LeftForWantOfBars, PTL

-----------------------------------------------------------------------------
(* ChartSignals *)

\* A set of numbers that is not empty has a least one.
LEMMA LeastDay ==
  ASSUME NEW S \in SUBSET Nat, S # {}
  PROVE  \E m \in S : \A k \in S : m <= k
<1> DEFINE R == OpToRel(<, Nat)
<1>1. IsWellFoundedOn(R, Nat)
  BY NatLessThanWellFounded
<1>2. \A x, y \in Nat : y < x => <<y, x>> \in R
  BY DEF OpToRel
<1> HIDE DEF R
<1>3. PICK m \in S : \A y \in S : ~ (<<y, m>> \in R)
  BY <1>1, WFMin
<1>4. \A y \in S : ~ (y < m)
  BY <1>2, <1>3
<1> QED BY <1>4

\* A line that is not below another on day a, and is on day b, crosses it in between.
LEMMA Crossing ==
  ASSUME NEW a \in Nat, NEW b \in Nat, a <= b, NEW f, NEW g,
         \A d \in a..b : f[d] \in Int /\ g[d] \in Int,
         f[a] >= g[a], f[b] < g[b]
  PROVE  \E e \in a + 1..b : f[e - 1] >= g[e - 1] /\ f[e] < g[e]
<1> DEFINE S == {e \in a..b : f[e] < g[e]}
<1>1. S \in SUBSET Nat /\ b \in S
  OBVIOUS
<1> HIDE DEF S
<1>2. PICK m \in S : \A k \in S : m <= k
  BY <1>1, LeastDay
<1> USE DEF S
<1>3. m \in a..b /\ f[m] < g[m] /\ f[m] \in Int /\ g[m] \in Int
  BY <1>2
<1>4. m # a
  <2> SUFFICES ASSUME m = a PROVE FALSE
    OBVIOUS
  <2> QED BY <1>3
<1>5. m - 1 \in a..b /\ m \in a + 1..b
  BY <1>3, <1>4
<1>6. m - 1 \notin S
  BY <1>2, <1>3
<1>7. f[m - 1] \in Int /\ g[m - 1] \in Int /\ ~ (f[m - 1] < g[m - 1])
  BY <1>5, <1>6
<1> QED BY <1>3, <1>5, <1>7

Both(f, g) == DOMAIN f \cap DOMAIN g

\* What the two kinds of signals are.
LEMMA SignalsOf ==
  ASSUME NEW f, NEW g, NEW source, NEW of
  PROVE  /\ \A d : /\ d \in Both(f, g) /\ d - 1 \in Both(f, g) /\ f[d - 1] <= g[d - 1] /\ f[d] > g[d]
                     => Signal(d, "buy", source, of) \in CrossSignals(f, g, source, of)
                   /\ d \in Both(f, g) /\ d - 1 \in Both(f, g) /\ f[d - 1] >= g[d - 1] /\ f[d] < g[d]
                     => Signal(d, "sell", source, of) \in CrossSignals(f, g, source, of)
         /\ \A s \in CrossSignals(f, g, source, of) :
              /\ s.time \in Both(f, g) /\ s.type \in Types /\ s.source = source /\ s.of = of
              /\ s.type = "buy" => f[s.time] > g[s.time]
              /\ s.type = "sell" => f[s.time] < g[s.time]
<1>1. \A d : d \in Compared(f, g) <=> d \in Both(f, g) /\ d - 1 \in Both(f, g)
  BY DEF Compared, Both
<1>2. \A s : s \in CrossSignals(f, g, source, of) <=>
        \/ \E d \in Crosses(f, g).buy : s = Signal(d, "buy", source, of)
        \/ \E d \in Crosses(f, g).sell : s = Signal(d, "sell", source, of)
  <2>1. \A s : s \in CrossSignals(f, g, source, of) <=>
          \E type \in Types : \E d \in Crosses(f, g)[type] : s = Signal(d, type, source, of)
    BY DEF CrossSignals
  <2>2. Crosses(f, g)["buy"] = Crosses(f, g).buy /\ Crosses(f, g)["sell"] = Crosses(f, g).sell
    OBVIOUS
  <2> QED BY <2>1, <2>2 DEF Types
<1>3. /\ Crosses(f, g).buy = {d \in Compared(f, g) : f[d - 1] <= g[d - 1] /\ f[d] > g[d]}
      /\ Crosses(f, g).sell = {d \in Compared(f, g) : f[d - 1] >= g[d - 1] /\ f[d] < g[d]}
  BY DEF Crosses
<1> QED BY <1>1, <1>2, <1>3 DEF Signal, Types

\* The signals of two lines tell how the lines stand.
LEMMA SidesTold ==
  ASSUME bars \in Nat, NEW f, NEW g, NEW first \in Nat, NEW later \in Nat, NEW source, NEW of,
         DOMAIN f = first..bars, DOMAIN g = later..bars,
         \A d \in DOMAIN f : f[d] \in Int, \A d \in DOMAIN g : g[d] \in Int
  PROVE  Tell(CrossSignals(f, g, source, of), f, g)
<1> DEFINE signals == CrossSignals(f, g, source, of)
<1>0. \A d \in Both(f, g) : d \in Nat /\ d <= bars /\ f[d] \in Int /\ g[d] \in Int
  BY DEF Both
<1>1. \A a, b \in Both(f, g) : \A d \in a..b : d \in Both(f, g)
  BY DEF Both
\* A day on which the lines change sides has a signal.
<1>2. ASSUME NEW a \in Both(f, g), NEW b \in Both(f, g), a <= b
      PROVE  /\ f[a] >= g[a] /\ f[b] < g[b] => \E s \in signals : s.time > a /\ s.type = "sell"
             /\ f[a] <= g[a] /\ f[b] > g[b] => \E s \in signals : s.time > a /\ s.type = "buy"
  <2>1. a \in Nat /\ b \in Nat /\ \A d \in a..b : f[d] \in Int /\ g[d] \in Int
    BY <1>0, <1>1
  <2>2. ASSUME f[a] >= g[a], f[b] < g[b] PROVE \E s \in signals : s.time > a /\ s.type = "sell"
    <3>1. PICK e \in a + 1..b : f[e - 1] >= g[e - 1] /\ f[e] < g[e]
      BY <1>2, <2>1, <2>2, Crossing
    <3>2. e \in Both(f, g) /\ e - 1 \in Both(f, g) /\ e > a
      BY <1>1, <2>1
    <3>3. Signal(e, "sell", source, of) \in signals
      BY <3>1, <3>2, SignalsOf
    <3> QED BY <3>2, <3>3 DEF Signal
  <2>3. ASSUME f[a] <= g[a], f[b] > g[b] PROVE \E s \in signals : s.time > a /\ s.type = "buy"
    <3>0. /\ f[a] \in Int /\ g[a] \in Int /\ f[b] \in Int /\ g[b] \in Int
          /\ \A d \in a..b : g[d] \in Int /\ f[d] \in Int
      BY <1>2, <2>1
    <3>1. g[a] >= f[a] /\ g[b] < f[b]
      BY <3>0, <2>3
    <3>2. PICK e \in a + 1..b : g[e - 1] >= f[e - 1] /\ g[e] < f[e]
      BY <1>2, <2>1, <3>0, <3>1, Crossing
    <3>3. e \in Both(f, g) /\ e - 1 \in Both(f, g) /\ e > a
      BY <1>1, <2>1
    <3>4. f[e - 1] <= g[e - 1] /\ f[e] > g[e]
      BY <1>0, <3>2, <3>3
    <3>5. Signal(e, "buy", source, of) \in signals
      BY <3>3, <3>4, SignalsOf
    <3> QED BY <3>3, <3>5 DEF Signal
  <2> QED BY <2>2, <2>3
<1>3. ASSUME bars \in Both(f, g), NEW s \in Latest(signals)
      PROVE  IF s.type = "buy" THEN f[bars] >= g[bars] ELSE f[bars] <= g[bars]
  <2>1. s \in signals /\ \A t \in signals : t.time <= s.time
    BY DEF Latest
  <2>2. /\ s.time \in Both(f, g) /\ s.type \in Types
        /\ s.type = "buy" => f[s.time] > g[s.time]
        /\ s.type = "sell" => f[s.time] < g[s.time]
    BY <2>1, SignalsOf
  <2>3. /\ s.time <= bars /\ s.time \in Nat /\ f[s.time] \in Int /\ g[s.time] \in Int
        /\ f[bars] \in Int /\ g[bars] \in Int
    BY <1>0, <1>3, <2>2
  <2>4. \A t \in signals : t.time \in Nat
    BY <1>0, SignalsOf
  <2>5. ~ \E t \in signals : t.time > s.time
    BY <2>1, <2>3, <2>4
  <2>6. CASE s.type = "buy"
    <3>1. f[s.time] >= g[s.time]
      BY <2>2, <2>3, <2>6
    <3>2. ~ (f[bars] < g[bars])
      BY <1>2, <1>3, <2>2, <2>3, <2>5, <3>1
    <3> QED BY <2>3, <2>6, <3>2
  <2>7. CASE s.type = "sell"
    <3>1. f[s.time] <= g[s.time]
      BY <2>2, <2>3, <2>7
    <3>2. ~ (f[bars] > g[bars])
      BY <1>2, <1>3, <2>2, <2>3, <2>5, <3>1
    <3> QED BY <2>3, <2>7, <3>2
  <2> QED BY <2>2, <2>6, <2>7 DEF Types
<1>4. ASSUME signals = {}, NEW d \in Both(f, g), NEW e \in Both(f, g), f[d] < g[d], f[e] > g[e]
      PROVE  FALSE
  <2>1. /\ d \in Nat /\ e \in Nat /\ f[d] \in Int /\ g[d] \in Int /\ f[e] \in Int /\ g[e] \in Int
    BY <1>0
  <2>2. CASE d <= e
    BY <1>2, <1>4, <2>1, <2>2
  <2>3. CASE e <= d
    BY <1>2, <1>4, <2>1, <2>3
  <2> QED BY <2>1, <2>2, <2>3
<1> QED BY <1>3, <1>4 DEF Tell, Both

LEMMA SignalsTypes == SignalsSpec => []SignalsTypeOK
<1>1. SignalsInit => SignalsTypeOK
  BY SignalsAssumption DEF SignalsInit, SignalsTypeOK
<1>2. ASSUME NEW line, NEW v, NEW S, bars \in Nat, line \in [1..bars -> S], v \in S
      PROVE  Extended(line, v) \in [1..bars + 1 -> S]
  BY <1>2 DEF Extended
<1>3. SignalsTypeOK /\ [SignalsNext]_signalVars => SignalsTypeOK'
  <2> SUFFICES ASSUME SignalsTypeOK, [SignalsNext]_signalVars PROVE SignalsTypeOK'
    OBVIOUS
  <2>1. CASE NextDay
    <3>1. bars \in Nat /\ bars' = bars + 1 /\ bars' \in 0..MaxBars
      BY <2>1, SignalsAssumption DEF NextDay, SignalsTypeOK
    <3>2. average' \in [Lines -> [1..bars' -> Heights]]
      BY <1>2, <2>1, <3>1 DEF NextDay, SignalsTypeOK
    <3>3. macd' \in [1..bars' -> Heights] /\ smooth' \in [1..bars' -> Heights]
      BY <1>2, <2>1, <3>1 DEF NextDay, SignalsTypeOK
    <3>4. rsi' \in [1..bars' -> {"over", "between", "under"}]
      <4>1. PICK v \in {"over", "between", "under"} : rsi' = Extended(rsi, v)
        BY <2>1 DEF NextDay
      <4>2. rsi \in [1..bars -> {"over", "between", "under"}]
        BY DEF SignalsTypeOK
      <4>3. Extended(rsi, v) \in [1..bars + 1 -> {"over", "between", "under"}]
        BY <1>2, <3>1, <4>2
      <4> QED BY <3>1, <4>1, <4>3
    <3> QED BY <3>1, <3>2, <3>3, <3>4 DEF SignalsTypeOK
  <2>2. CASE UNCHANGED signalVars
    BY <2>2 DEF signalVars, SignalsTypeOK
  <2> QED BY <2>1, <2>2 DEF SignalsNext
<1> QED BY <1>1, <1>3, PTL DEF SignalsSpec

(* The last signal of two lines is of the side on which they are, and lines without a signal *)
(* have not changed sides, for any values, periods and length of the history.                *)
THEOREM SidesAreTold == SignalsSpec => []SignalsTellTheSide
<1>1. SignalsTypeOK => SignalsTellTheSide
  <2> SUFFICES ASSUME SignalsTypeOK PROVE SignalsTellTheSide
    OBVIOUS
  <2>0. bars \in Nat
    BY SignalsAssumption DEF SignalsTypeOK
  \* The points of a line, if there are any.
  <2>1. ASSUME NEW line \in [1..bars -> Heights], NEW n \in Nat \ {0}
        PROVE  /\ DOMAIN From(n, line) = n..bars
               /\ \A d \in DOMAIN From(n, line) : From(n, line)[d] \in Int
    <3>1. From(n, line) = [d \in n..bars |-> line[d]]
      BY DEF From
    <3>2. \A d \in n..bars : d \in 1..bars
      BY <2>0
    <3>3. \A d \in n..bars : line[d] \in Int
      BY <3>2, SignalsAssumption
    <3> QED BY <3>1, <3>3
  <2>2. DOMAIN None = bars + 1..bars /\ \A d \in DOMAIN None : None[d] \in Int
    BY <2>0 DEF None, From
  <2>3. ASSUME NEW a \in Lines
        PROVE  \E n \in Nat : DOMAIN ComputeMA(a) = n..bars /\ \A d \in DOMAIN ComputeMA(a) : ComputeMA(a)[d] \in Int
    <3>1. average[a] \in [1..bars -> Heights] /\ Period[a] \in Nat \ {0}
      BY SignalsAssumption DEF SignalsTypeOK
    <3>2. CASE bars < Period[a]
      BY <2>0, <2>2, <3>2 DEF ComputeMA
    <3>3. CASE ~ bars < Period[a]
      BY <2>1, <3>1, <3>3 DEF ComputeMA
    <3> QED BY <3>2, <3>3
  <2>4. ASSUME NEW line \in [1..bars -> Heights]
        PROVE  /\ DOMAIN ComputeMACD(line) = (IF bars < Slow + Smoothed THEN bars + 1 ELSE FirstMACD)..bars
               /\ \A d \in DOMAIN ComputeMACD(line) : ComputeMACD(line)[d] \in Int
    <3>1. FirstMACD \in Nat \ {0}
      BY SignalsAssumption DEF FirstMACD
    <3> QED BY <2>1, <2>2, <3>1 DEF ComputeMACD
  \* What the panel lists of two lines are the signals of their crossings.
  <2>5. /\ Technical("macd", <<>>) = MACDSignals
        /\ \A p \in Pairs :
             Technical("ma-cross", p) = CrossSignals(ComputeMA(p[1]), ComputeMA(p[2]), "ma-cross", p)
    <3>1. \A s \in RSISignals : s.source = "rsi"
      BY DEF RSISignals, Signal
    <3>2. \A s \in MACDSignals : s.source = "macd" /\ s.of = <<>>
      BY SignalsOf DEF MACDSignals
    <3>3. \A q \in Pairs : \A s \in CrossSignals(ComputeMA(q[1]), ComputeMA(q[2]), "ma-cross", q) :
            s.source = "ma-cross" /\ s.of = q
      BY SignalsOf
    <3>4. Technical("macd", <<>>) = MACDSignals
      BY <3>1, <3>2, <3>3 DEF Technical, DetectSignals, MASignals
    <3>5. ASSUME NEW p \in Pairs
          PROVE  Technical("ma-cross", p) = CrossSignals(ComputeMA(p[1]), ComputeMA(p[2]), "ma-cross", p)
      BY <3>1, <3>2, <3>3 DEF Technical, DetectSignals, MASignals
    <3> QED BY <3>4, <3>5
  <2>6. Tell(Technical("macd", <<>>), ComputeMACD(macd), ComputeMACD(smooth))
    <3>1. macd \in [1..bars -> Heights] /\ smooth \in [1..bars -> Heights]
      BY DEF SignalsTypeOK
    <3>2. PICK n \in Nat : n = (IF bars < Slow + Smoothed THEN bars + 1 ELSE FirstMACD)
      BY <2>0, SignalsAssumption DEF FirstMACD
    <3>3. /\ DOMAIN ComputeMACD(macd) = n..bars /\ DOMAIN ComputeMACD(smooth) = n..bars
          /\ \A d \in DOMAIN ComputeMACD(macd) : ComputeMACD(macd)[d] \in Int
          /\ \A d \in DOMAIN ComputeMACD(smooth) : ComputeMACD(smooth)[d] \in Int
      BY <2>4, <3>1, <3>2
    <3>4. Tell(MACDSignals, ComputeMACD(macd), ComputeMACD(smooth))
      BY <2>0, <3>3, SidesTold DEF MACDSignals
    <3> QED BY <2>5, <3>4
  <2>7. ASSUME NEW p \in Pairs PROVE Tell(Technical("ma-cross", p), ComputeMA(p[1]), ComputeMA(p[2]))
    <3>1. p[1] \in Lines /\ p[2] \in Lines
      BY SignalsAssumption
    <3>2. PICK n \in Nat : DOMAIN ComputeMA(p[1]) = n..bars /\ \A d \in DOMAIN ComputeMA(p[1]) : ComputeMA(p[1])[d] \in Int
      BY <2>3, <3>1
    <3>3. PICK m \in Nat : DOMAIN ComputeMA(p[2]) = m..bars /\ \A d \in DOMAIN ComputeMA(p[2]) : ComputeMA(p[2])[d] \in Int
      BY <2>3, <3>1
    <3>4. Tell(CrossSignals(ComputeMA(p[1]), ComputeMA(p[2]), "ma-cross", p), ComputeMA(p[1]), ComputeMA(p[2]))
      BY <2>0, <3>2, <3>3, SidesTold
    <3> QED BY <2>5, <3>4
  <2> QED BY <2>6, <2>7 DEF SignalsTellTheSide
<1> QED BY <1>1, SignalsTypes, PTL

-----------------------------------------------------------------------------
(* GuestForms *)

Phases == {"sent", "found", "ok", "taken", "refused"}
AccountRecords == [is : {"none", "new", "verified"}, pw : Passwords \cup {Nobody}]
LinkRecords == [for : {"none", "verify", "reset"}, of : Addresses \cup {Nobody}, good : BOOLEAN]
PageRecords ==
  [route : Routes, link : Links \cup {Nobody}, loading : BOOLEAN,
   entries : [address : Addresses \cup {Nobody}, password : Passwords \cup {Nobody},
              confirm : Passwords \cup {Nobody}],
   says : {"nothing", "check", "done", "taken", "failed"},
   asked : BOOLEAN, edited : BOOLEAN, sure : BOOLEAN, changed : BOOLEAN]
PostRecords ==
  [op : Routes \cup {"none"}, address : Addresses \cup {Nobody}, password : Passwords \cup {Nobody},
   link : Links \cup {Nobody}, phase : Phases, heard : BOOLEAN]

LinkFits(k) == (k.for = "none" => k = NoLink) /\ (k.for # "none" => k.of \in Addresses)

\* What a call is, and how far it may be.
PostFits(a, acc, lk) ==
  /\ a.op # "login"
  /\ a.op = "none" => a = NoPost
  /\ a.op \notin {"verify", "reset"} => a.link = Nobody
  /\ a.op \in {"register", "forgot"} => a.address \in Addresses /\ a.phase \in {"sent", "ok", "taken"}
  /\ a.op = "forgot" => a.phase # "taken"
  /\ a.op = "register" => a.password \in Passwords /\ (a.phase # "sent" => acc[a.address] # Unknown)
  /\ a.op \in {"verify", "reset"} =>
       /\ a.link \in Links /\ lk[a.link].for = a.op
       /\ a.phase \in {"sent", "found", "ok", "refused"}
  /\ a.op = "reset" => a.password \in Passwords
  /\ a.op = "verify" /\ a.phase = "ok" => acc[lk[a.link].of].is = "verified"

\* A call that is heard is one of the open page.
HeardFits(a, pg, acc, lk) ==
  a.heard =>
    /\ a.op = pg.route /\ a.link = pg.link /\ pg.loading /\ pg.says = "nothing"
    /\ a.op = "verify" => pg.asked
    /\ ~ pg.edited => /\ a.op = "register" => a.address = pg.entries.address
                      /\ a.op = "reset" => a.password = pg.entries.password
    /\ a.op = "reset" /\ a.phase = "ok" /\ ~ pg.changed => acc[lk[a.link].of].pw = a.password

PageFits(pg, lk) ==
  /\ pg.route = "register" /\ pg.says \in {"done", "taken"} /\ ~ pg.edited =>
       pg.entries.address \in Addresses
  /\ pg.link # Nobody => lk[pg.link].for = pg.route
  /\ pg.says = "done" /\ pg.route \in {"verify", "reset"} => pg.link # Nobody
  /\ pg.route = "verify" /\ pg.link # Nobody /\ ~ pg.asked => pg.loading /\ pg.says = "nothing"

\* Nothing but a call of the page has to do with its link.
SureFits(pg, lk, posts) ==
  pg.sure =>
    /\ pg.link # Nobody /\ pg.says # "failed"
    /\ \A c \in Posts : posts[c].link # Nobody /\ lk[posts[c].link].of = lk[pg.link].of => posts[c].heard
    /\ \A c \in Posts : posts[c].heard => posts[c].phase # "refused"
    /\ pg.says # "done" =>
         lk[pg.link].good \/ \E c \in Posts : posts[c].heard /\ posts[c].phase \in {"found", "ok"}

Said(pg, acc, lk) ==
  /\ pg.route = "register" /\ pg.says \in {"done", "taken"} /\ ~ pg.edited => acc[pg.entries.address] # Unknown
  /\ pg.route = "verify" /\ pg.says = "done" => acc[lk[pg.link].of].is = "verified"
  /\ pg.route = "reset" /\ pg.says = "done" /\ ~ pg.edited /\ ~ pg.changed =>
       acc[lk[pg.link].of].pw = pg.entries.password

StoresFit ==
  /\ account \in [Addresses -> AccountRecords] /\ link \in [Links -> LinkRecords] /\ redirects \in Nat
  /\ \A l \in Links : LinkFits(link[l]) /\ (link[l].for # "none" => account[link[l].of] # Unknown)
PostsFit == post \in [Posts -> PostRecords] /\ \A c \in Posts : PostFits(post[c], account, link)
HeardFit ==
  /\ \A c \in Posts : HeardFits(post[c], page, account, link)
  /\ \A c, d \in Posts : post[c].heard /\ post[d].heard => c = d
PageFit == page \in PageRecords /\ PageFits(page, link) /\ Said(page, account, link)

GuestInv == StoresFit /\ PostsFit /\ HeardFit /\ PageFit /\ SureFits(page, link, post)

-----------------------------------------------------------------------------
\* What no step takes back.
Stays(acc, acc2) ==
  \A e \in Addresses : /\ acc[e] # Unknown => acc2[e] # Unknown
                       /\ acc[e].is = "verified" => acc2[e].is = "verified"
Keeps(lk, lk2) ==
  \A l \in Links : lk[l].for # "none" => lk2[l].for = lk[l].for /\ lk2[l].of = lk[l].of

LEMMA PostStays ==
  ASSUME NEW acc, NEW acc2, NEW lk, NEW lk2, Stays(acc, acc2), Keeps(lk, lk2),
         \A l \in Links : LinkFits(lk[l]), NEW a, PostFits(a, acc, lk)
  PROVE  PostFits(a, acc2, lk2)
BY DEF Stays, Keeps, PostFits, LinkFits

LEMMA PhaseSet ==
  ASSUME NEW a \in PostRecords, NEW ph \in Phases, NEW b, b = [a EXCEPT !.phase = ph]
  PROVE  /\ b \in PostRecords /\ b.op = a.op /\ b.address = a.address /\ b.password = a.password
         /\ b.link = a.link /\ b.phase = ph /\ b.heard = a.heard
BY DEF PostRecords

LEMMA HeardSet ==
  ASSUME NEW a \in PostRecords, NEW b, b = [a EXCEPT !.heard = FALSE]
  PROVE  /\ b \in PostRecords /\ b.op = a.op /\ b.address = a.address /\ b.password = a.password
         /\ b.link = a.link /\ b.phase = a.phase /\ b.heard = FALSE
BY DEF PostRecords

LEMMA NoPostFits ==
  ASSUME NEW acc, NEW lk
  PROVE  /\ NoPost \in PostRecords /\ PostFits(NoPost, acc, lk)
         /\ NoPost.heard = FALSE /\ NoPost.link = Nobody
BY DEF NoPost, PostRecords, Phases, PostFits

\* A page that opens, with no call that is heard.
LEMMA OpenedFits ==
  ASSUME NEW route \in Routes, NEW l \in Links \cup {Nobody}, NEW sure \in BOOLEAN,
         NEW lk, NEW acc, l # Nobody => lk[l].for = route,
         NEW pg, pg = Opened(route, l, sure)
  PROVE  /\ pg \in PageRecords /\ PageFits(pg, lk) /\ Said(pg, acc, lk)
         /\ pg.sure = sure /\ pg.link = l /\ (l # Nobody => pg.says = "nothing")
BY DEF Opened, Untyped, PageRecords, PageFits, Said, Routes

\* All calls unheard.
LEMMA UnmountFits ==
  ASSUME GuestInv, Unmount, UNCHANGED <<account, link>>
  PROVE  /\ PostsFit' /\ \A c \in Posts : ~ post'[c].heard /\ post'[c].link = post[c].link
<1>1. \A c \in Posts : post'[c] = [post[c] EXCEPT !.heard = FALSE] /\ post[c] \in PostRecords
  BY DEF Unmount, GuestInv, PostsFit
<1>2. post' \in [Posts -> PostRecords]
  BY <1>1, HeardSet DEF Unmount
<1>3. ASSUME NEW c \in Posts PROVE PostFits(post'[c], account, link)
  <2>1. PostFits(post[c], account, link)
    BY DEF GuestInv, PostsFit
  <2>2. CASE post[c].op = "none"
    <3>1. post'[c] = [NoPost EXCEPT !.heard = FALSE]
      BY <1>1, <2>1, <2>2 DEF PostFits
    <3>2. post'[c] = NoPost
      BY <3>1 DEF NoPost
    <3> QED BY <3>2, NoPostFits
  <2>3. CASE post[c].op # "none"
    <3>1. /\ post'[c].op = post[c].op /\ post'[c].address = post[c].address
          /\ post'[c].password = post[c].password /\ post'[c].link = post[c].link
          /\ post'[c].phase = post[c].phase
      BY <1>1, HeardSet
    <3> QED BY <2>1, <2>3, <3>1 DEF PostFits
  <2> QED BY <2>2, <2>3
<1>4. ASSUME NEW c \in Posts  PROVE ~ post'[c].heard /\ post'[c].link = post[c].link
  <2>1. post'[c] = [post[c] EXCEPT !.heard = FALSE] /\ post[c] \in PostRecords
    BY <1>1
  <2>2. post'[c].heard = FALSE /\ post'[c].link = post[c].link
    BY <2>1, HeardSet
  <2> QED
    BY <2>2
<1> QED BY <1>2, <1>3, <1>4 DEF PostsFit

LEMMA GuestOpen ==
  ASSUME GuestInv, NEW route \in Routes, NEW l \in Links \cup {Nobody}, Open(route, l)
  PROVE  GuestInv'
<1> DEFINE sure == l # Nobody /\ Untouched(l)
<1>1. /\ UNCHANGED <<account, link>> /\ redirects' \in Nat /\ Unmount
      /\ page' = Opened(route, l, sure) /\ (l # Nobody => link[l].for = route)
  BY DEF Open, GuestInv, StoresFit
<1>2. StoresFit'
  BY <1>1 DEF GuestInv, StoresFit
<1>3. PostsFit' /\ \A c \in Posts : ~ post'[c].heard /\ post'[c].link = post[c].link
  BY <1>1, UnmountFits
<1>4. HeardFit'
  BY <1>3 DEF HeardFit, HeardFits
<1>5. sure \in BOOLEAN
  BY DEF Untouched, GuestInv, StoresFit, LinkRecords
<1>6. /\ page' \in PageRecords /\ PageFits(page', link) /\ Said(page', account, link)
      /\ page'.sure = sure /\ page'.link = l /\ (l # Nobody => page'.says = "nothing")
  <2> HIDE DEF sure
  <2> QED BY <1>1, <1>5, OpenedFits
<1>7. PageFit'
  BY <1>1, <1>6 DEF PageFit
<1>8. SureFits(page', link', post')
  BY <1>1, <1>3, <1>6 DEF SureFits, Untouched, Of
<1> QED BY <1>2, <1>3, <1>4, <1>7, <1>8 DEF GuestInv

LEMMA GuestRedirect ==
  ASSUME GuestInv, Redirect
  PROVE  GuestInv'
<1>1. /\ UNCHANGED <<account, link>> /\ redirects' \in Nat /\ Unmount
      /\ page' = Opened("login", Nobody, FALSE)
  BY DEF Redirect, GuestInv, StoresFit
<1>2. StoresFit'
  BY <1>1 DEF GuestInv, StoresFit
<1>3. PostsFit' /\ \A c \in Posts : ~ post'[c].heard
  BY <1>1, UnmountFits
<1>4. HeardFit'
  BY <1>3 DEF HeardFit, HeardFits
<1>5. "login" \in Routes
  BY DEF Routes
<1>6. page' \in PageRecords /\ PageFits(page', link) /\ Said(page', account, link) /\ page'.sure = FALSE
  BY <1>1, <1>5, OpenedFits
<1>7. PageFit'
  BY <1>1, <1>6 DEF PageFit
<1>8. SureFits(page', link', post')
  BY <1>6 DEF SureFits
<1> QED BY <1>2, <1>3, <1>4, <1>7, <1>8 DEF GuestInv

LEMMA GuestEdit ==
  ASSUME GuestInv, NEW field \in {"address", "password", "confirm"},
         NEW v \in Addresses \cup Passwords, EditInput(field, v)
  PROVE  GuestInv'
<1>1. /\ UNCHANGED <<account, link, post, redirects>> /\ page \in PageRecords
      /\ page' = [page EXCEPT !.entries[field] = v, !.edited = TRUE]
      /\ field = "address" => v \in Addresses
      /\ field # "address" => v \in Passwords
  BY DEF EditInput, GuestInv, PageFit
<1>2. /\ page' \in PageRecords /\ page'.edited /\ page'.route = page.route /\ page'.link = page.link
      /\ page'.loading = page.loading /\ page'.says = page.says /\ page'.asked = page.asked
      /\ page'.sure = page.sure /\ page'.changed = page.changed
  BY <1>1 DEF PageRecords
<1>3. PageFit'
  BY <1>1, <1>2 DEF GuestInv, PageFit, PageFits, Said
<1>4. HeardFit'
  BY <1>1, <1>2 DEF GuestInv, HeardFit, HeardFits
<1>5. SureFits(page', link', post')
  BY <1>1, <1>2 DEF GuestInv, SureFits
<1>6. StoresFit' /\ PostsFit'
  BY <1>1 DEF GuestInv, StoresFit, PostsFit
<1> QED BY <1>3, <1>4, <1>5, <1>6 DEF GuestInv

LEMMA GuestLost ==
  ASSUME GuestInv, NEW c \in Posts, Lost(c)
  PROVE  GuestInv'
<1>1. /\ UNCHANGED <<account, link, redirects>> /\ page \in PageRecords /\ post[c] \in PostRecords
      /\ page' = [page EXCEPT !.says = "failed", !.loading = FALSE, !.sure = FALSE]
      /\ post' = [post EXCEPT ![c].heard = FALSE] /\ post \in [Posts -> PostRecords] /\ post[c].heard
  BY DEF Lost, GuestInv, PageFit, PostsFit
<1>2. /\ page' \in PageRecords /\ page'.route = page.route /\ page'.link = page.link
      /\ page'.says = "failed" /\ page'.sure = FALSE /\ page'.asked = page.asked
      /\ page.route = "verify" => page.asked
  BY <1>1 DEF PageRecords, GuestInv, HeardFit, HeardFits
<1>3. PageFit'
  BY <1>1, <1>2 DEF GuestInv, PageFit, PageFits, Said
<1>4. /\ post' \in [Posts -> PostRecords] /\ post'[c].op = post[c].op /\ post'[c].address = post[c].address
      /\ post'[c].password = post[c].password /\ post'[c].link = post[c].link
      /\ post'[c].phase = post[c].phase /\ ~ post'[c].heard
  <2>1. post'[c] = [post[c] EXCEPT !.heard = FALSE] /\ \A d \in Posts : d # c => post'[d] = post[d]
    BY <1>1
  <2>2. /\ post'[c] \in PostRecords /\ post'[c].op = post[c].op /\ post'[c].address = post[c].address
        /\ post'[c].password = post[c].password /\ post'[c].link = post[c].link
        /\ post'[c].phase = post[c].phase /\ post'[c].heard = FALSE
    <3> DEFINE b == post'[c]
    <3>1. b = [post[c] EXCEPT !.heard = FALSE]
      BY <2>1
    <3> HIDE DEF b
    <3>2. /\ b \in PostRecords /\ b.op = post[c].op /\ b.address = post[c].address
          /\ b.password = post[c].password /\ b.link = post[c].link
          /\ b.phase = post[c].phase /\ b.heard = FALSE
      BY <1>1, <3>1, HeardSet
    <3> QED BY <3>2 DEF b
  <2>3. post' \in [Posts -> PostRecords]
    BY <1>1, <2>1, <2>2
  <2> QED BY <2>2, <2>3
<1>5. \A d \in Posts : d # c => post'[d] = post[d] /\ ~ post'[d].heard
  BY <1>1 DEF GuestInv, HeardFit
<1>6. HeardFit'
  BY <1>4, <1>5 DEF HeardFit, HeardFits
<1>7. post[c].op # "none"
  BY <1>1 DEF GuestInv, PostsFit, PostFits, NoPost
<1>8. PostFits(post'[c], account, link)
  BY <1>4, <1>7 DEF GuestInv, PostsFit, PostFits
<1>9. PostsFit'
  BY <1>1, <1>4, <1>5, <1>8 DEF GuestInv, PostsFit
<1>10. SureFits(page', link', post') /\ StoresFit'
  BY <1>1, <1>2 DEF SureFits, StoresFit, GuestInv
<1> QED BY <1>3, <1>6, <1>9, <1>10 DEF GuestInv

LEMMA GuestEnds ==
  ASSUME GuestInv, NEW c \in Posts, Ends(c)
  PROVE  GuestInv'
<1>1. /\ UNCHANGED <<account, link, page, redirects>> /\ post \in [Posts -> PostRecords]
      /\ post' = [post EXCEPT ![c] = NoPost] /\ ~ post[c].heard
  BY DEF Ends, GuestInv, PostsFit
<1>2. /\ post' \in [Posts -> PostRecords] /\ post'[c] = NoPost
      /\ \A d \in Posts : d # c => post'[d] = post[d]
  BY <1>1, NoPostFits
<1>3. PostsFit'
  BY <1>1, <1>2, NoPostFits DEF GuestInv, PostsFit
<1>4. HeardFit'
  BY <1>1, <1>2, NoPostFits DEF GuestInv, HeardFit, HeardFits
<1>5. SureFits(page', link', post')
  BY <1>1, <1>2, NoPostFits DEF GuestInv, SureFits
<1>6. StoresFit' /\ PageFit'
  BY <1>1 DEF GuestInv, StoresFit, PageFit
<1> QED BY <1>3, <1>4, <1>5, <1>6 DEF GuestInv

\* A call under way whose phase is set, while the stores take nothing back.
LEMMA ReplyFits ==
  ASSUME GuestInv, NEW c \in Posts, NEW ph \in Phases, Replies(c, ph),
         Stays(account, account'), Keeps(link, link')
  PROVE  /\ post' \in [Posts -> PostRecords] /\ post'[c].op = post[c].op
         /\ post'[c].address = post[c].address /\ post'[c].password = post[c].password
         /\ post'[c].link = post[c].link /\ post'[c].phase = ph /\ post'[c].heard = post[c].heard
         /\ \A d \in Posts : d # c => post'[d] = post[d] /\ PostFits(post'[d], account', link')
         /\ PostFits(post[c], account, link) /\ PostFits(post[c], account', link')
         /\ (PostFits(post'[c], account', link') => PostsFit')
<1>1. /\ post \in [Posts -> PostRecords] /\ post[c] \in PostRecords
      /\ post' = [post EXCEPT ![c].phase = ph]
      /\ \A l \in Links : LinkFits(link[l])
      /\ \A d \in Posts : PostFits(post[d], account, link)
  BY DEF GuestInv, PostsFit, Replies, StoresFit
<1>2. post'[c] = [post[c] EXCEPT !.phase = ph] /\ \A d \in Posts : d # c => post'[d] = post[d]
  BY <1>1
<1>3. /\ post'[c] \in PostRecords /\ post'[c].op = post[c].op
      /\ post'[c].address = post[c].address /\ post'[c].password = post[c].password
      /\ post'[c].link = post[c].link /\ post'[c].phase = ph /\ post'[c].heard = post[c].heard
  <2> DEFINE b == post'[c]
  <2>1. b = [post[c] EXCEPT !.phase = ph]
    BY <1>2
  <2> HIDE DEF b
  <2>2. /\ b \in PostRecords /\ b.op = post[c].op /\ b.address = post[c].address
        /\ b.password = post[c].password /\ b.link = post[c].link
        /\ b.phase = ph /\ b.heard = post[c].heard
    BY <1>1, <2>1, PhaseSet
  <2> QED BY <2>2 DEF b
<1>4. post' \in [Posts -> PostRecords]
  BY <1>1, <1>2, <1>3
<1>5. \A d \in Posts : PostFits(post[d], account', link')
  <2> SUFFICES ASSUME NEW d \in Posts PROVE PostFits(post[d], account', link')
    OBVIOUS
  <2>1. PostFits(post[d], account, link)
    BY <1>1
  <2> DEFINE acc2 == account'
             lk2 == link'
  <2>2. Stays(account, acc2) /\ Keeps(link, lk2)
    OBVIOUS
  <2> HIDE DEF acc2, lk2
  <2>3. PostFits(post[d], acc2, lk2)
    BY <1>1, <2>1, <2>2, PostStays
  <2> QED BY <2>3 DEF acc2, lk2
<1> QED BY <1>1, <1>2, <1>3, <1>4, <1>5 DEF PostsFit

\* A mail: the link that it carries is new.
LEMMA MailFits ==
  ASSUME GuestInv, NEW for \in {"verify", "reset"}, NEW e \in Addresses, Mails(for, e)
  PROVE  /\ link' \in [Links -> LinkRecords] /\ Keeps(link, link')
         /\ \A l \in Links : /\ LinkFits(link'[l])
                             /\ link[l].for # "none" => link'[l] = link[l]
                             /\ link'[l] = link[l] \/ link'[l].of = e
<1>1. link \in [Links -> LinkRecords] /\ \A l \in Links : LinkFits(link[l])
  BY DEF GuestInv, StoresFit
<1>2. CASE UNCHANGED link
  BY <1>1, <1>2 DEF Keeps
<1>3. CASE \E l \in Links : link[l] = NoLink
                            /\ link' = [link EXCEPT ![l] = [for |-> for, of |-> e, good |-> TRUE]]
  <2> PICK l \in Links : link[l] = NoLink
                         /\ link' = [link EXCEPT ![l] = [for |-> for, of |-> e, good |-> TRUE]]
    BY <1>3
  <2>1. /\ link'[l] = [for |-> for, of |-> e, good |-> TRUE]
        /\ \A k \in Links : k # l => link'[k] = link[k]
    BY <1>1
  <2>2. link'[l] \in LinkRecords /\ LinkFits(link'[l]) /\ link'[l].of = e
    <3> DEFINE k == [for |-> for, of |-> e, good |-> TRUE]
    <3>1. k \in LinkRecords /\ k.of = e /\ k.for = for
      BY DEF LinkRecords
    <3>2. LinkFits(k)
      BY <3>1 DEF LinkFits
    <3> QED BY <2>1, <3>1, <3>2
  <2>3. link[l].for = "none"
    BY DEF NoLink
  <2>4. link' \in [Links -> LinkRecords]
    BY <1>1, <2>1, <2>2
  <2> QED BY <1>1, <2>1, <2>2, <2>3, <2>4 DEF Keeps
<1> QED BY <1>2, <1>3 DEF Mails

LEMMA GuestRegister ==
  ASSUME GuestInv, NEW c \in Posts, Register(c), GuestAssumption
  PROVE  GuestInv'
<1> DEFINE e == post[c].address
<1>1. /\ UNCHANGED <<page, redirects>> /\ post[c].op = "register" /\ e \in Addresses
      /\ post[c].password \in Passwords /\ post[c].link = Nobody
      /\ account \in [Addresses -> AccountRecords] /\ link \in [Links -> LinkRecords]
  BY DEF Register, At, GuestInv, PostsFit, PostFits, StoresFit
<1>2. /\ account' \in [Addresses -> AccountRecords] /\ Stays(account, account')
      /\ account'[e] # Unknown
      /\ \A d \in Addresses : account[d] # Unknown => account'[d] = account[d]
      /\ link' \in [Links -> LinkRecords] /\ Keeps(link, link')
      /\ \A l \in Links : /\ LinkFits(link'[l])
                          /\ link[l].for # "none" => link'[l] = link[l]
                          /\ link'[l] = link[l] \/ link'[l].of = e
      /\ \E ph \in {"ok", "taken"} : Replies(c, ph)
  <2>1. CASE account[e] = Unknown
    <3>1. /\ account' = [account EXCEPT ![e] = [is |-> "new", pw |-> post[c].password]]
          /\ Mails("verify", e) /\ Replies(c, "ok")
      BY <2>1 DEF Register
    <3>2. /\ account'[e] = [is |-> "new", pw |-> post[c].password]
          /\ \A d \in Addresses : d # e => account'[d] = account[d]
      BY <1>1, <3>1
    <3>3. account'[e] \in AccountRecords /\ account'[e] # Unknown /\ account[e].is = "none"
      BY <1>1, <2>1, <3>2 DEF AccountRecords, Unknown
    <3>4. account' \in [Addresses -> AccountRecords]
      BY <1>1, <3>1, <3>3
    <3>5. Stays(account, account') /\ \A d \in Addresses : account[d] # Unknown => account'[d] = account[d]
      BY <2>1, <3>2, <3>3 DEF Stays
    <3> HIDE DEF e
    <3> QED BY <1>1, <3>1, <3>3, <3>4, <3>5, MailFits
  <2>2. CASE account[e] # Unknown
    BY <1>1, <2>2 DEF Register, Stays, Keeps, GuestInv, StoresFit
  <2> QED BY <2>1, <2>2
<1>3. PICK ph \in {"ok", "taken"} : Replies(c, ph)
  BY <1>2
<1>4. ph \in Phases
  BY DEF Phases
<1>5. /\ post' \in [Posts -> PostRecords] /\ post'[c].op = post[c].op
      /\ post'[c].address = e /\ post'[c].password = post[c].password
      /\ post'[c].link = post[c].link /\ post'[c].phase = ph /\ post'[c].heard = post[c].heard
      /\ \A d \in Posts : d # c => post'[d] = post[d]
      /\ (PostFits(post'[c], account', link') => PostsFit')
  BY <1>2, <1>3, <1>4, ReplyFits
<1>6. PostsFit'
  BY <1>1, <1>2, <1>5 DEF PostFits
<1>7. \A l \in Links : link[l].for # "none" => account[Of(l)] # Unknown /\ Of(l) \in Addresses
  BY DEF GuestInv, StoresFit, LinkFits, Of
<1>8. StoresFit'
  BY <1>1, <1>2, <1>7 DEF StoresFit, GuestInv, Of, LinkFits
<1>9. HeardFit'
  BY <1>1, <1>2, <1>5, <1>7 DEF HeardFit, HeardFits, GuestInv, PostsFit, PostFits, Of
<1>10. PageFit'
  <2>1. page \in PageRecords /\ PageFits(page, link) /\ Said(page, account, link)
    BY DEF GuestInv, PageFit
  <2>2. page.link # Nobody => page.link \in Links /\ link[page.link].for # "none"
    BY <2>1 DEF PageFits, PageRecords, Routes
  <2>3. PageFits(page, link')
    BY <1>2, <2>1, <2>2 DEF PageFits
  <2>5. ASSUME page.route = "register", page.says \in {"done", "taken"}, ~ page.edited
        PROVE  account'[page.entries.address] # Unknown
    <3>1. account[page.entries.address] # Unknown /\ page.entries.address \in Addresses
      BY <2>1, <2>5 DEF Said, PageFits
    <3> QED BY <1>2, <3>1
  <2>6. page.says = "done" /\ page.route \in {"verify", "reset"} =>
          account'[link'[page.link].of] = account[link[page.link].of]
    BY <1>2, <1>7, <2>1, <2>2 DEF PageFits, Of
  <2>7. Said(page, account', link')
    BY <2>1, <2>5, <2>6 DEF Said
  <2> QED BY <1>1, <2>1, <2>3, <2>7 DEF PageFit
<1>11. SureFits(page', link', post')
  <2>1. page.link # Nobody => page.link \in Links /\ link[page.link].for # "none"
    BY DEF GuestInv, PageFit, PageFits, PageRecords, Routes
  <2>2. page.sure => ~ post[c].heard
    BY <1>1 DEF GuestInv, SureFits, HeardFit, HeardFits
  <2>3. \A d \in Posts : post[d].link # Nobody => post[d].link \in Links /\ link[post[d].link].for # "none"
    BY DEF GuestInv, PostsFit, PostFits, NoPost
  <2>4. \A d \in Posts : post'[d].link = post[d].link /\ post'[d].heard = post[d].heard
    BY <1>5
  <2> QED BY <1>1, <1>2, <1>5, <2>1, <2>2, <2>3, <2>4 DEF SureFits, GuestInv
<1> QED BY <1>6, <1>8, <1>9, <1>10, <1>11 DEF GuestInv

\* The links that the page and the calls carry are mailed ones.
LEMMA LinksInUse ==
  ASSUME GuestInv, GuestAssumption
  PROVE  /\ page.link # Nobody => page.link \in Links /\ link[page.link].for # "none"
         /\ \A d \in Posts : post[d].link # Nobody =>
              post[d].link \in Links /\ link[post[d].link].for # "none"
         /\ \A l \in Links : link[l].for # "none" => link[l].of \in Addresses /\ account[link[l].of] # Unknown
         /\ Nobody \notin Links /\ Nobody \notin Passwords
         /\ page.says = "done" /\ page.route \in {"verify", "reset"} => page.link # Nobody
<1>1. page.link # Nobody => page.link \in Links /\ link[page.link].for # "none"
  BY DEF GuestInv, PageFit, PageFits, PageRecords, Routes
<1>2. \A d \in Posts : post[d].link # Nobody =>
              post[d].link \in Links /\ link[post[d].link].for # "none"
  BY DEF GuestInv, PostsFit, PostFits, NoPost
<1>3. \A l \in Links : link[l].for # "none" => link[l].of \in Addresses /\ account[link[l].of] # Unknown
  BY DEF GuestInv, StoresFit, LinkFits
<1>4. page.says = "done" /\ page.route \in {"verify", "reset"} => page.link # Nobody
  BY DEF GuestInv, PageFit, PageFits
<1> QED BY <1>1, <1>2, <1>3, <1>4 DEF GuestAssumption

LEMMA GuestForgot ==
  ASSUME GuestInv, NEW c \in Posts, RequestPasswordReset(c), GuestAssumption
  PROVE  GuestInv'
<1> DEFINE e == post[c].address
<1>1. /\ UNCHANGED <<account, page, redirects>> /\ post[c].op = "forgot" /\ e \in Addresses
      /\ post[c].link = Nobody /\ link \in [Links -> LinkRecords] /\ Replies(c, "ok")
  BY DEF RequestPasswordReset, At, GuestInv, PostsFit, PostFits, StoresFit
<1>2. /\ link' \in [Links -> LinkRecords] /\ Keeps(link, link')
      /\ \A l \in Links : /\ LinkFits(link'[l])
                          /\ link[l].for # "none" => link'[l] = link[l]
                          /\ link'[l] = link[l] \/ (link'[l].of = e /\ account[e] # Unknown)
  <2>1. CASE account[e].is = "verified"
    <3>1. Mails("reset", e) /\ account[e] # Unknown
      BY <2>1 DEF RequestPasswordReset, Unknown
    <3> HIDE DEF e
    <3> QED BY <1>1, <3>1, MailFits
  <2>2. CASE account[e].is # "verified"
    BY <1>1, <2>2 DEF RequestPasswordReset, Keeps, GuestInv, StoresFit
  <2> QED BY <2>1, <2>2
<1>3. Stays(account, account') /\ "ok" \in Phases
  BY <1>1 DEF Stays, Phases
<1>4. /\ post' \in [Posts -> PostRecords] /\ post'[c].op = post[c].op
      /\ post'[c].address = e /\ post'[c].password = post[c].password
      /\ post'[c].link = post[c].link /\ post'[c].phase = "ok" /\ post'[c].heard = post[c].heard
      /\ \A d \in Posts : d # c => post'[d] = post[d]
      /\ (PostFits(post'[c], account', link') => PostsFit')
  BY <1>1, <1>2, <1>3, ReplyFits
<1>5. PostsFit'
  BY <1>1, <1>4 DEF PostFits
<1>6. StoresFit'
  BY <1>1, <1>2 DEF StoresFit, GuestInv
<1>7. HeardFit'
  BY <1>1, <1>2, <1>4, LinksInUse DEF HeardFit, HeardFits, GuestInv, PostsFit, PostFits
<1>8. PageFit'
  BY <1>1, <1>2, LinksInUse DEF PageFit, PageFits, Said, GuestInv
<1>9. SureFits(page', link', post')
  <2>1. page.sure => ~ post[c].heard
    BY <1>1 DEF GuestInv, SureFits, HeardFit, HeardFits
  <2>2. \A d \in Posts : post'[d].link = post[d].link /\ post'[d].heard = post[d].heard
    BY <1>4
  <2> QED BY <1>1, <1>2, <1>4, <2>1, <2>2, LinksInUse DEF SureFits, GuestInv
<1> QED BY <1>5, <1>6, <1>7, <1>8, <1>9 DEF GuestInv

LEMMA GuestLookUp ==
  ASSUME GuestInv, NEW c \in Posts, LookUp(c), GuestAssumption
  PROVE  GuestInv'
<1> DEFINE l == post[c].link
           ph == IF link[l].good THEN "found" ELSE "refused"
<1>1. /\ UNCHANGED <<account, link, page, redirects>> /\ post[c].op \in {"verify", "reset"}
      /\ post[c].phase = "sent" /\ Replies(c, ph)
  BY DEF LookUp
<1>2. Stays(account, account') /\ Keeps(link, link') /\ ph \in Phases
  BY <1>1 DEF Stays, Keeps, Phases
<1>3. ph \in {"found", "refused"} /\ (ph = "refused" => ~ link[l].good)
  OBVIOUS
<1>4. PostFits(post[c], account, link)
  BY DEF GuestInv, PostsFit
<1> HIDE DEF ph
<1>5. /\ post' \in [Posts -> PostRecords] /\ post'[c].op = post[c].op
      /\ post'[c].address = post[c].address /\ post'[c].password = post[c].password
      /\ post'[c].link = l /\ post'[c].phase = ph /\ post'[c].heard = post[c].heard
      /\ \A d \in Posts : d # c => post'[d] = post[d]
      /\ (PostFits(post'[c], account', link') => PostsFit')
  BY <1>1, <1>2, ReplyFits
<1>6. PostsFit'
  BY <1>1, <1>3, <1>4, <1>5 DEF PostFits
<1>7. StoresFit' /\ PageFit'
  BY <1>1 DEF StoresFit, PageFit, GuestInv
<1>8. HeardFit'
  BY <1>1, <1>3, <1>5 DEF HeardFit, HeardFits, GuestInv
<1>9. SureFits(page', link', post')
  <2> SUFFICES ASSUME page.sure PROVE SureFits(page, link, post')
    BY <1>1 DEF SureFits
  <2>1. /\ page.link # Nobody /\ page.says # "failed"
        /\ \A d \in Posts : post[d].link # Nobody /\ link[post[d].link].of = link[page.link].of =>
             post[d].heard
        /\ \A d \in Posts : post[d].heard => post[d].phase # "refused"
        /\ page.says # "done" =>
             link[page.link].good \/ \E d \in Posts : post[d].heard /\ post[d].phase \in {"found", "ok"}
    BY DEF GuestInv, SureFits
  <2>2. \A d \in Posts : post'[d].link = post[d].link /\ post'[d].heard = post[d].heard
    BY <1>5
  <2>3. CASE post[c].heard
    <3>1. page.says = "nothing" /\ l = page.link /\ \A d \in Posts : post[d].heard => d = c
      BY <2>3 DEF GuestInv, HeardFit, HeardFits
    <3>2. link[l].good
      BY <1>1, <2>1, <3>1
    <3>3. ph = "found"
      BY <1>3, <3>2
    <3> QED BY <1>5, <2>1, <2>2, <3>1, <3>2, <3>3 DEF SureFits
  <2>4. CASE ~ post[c].heard
    BY <1>5, <2>1, <2>2, <2>4 DEF SureFits
  <2> QED BY <2>3, <2>4
<1> QED BY <1>6, <1>7, <1>8, <1>9 DEF GuestInv

\* A link that is no longer good.
LEMMA LinkOff ==
  ASSUME GuestInv, NEW l \in Links, link' = [link EXCEPT ![l].good = FALSE]
  PROVE  /\ link' \in [Links -> LinkRecords] /\ Keeps(link, link') /\ ~ link'[l].good
         /\ \A k \in Links : /\ LinkFits(link'[k]) /\ link'[k].for = link[k].for /\ link'[k].of = link[k].of
                             /\ k # l => link'[k] = link[k]
<1>1. link \in [Links -> LinkRecords]
  BY DEF GuestInv, StoresFit
<1>2. /\ link'[l] = [link[l] EXCEPT !.good = FALSE]
      /\ \A k \in Links : k # l => link'[k] = link[k]
  BY <1>1
<1>3. link'[l] \in LinkRecords /\ link'[l].for = link[l].for /\ link'[l].of = link[l].of /\ ~ link'[l].good
  <2> DEFINE a == link[l]
             b == link'[l]
  <2>1. a \in LinkRecords /\ b = [a EXCEPT !.good = FALSE]
    BY <1>1, <1>2
  <2> HIDE DEF a, b
  <2>2. b \in LinkRecords /\ b.for = a.for /\ b.of = a.of /\ ~ b.good
    BY <2>1 DEF LinkRecords
  <2> QED BY <2>2 DEF a, b
<1>4. link' \in [Links -> LinkRecords]
  BY <1>1, <1>2, <1>3
<1>5. LinkFits(link'[l])
  <2>1. LinkFits(link[l])
    BY DEF GuestInv, StoresFit
  <2>2. CASE link[l].for = "none"
    <3>1. link[l] = NoLink
      BY <2>1, <2>2 DEF LinkFits
    <3>2. link'[l] = [NoLink EXCEPT !.good = FALSE]
      BY <1>2, <3>1
    <3>3. link'[l] = NoLink
      BY <3>2 DEF NoLink
    <3> QED BY <3>3 DEF LinkFits, NoLink
  <2>3. CASE link[l].for # "none"
    BY <1>3, <2>1, <2>3 DEF LinkFits
  <2> QED BY <2>2, <2>3
<1> QED BY <1>2, <1>3, <1>4, <1>5 DEF Keeps, GuestInv, StoresFit

\* A link that is used: its own call is heard, or the page has another link or is not sure.
LEMMA UsedLink ==
  ASSUME GuestInv, NEW c \in Posts, post[c].op \in {"verify", "reset"}, GuestAssumption,
         NEW l, l = post[c].link, link' = [link EXCEPT ![l].good = FALSE], Replies(c, "ok"),
         page'.sure = page.sure, page'.link = page.link, page'.says = page.says,
         \A d \in Posts : d # c => post'[d] = post[d],
         post'[c].link = l, post'[c].phase = "ok", post'[c].heard = post[c].heard
  PROVE  /\ link' \in [Links -> LinkRecords] /\ Keeps(link, link')
         /\ \A k \in Links : /\ LinkFits(link'[k]) /\ link'[k].for = link[k].for /\ link'[k].of = link[k].of
                             /\ k # l => link'[k] = link[k]
         /\ l \in Links /\ link[l].for = post[c].op
         /\ SureFits(page', link', post')
<1>1. l \in Links /\ link[l].for = post[c].op
  BY DEF GuestInv, PostsFit, PostFits
<1>2. /\ link' \in [Links -> LinkRecords] /\ Keeps(link, link')
      /\ \A k \in Links : /\ LinkFits(link'[k]) /\ link'[k].for = link[k].for /\ link'[k].of = link[k].of
                          /\ k # l => link'[k] = link[k]
  BY <1>1, LinkOff
<1>6. SureFits(page', link', post')
  <2> SUFFICES ASSUME page.sure PROVE SureFits(page', link', post')
    BY DEF SureFits
  <2>1. /\ page.link # Nobody /\ page.says # "failed"
        /\ \A d \in Posts : post[d].link # Nobody /\ link[post[d].link].of = link[page.link].of =>
             post[d].heard
        /\ \A d \in Posts : post[d].heard => post[d].phase # "refused"
        /\ page.says # "done" =>
             link[page.link].good \/ \E d \in Posts : post[d].heard /\ post[d].phase \in {"found", "ok"}
    BY DEF GuestInv, SureFits
  <2>2. \A d \in Posts : post'[d].link = post[d].link /\ post'[d].heard = post[d].heard
    OBVIOUS
  <2>3. \A d \in Posts : post[d].link # Nobody => post[d].link \in Links
    BY LinksInUse
  <2>4. page.link \in Links /\ l # Nobody
    BY <1>1, <2>1, LinksInUse
  <2>5. \A d \in Posts : post'[d].link # Nobody /\ link'[post'[d].link].of = link'[page'.link].of =>
             post'[d].heard
    BY <1>2, <2>1, <2>2, <2>3, <2>4
  <2>6. \A d \in Posts : post'[d].heard => post'[d].phase # "refused"
    BY <2>1, <2>2
  <2>7. page.says # "done" =>
          link'[page.link].good \/ \E d \in Posts : post'[d].heard /\ post'[d].phase \in {"found", "ok"}
    <3>1. CASE post[c].heard
      BY <3>1
    <3>2. CASE ~ post[c].heard
      <4>1. link[l].of # link[page.link].of
        BY <2>1, <2>4, <3>2
      <4> QED BY <1>2, <2>1, <2>4, <3>2, <4>1
    <3> QED BY <3>1, <3>2
  <2> QED BY <2>1, <2>5, <2>6, <2>7 DEF SureFits
<1> QED BY <1>1, <1>2, <1>6

LEMMA GuestVerifies ==
  ASSUME GuestInv, NEW c \in Posts, VerifyEmail(c), GuestAssumption
  PROVE  GuestInv'
<1> DEFINE l == post[c].link
           e == link[l].of
<1>1. /\ UNCHANGED <<page, redirects>> /\ post[c].op = "verify" /\ Replies(c, "ok")
      /\ account' = [account EXCEPT ![e].is = "verified"] /\ link' = [link EXCEPT ![l].good = FALSE]
      /\ account \in [Addresses -> AccountRecords] /\ l \in Links /\ link[l].for = "verify"
      /\ e \in Addresses
  BY DEF VerifyEmail, At, Of, GuestInv, StoresFit, PostsFit, PostFits, LinkFits
<1>2. /\ account' \in [Addresses -> AccountRecords] /\ account'[e].is = "verified"
      /\ account'[e].pw = account[e].pw /\ \A d \in Addresses : d # e => account'[d] = account[d]
  <2>1. /\ account[e] \in AccountRecords /\ account'[e] = [account[e] EXCEPT !.is = "verified"]
        /\ \A d \in Addresses : d # e => account'[d] = account[d]
    BY <1>1
  <2> DEFINE a == account[e]
             b == account'[e]
  <2> HIDE DEF e
  <2>2. a \in AccountRecords /\ b = [a EXCEPT !.is = "verified"]
    BY <2>1
  <2> HIDE DEF a, b
  <2>3. b \in AccountRecords /\ b.is = "verified" /\ b.pw = a.pw
    BY <2>2 DEF AccountRecords
  <2>4. account'[e] \in AccountRecords /\ account'[e].is = "verified" /\ account'[e].pw = account[e].pw
    BY <2>3 DEF a, b
  <2>5. account' \in [Addresses -> AccountRecords]
    BY <1>1, <2>1, <2>4
  <2> QED BY <2>1, <2>4, <2>5
<1>3. \A d \in Addresses : account[d] # Unknown => account'[d] # Unknown
  BY <1>2 DEF Unknown
<1>4. Stays(account, account')
  BY <1>2, <1>3 DEF Stays
<1>5. Keeps(link, link')
  <2> HIDE DEF l
  <2> QED BY <1>1, LinkOff
<1>6. /\ post' \in [Posts -> PostRecords] /\ post'[c].op = post[c].op
      /\ post'[c].link = l /\ post'[c].phase = "ok" /\ post'[c].heard = post[c].heard
      /\ \A d \in Posts : d # c => post'[d] = post[d]
      /\ (PostFits(post'[c], account', link') => PostsFit')
  <2>1. "ok" \in Phases
    BY DEF Phases
  <2> QED BY <1>1, <1>4, <1>5, <2>1, ReplyFits
<1> HIDE DEF l
<1>7. /\ link' \in [Links -> LinkRecords] /\ Keeps(link, link')
      /\ \A k \in Links : /\ LinkFits(link'[k]) /\ link'[k].for = link[k].for /\ link'[k].of = link[k].of
                          /\ k # l => link'[k] = link[k]
      /\ SureFits(page', link', post')
  BY <1>1, <1>6, UsedLink DEF l
<1>8. PostsFit'
  BY <1>1, <1>2, <1>6, <1>7 DEF PostFits, l
<1>9. StoresFit'
  BY <1>1, <1>2, <1>3, <1>7, LinksInUse DEF StoresFit, GuestInv
<1>10. \A d \in Addresses : account'[d].pw = account[d].pw
  BY <1>2
<1>11. HeardFit'
  <2>1. ASSUME NEW d \in Posts PROVE HeardFits(post'[d], page', account', link')
    <3>1. HeardFits(post[d], page, account, link)
      BY DEF GuestInv, HeardFit
    <3>2. CASE d = c
      BY <1>1, <1>6, <3>1, <3>2 DEF HeardFits, l
    <3>3. CASE d # c
      BY <1>1, <1>6, <1>7, <1>10, <3>1, <3>3, LinksInUse DEF HeardFits, GuestInv, PostsFit, PostFits
    <3> QED BY <3>2, <3>3
  <2> QED BY <1>6, <2>1 DEF HeardFit, GuestInv
<1>12. PageFit'
  <2>1. page \in PageRecords /\ PageFits(page, link) /\ Said(page, account, link)
    BY DEF GuestInv, PageFit
  <2>2. PageFits(page, link')
    BY <1>7, <2>1, LinksInUse DEF PageFits
  <2>3. Said(page, account', link')
    BY <1>3, <1>4, <1>7, <1>10, <2>1, LinksInUse DEF Said, Stays, PageFits
  <2> QED BY <1>1, <2>1, <2>2, <2>3 DEF PageFit
<1> QED BY <1>7, <1>8, <1>9, <1>11, <1>12 DEF GuestInv

\* A link that a successful call leaves as it is.
LEMMA LinkLeft ==
  ASSUME GuestInv, NEW c \in Posts, link' = link,
         page'.sure = page.sure, page'.link = page.link, page'.says = page.says,
         \A d \in Posts : d # c => post'[d] = post[d],
         post'[c].link = post[c].link, post'[c].phase = "ok", post'[c].heard = post[c].heard
  PROVE  /\ link' \in [Links -> LinkRecords] /\ Keeps(link, link')
         /\ \A k \in Links : LinkFits(link'[k])
         /\ SureFits(page', link', post')
<1>1. link' \in [Links -> LinkRecords] /\ Keeps(link, link') /\ \A k \in Links : LinkFits(link'[k])
  BY DEF GuestInv, StoresFit, Keeps
<1>2. SureFits(page, link, post)
  BY DEF GuestInv
<1>3. \A d \in Posts : /\ post'[d].link = post[d].link /\ post'[d].heard = post[d].heard
                         /\ post'[d].phase \in {post[d].phase, "ok"}
  OBVIOUS
<1>4. SureFits(page', link', post')
  BY <1>2, <1>3 DEF SureFits
<1> QED
  BY <1>1, <1>4

LEMMA GuestResets ==
  ASSUME GuestInv, NEW c \in Posts, ResetPassword(c), GuestAssumption
  PROVE  GuestInv'
<1> DEFINE l == post[c].link
           e == link[l].of
           p == post[c].password
           ch == page.changed \/ (page.link # Nobody /\ link[page.link].of = e /\ ~ post[c].heard)
<1>1. /\ UNCHANGED redirects /\ post[c].op = "reset" /\ Replies(c, "ok")
      /\ account' = [account EXCEPT ![e].pw = p] /\ link' \in {link, [link EXCEPT ![l].good = FALSE]}
      /\ page' = [page EXCEPT !.changed = ch]
      /\ account \in [Addresses -> AccountRecords] /\ l \in Links /\ link[l].for = "reset"
      /\ e \in Addresses /\ p \in Passwords
  BY DEF ResetPassword, At, Of, Concerns, GuestInv, StoresFit, PostsFit, PostFits, LinkFits
<1>2. /\ account' \in [Addresses -> AccountRecords] /\ account'[e].is = account[e].is
      /\ account'[e].pw = p /\ \A d \in Addresses : d # e => account'[d] = account[d]
  <2>1. /\ account[e] \in AccountRecords /\ account'[e] = [account[e] EXCEPT !.pw = p]
        /\ \A d \in Addresses : d # e => account'[d] = account[d]
    BY <1>1
  <2> DEFINE a == account[e]
             b == account'[e]
  <2> HIDE DEF e
  <2>2. a \in AccountRecords /\ b = [a EXCEPT !.pw = p] /\ p \in Passwords
    BY <1>1, <2>1
  <2> HIDE DEF a, b, p
  <2>3. b \in AccountRecords /\ b.is = a.is /\ b.pw = p
    BY <2>2 DEF AccountRecords
  <2>4. account'[e] \in AccountRecords /\ account'[e].is = account[e].is /\ account'[e].pw = p
    BY <2>3 DEF a, b
  <2>5. account' \in [Addresses -> AccountRecords]
    BY <1>1, <2>1, <2>4
  <2> QED BY <2>1, <2>4, <2>5
<1>3. \A d \in Addresses : account[d] # Unknown => account'[d] # Unknown
  BY <1>1, <1>2, LinksInUse DEF Unknown
<1>4. Stays(account, account')
  BY <1>2, <1>3 DEF Stays
<1>5. Keeps(link, link')
  <2> HIDE DEF l
  <2>1. CASE link' = link
    BY <2>1 DEF Keeps
  <2>2. CASE link' = [link EXCEPT ![l].good = FALSE]
    BY <1>1, <2>2, LinkOff
  <2> QED BY <1>1, <2>1, <2>2
<1>6. /\ post' \in [Posts -> PostRecords] /\ post'[c].op = post[c].op
      /\ post'[c].link = l /\ post'[c].phase = "ok" /\ post'[c].heard = post[c].heard
      /\ post'[c].password = p
      /\ \A d \in Posts : d # c => post'[d] = post[d]
      /\ (PostFits(post'[c], account', link') => PostsFit')
  <2>1. "ok" \in Phases
    BY DEF Phases
  <2> QED BY <1>1, <1>4, <1>5, <2>1, ReplyFits
<1>7. /\ page \in PageRecords /\ page' \in PageRecords
      /\ page'.route = page.route /\ page'.link = page.link /\ page'.loading = page.loading
      /\ page'.says = page.says /\ page'.asked = page.asked /\ page'.edited = page.edited
      /\ page'.entries = page.entries /\ page'.sure = page.sure /\ (page'.changed <=> ch)
  <2>1. page \in PageRecords /\ ch \in BOOLEAN
    BY DEF GuestInv, PageFit, PageRecords
  <2> HIDE DEF ch
  <2> QED BY <1>1, <2>1 DEF PageRecords
<1> HIDE DEF l
<1>8. /\ link' \in [Links -> LinkRecords] /\ Keeps(link, link')
      /\ \A k \in Links : /\ LinkFits(link'[k]) /\ link'[k].for = link[k].for /\ link'[k].of = link[k].of
                          /\ k # l => link'[k] = link[k]
      /\ SureFits(page', link', post')
  <2>1. CASE link' = link
    BY <1>1, <1>6, <1>7, <2>1, LinkLeft DEF l
  <2>2. CASE link' = [link EXCEPT ![l].good = FALSE]
    BY <1>1, <1>6, <1>7, <2>2, UsedLink DEF l
  <2> QED BY <1>1, <2>1, <2>2 DEF l
<1>9. PostsFit'
  BY <1>1, <1>2, <1>6, <1>8 DEF PostFits, l
<1>10. StoresFit'
  BY <1>1, <1>2, <1>3, <1>8, LinksInUse DEF StoresFit, GuestInv
<1>11. HeardFit'
  <2>1. ASSUME NEW d \in Posts PROVE HeardFits(post'[d], page', account', link')
    <3> SUFFICES ASSUME post[d].heard PROVE HeardFits(post'[d], page', account', link')
      BY <1>6 DEF HeardFits
    <3>1. HeardFits(post[d], page, account, link)
      BY DEF GuestInv, HeardFit
    <3>2. CASE d = c
      <4>1. /\ post[c].op = page.route /\ l = page.link /\ page.loading /\ page.says = "nothing"
            /\ ~ page.edited => p = page.entries.password
        BY <1>1, <3>1, <3>2 DEF HeardFits, l
      <4> QED BY <1>1, <1>2, <1>6, <1>7, <1>8, <3>2, <4>1 DEF HeardFits
    <3>3. CASE d # c
      <4>1. post'[d] = post[d] /\ ~ post[c].heard
        BY <1>6, <3>3 DEF GuestInv, HeardFit
      <4>2. ASSUME post[d].op = "reset", post[d].phase = "ok", ~ page'.changed
            PROVE  account'[link'[post[d].link].of].pw = post[d].password
        <5>1. /\ post[d].link \in Links /\ post[d].link = page.link /\ page.link # Nobody
              /\ link[page.link].of \in Addresses
          BY <3>1, <4>2, LinksInUse DEF HeardFits, GuestInv, PostsFit, PostFits
        <5>2. ~ page.changed /\ link[page.link].of # e
          BY <1>7, <4>1, <4>2, <5>1
        <5>3. account[link[post[d].link].of].pw = post[d].password
          BY <3>1, <4>2, <5>2 DEF HeardFits
        <5> QED BY <1>2, <1>8, <5>1, <5>2, <5>3
      <4> QED BY <1>7, <3>1, <4>1, <4>2 DEF HeardFits
    <3> QED BY <3>2, <3>3
  <2> QED BY <1>6, <2>1 DEF HeardFit, GuestInv
<1>12. PageFit'
  <2>1. page \in PageRecords /\ PageFits(page, link) /\ Said(page, account, link)
    BY DEF GuestInv, PageFit
  <2>2. PageFits(page', link')
    BY <1>7, <1>8, <2>1, LinksInUse DEF PageFits
  <2>3. ASSUME page.route = "register", page.says \in {"done", "taken"}, ~ page.edited
        PROVE  account'[page.entries.address] # Unknown
    BY <1>3, <2>1, <2>3 DEF Said, PageFits
  <2>4. ASSUME page.route = "verify", page.says = "done"
        PROVE  account'[link'[page.link].of].is = "verified"
    BY <1>4, <1>8, <2>1, <2>4, LinksInUse DEF Said, Stays
  <2>5. ASSUME page.route = "reset", page.says = "done", ~ page.edited, ~ page'.changed
        PROVE  account'[link'[page.link].of].pw = page.entries.password
    <3>1. page.link # Nobody /\ page.link \in Links /\ link[page.link].of \in Addresses
      BY <2>5, LinksInUse
    <3>2. ~ post[c].heard
      BY <2>5 DEF GuestInv, HeardFit, HeardFits
    <3>3. ~ page.changed /\ link[page.link].of # e
      BY <1>7, <2>5, <3>1, <3>2
    <3>4. account[link[page.link].of].pw = page.entries.password
      BY <2>1, <2>5, <3>3 DEF Said
    <3> QED BY <1>2, <1>8, <3>1, <3>3, <3>4
  <2>6. Said(page', account', link')
    BY <1>7, <2>3, <2>4, <2>5 DEF Said
  <2> QED BY <1>7, <2>2, <2>6 DEF PageFit
<1> QED BY <1>8, <1>9, <1>10, <1>11, <1>12 DEF GuestInv

\* A page that differs in its history alone, over stores that take nothing back.
LEMMA HistorySet ==
  ASSUME GuestInv, NEW s \in BOOLEAN, NEW ch \in BOOLEAN,
         page' = [page EXCEPT !.sure = s, !.changed = ch]
  PROVE  /\ page \in PageRecords /\ page' \in PageRecords
         /\ page'.route = page.route /\ page'.link = page.link /\ page'.loading = page.loading
         /\ page'.says = page.says /\ page'.asked = page.asked /\ page'.edited = page.edited
         /\ page'.entries = page.entries /\ page'.sure = s /\ page'.changed = ch
<1>1. page \in PageRecords
  BY DEF GuestInv, PageFit
<1> QED BY <1>1 DEF PageRecords

LEMMA GuestExpires ==
  ASSUME GuestInv, NEW l \in Links, Expires(l), GuestAssumption
  PROVE  GuestInv'
<1> DEFINE s == page.sure /\ page.link # l
<1>1. /\ UNCHANGED <<account, post, redirects>> /\ link' = [link EXCEPT ![l].good = FALSE]
      /\ page' = [page EXCEPT !.sure = s] /\ page \in PageRecords
  BY DEF Expires, GuestInv, PageFit
<1>2. /\ page' \in PageRecords
      /\ page'.route = page.route /\ page'.link = page.link /\ page'.loading = page.loading
      /\ page'.says = page.says /\ page'.asked = page.asked /\ page'.edited = page.edited
      /\ page'.entries = page.entries /\ page'.changed = page.changed /\ (page'.sure <=> s)
  <2>1. s \in BOOLEAN
    BY <1>1 DEF PageRecords
  <2> HIDE DEF s
  <2> QED BY <1>1, <2>1 DEF PageRecords
<1>3. /\ link' \in [Links -> LinkRecords] /\ Keeps(link, link')
      /\ \A k \in Links : /\ LinkFits(link'[k]) /\ link'[k].for = link[k].for /\ link'[k].of = link[k].of
                          /\ k # l => link'[k] = link[k]
  BY <1>1, LinkOff
<1>4. StoresFit'
  BY <1>1, <1>3 DEF StoresFit, GuestInv
<1>5. PostsFit'
  BY <1>1, <1>3 DEF PostsFit, GuestInv, PostFits
<1>6. HeardFit'
  BY <1>1, <1>2, <1>3 DEF HeardFit, HeardFits, GuestInv, PostsFit, PostFits
<1>7. PageFit'
  BY <1>1, <1>2, <1>3, LinksInUse DEF PageFit, PageFits, Said, GuestInv
<1>8. SureFits(page', link', post')
  <2>1. \A d \in Posts : post[d].link # Nobody => post[d].link \in Links
    BY LinksInUse
  <2>2. page.link # Nobody => page.link \in Links
    BY LinksInUse
  <2> QED BY <1>1, <1>2, <1>3, <2>1, <2>2 DEF SureFits, GuestInv
<1> QED BY <1>4, <1>5, <1>6, <1>7, <1>8 DEF GuestInv

LEMMA GuestElsewhere ==
  ASSUME GuestInv, NEW e \in Addresses, NEW p \in Passwords, Elsewhere(e, p), GuestAssumption
  PROVE  GuestInv'
<1>1. /\ UNCHANGED <<post, redirects>> /\ account \in [Addresses -> AccountRecords]
      /\ link \in [Links -> LinkRecords] /\ page \in PageRecords
      /\ \A l \in Links : LinkFits(link[l])
      /\ \E is \in {"new", "verified"} :
           /\ account' = [account EXCEPT ![e] = [is |-> is, pw |-> p]]
           /\ is = "new" => account[e] = Unknown
  BY DEF Elsewhere, GuestInv, StoresFit, PageFit
<1>2. /\ account' \in [Addresses -> AccountRecords] /\ account'[e] # Unknown
      /\ \A d \in Addresses : d # e => account'[d] = account[d]
      /\ account[e] # Unknown => account'[e].is = "verified"
  <2>1. PICK is \in {"new", "verified"} :
           /\ account' = [account EXCEPT ![e] = [is |-> is, pw |-> p]]
           /\ is = "new" => account[e] = Unknown
    BY <1>1
  <2> DEFINE b == [is |-> is, pw |-> p]
  <2>2. b \in AccountRecords /\ b # Unknown /\ b.is = is
    BY GuestAssumption DEF AccountRecords, Unknown, GuestAssumption
  <2>3. account'[e] = b /\ \A d \in Addresses : d # e => account'[d] = account[d]
    BY <1>1, <2>1
  <2> HIDE DEF b
  <2>4. account' \in [Addresses -> AccountRecords]
    BY <1>1, <2>1, <2>2, <2>3
  <2> QED BY <2>1, <2>2, <2>3, <2>4
<1>3. Stays(account, account')
  <2>1. account[e].is = "verified" => account[e] # Unknown
    BY DEF Unknown
  <2> QED BY <1>2, <2>1 DEF Stays
<1>4. /\ link' \in [Links -> LinkRecords] /\ Keeps(link, link')
      /\ \A l \in Links : /\ LinkFits(link'[l])
                          /\ link[l].for # "none" => link'[l].for = link[l].for /\ link'[l].of = link[l].of
                          /\ link'[l] = link[l] \/ link'[l].of = e
  <2>1. CASE Mails("verify", e)
    BY <2>1, MailFits
  <2>2. CASE UNCHANGED link
    BY <1>1, <2>2 DEF Keeps
  <2>3. CASE link' = [l \in Links |-> [link[l] EXCEPT !.good = @ /\ Of(l) # e]]
    <3>1. ASSUME NEW l \in Links
          PROVE  /\ link'[l] \in LinkRecords /\ link'[l].for = link[l].for /\ link'[l].of = link[l].of
                 /\ link[l].of # e => link'[l] = link[l]
      <4> DEFINE a == link[l]
                 b == link'[l]
                 g == link[l].good /\ link[l].of # e
      <4>1. b = [a EXCEPT !.good = g] /\ a \in LinkRecords /\ g \in BOOLEAN
        BY <1>1, <2>3 DEF Of, LinkRecords
      <4>2. link[l].of # e => g = a.good
        BY <1>1 DEF LinkRecords
      <4> HIDE DEF a, b, g
      <4>3. b \in LinkRecords /\ b.for = a.for /\ b.of = a.of /\ (g = a.good => b = a)
        BY <4>1 DEF LinkRecords
      <4> QED BY <4>2, <4>3 DEF a, b
    <3>2. ASSUME NEW l \in Links PROVE LinkFits(link'[l])
      <4>1. LinkFits(link[l])
        BY <1>1
      <4>2. CASE link[l].for = "none"
        <5>1. link[l] = NoLink
          BY <4>1, <4>2 DEF LinkFits
        <5>2. link[l].of # e
          BY <5>1, GuestAssumption DEF NoLink, GuestAssumption
        <5> QED BY <3>1, <4>1, <5>2
      <4>3. CASE link[l].for # "none"
        BY <3>1, <4>1, <4>3 DEF LinkFits
      <4> QED BY <4>2, <4>3
    <3>3. link' \in [Links -> LinkRecords]
      BY <2>3, <3>1
    <3> QED BY <3>1, <3>2, <3>3 DEF Keeps
  <2> QED BY <2>1, <2>2, <2>3 DEF Elsewhere
<1>5. /\ page' \in PageRecords
      /\ page'.route = page.route /\ page'.link = page.link /\ page'.loading = page.loading
      /\ page'.says = page.says /\ page'.asked = page.asked /\ page'.edited = page.edited
      /\ page'.entries = page.entries
      /\ page'.sure => page.sure
      /\ page.changed => page'.changed
      /\ account[e] # Unknown /\ page.link # Nobody /\ link[page.link].of = e => page'.changed /\ ~ page'.sure
  <2>1. CASE UNCHANGED page /\ account[e] = Unknown
    BY <1>1, <2>1
  <2>2. CASE page' = [page EXCEPT !.sure = @ /\ ~ Concerns(e), !.changed = @ \/ Concerns(e)]
    <3> DEFINE s == page.sure /\ ~ Concerns(e)
               ch == page.changed \/ Concerns(e)
    <3>1. s \in BOOLEAN /\ ch \in BOOLEAN /\ page' = [page EXCEPT !.sure = s, !.changed = ch]
      BY <1>1, <2>2 DEF PageRecords, Concerns
    <3> HIDE DEF s, ch
    <3>2. /\ page' \in PageRecords
          /\ page'.route = page.route /\ page'.link = page.link /\ page'.loading = page.loading
          /\ page'.says = page.says /\ page'.asked = page.asked /\ page'.edited = page.edited
          /\ page'.entries = page.entries /\ page'.sure = s /\ page'.changed = ch
      BY <3>1, HistorySet
    <3> QED BY <3>2 DEF s, ch, Concerns, Of
  <2> QED BY <2>1, <2>2 DEF Elsewhere
<1>6. \A l \in Links : link[l].for # "none" => account[link[l].of] # Unknown /\ link[l].of \in Addresses
  BY LinksInUse
<1>7. StoresFit'
  <2>1. \A d \in Addresses : account[d] # Unknown => account'[d] # Unknown
    BY <1>3 DEF Stays
  <2>2. ASSUME NEW l \in Links, link'[l].for # "none" PROVE account'[link'[l].of] # Unknown
    BY <1>2, <1>4, <1>6, <2>1, <2>2
  <2> QED BY <1>1, <1>2, <1>4, <2>2 DEF StoresFit, GuestInv
<1>8. PostsFit'
  <2> SUFFICES ASSUME NEW d \in Posts PROVE PostFits(post[d], account', link')
    BY <1>1 DEF PostsFit, GuestInv
  <2>1. PostFits(post[d], account, link)
    BY DEF PostsFit, GuestInv
  <2> DEFINE acc2 == account'
             lk2 == link'
  <2>2. Stays(account, acc2) /\ Keeps(link, lk2)
    BY <1>3, <1>4
  <2> HIDE DEF acc2, lk2
  <2>3. PostFits(post[d], acc2, lk2)
    BY <1>1, <2>1, <2>2, PostStays
  <2> QED BY <2>3 DEF acc2, lk2
<1>9. HeardFit'
  <2>1. ASSUME NEW d \in Posts PROVE HeardFits(post[d], page', account', link')
    <3> SUFFICES ASSUME post[d].heard PROVE HeardFits(post[d], page', account', link')
      BY DEF HeardFits
    <3>1. HeardFits(post[d], page, account, link)
      BY DEF GuestInv, HeardFit
    <3>2. ASSUME post[d].op = "reset", post[d].phase = "ok", ~ page'.changed
          PROVE  account'[link'[post[d].link].of].pw = post[d].password
      <4>1. /\ post[d].link \in Links /\ post[d].link = page.link /\ page.link # Nobody
            /\ link[page.link].of \in Addresses /\ account[link[page.link].of] # Unknown
            /\ link'[page.link].of = link[page.link].of
        BY <1>4, <3>1, <3>2, LinksInUse DEF HeardFits, GuestInv, PostsFit, PostFits
      <4>2. ~ page.changed /\ link[page.link].of # e
        BY <1>5, <3>2, <4>1
      <4>3. account[link[post[d].link].of].pw = post[d].password
        BY <3>1, <3>2, <4>2 DEF HeardFits
      <4> QED BY <1>2, <4>1, <4>2, <4>3
    <3> QED BY <1>5, <3>1, <3>2 DEF HeardFits
  <2> QED BY <1>1, <2>1 DEF HeardFit, GuestInv
<1>10. PageFit'
  <2>1. page \in PageRecords /\ PageFits(page, link) /\ Said(page, account, link)
    BY DEF GuestInv, PageFit
  <2>2. PageFits(page', link')
    BY <1>4, <1>5, <2>1, LinksInUse DEF PageFits
  <2>3. ASSUME page.route = "register", page.says \in {"done", "taken"}, ~ page.edited
        PROVE  account'[page.entries.address] # Unknown
    BY <1>3, <2>1, <2>3 DEF Said, PageFits, Stays
  <2>4. ASSUME page.route = "verify", page.says = "done"
        PROVE  account'[link'[page.link].of].is = "verified"
    BY <1>3, <1>4, <2>1, <2>4, LinksInUse DEF Said, Stays
  <2>5. ASSUME page.route = "reset", page.says = "done", ~ page.edited, ~ page'.changed
        PROVE  account'[link'[page.link].of].pw = page.entries.password
    <3>1. /\ page.link # Nobody /\ page.link \in Links /\ link[page.link].of \in Addresses
          /\ account[link[page.link].of] # Unknown /\ link'[page.link].of = link[page.link].of
      BY <1>4, <2>5, LinksInUse
    <3>2. ~ page.changed /\ link[page.link].of # e
      BY <1>5, <2>5, <3>1
    <3>3. account[link[page.link].of].pw = page.entries.password
      BY <2>1, <2>5, <3>2 DEF Said
    <3> QED BY <1>2, <3>1, <3>2, <3>3
  <2>6. Said(page', account', link')
    BY <1>5, <2>3, <2>4, <2>5 DEF Said
  <2> QED BY <1>5, <2>2, <2>6 DEF PageFit
<1>11. SureFits(page', link', post')
  <2> SUFFICES ASSUME page'.sure PROVE SureFits(page', link', post')
    BY DEF SureFits
  <2>1. /\ page.link # Nobody /\ page.says # "failed"
        /\ \A d \in Posts : post[d].link # Nobody /\ link[post[d].link].of = link[page.link].of =>
             post[d].heard
        /\ \A d \in Posts : post[d].heard => post[d].phase # "refused"
        /\ page.says # "done" =>
             link[page.link].good \/ \E d \in Posts : post[d].heard /\ post[d].phase \in {"found", "ok"}
    BY <1>5 DEF GuestInv, SureFits
  <2>2. \A d \in Posts : post[d].link # Nobody => post[d].link \in Links /\ link[post[d].link].for # "none"
    BY LinksInUse
  <2>3. /\ page.link \in Links /\ link[page.link].for # "none" /\ account[link[page.link].of] # Unknown
    BY <2>1, LinksInUse
  <2>4. link'[page.link].of # e
    BY <1>4, <1>5, <2>1, <2>3
  <2>5. link'[page.link] = link[page.link]
    BY <1>4, <2>3, <2>4
  <2> QED BY <1>1, <1>4, <1>5, <2>1, <2>2, <2>3, <2>5 DEF SureFits
<1> QED BY <1>7, <1>8, <1>9, <1>10, <1>11 DEF GuestInv

\* A call that starts: no other is heard.
LEMMA SendFits ==
  ASSUME GuestInv, NEW c \in Posts, NEW op \in {"register", "forgot", "verify", "reset"},
         NEW l \in Links \cup {Nobody}, UNCHANGED <<account, link, redirects>>,
         Sends(c, op, l), GuestAssumption,
         page' \in PageRecords, op = page'.route, l = page'.link, page'.loading, page'.says = "nothing",
         page'.entries = page.entries, page'.route = page.route, page'.link = page.link,
         page'.sure = page.sure, page.says # "done", op = "verify" => page'.asked,
         \A d \in Posts : ~ post[d].heard,
         op \in {"verify", "reset"} => l # Nobody,
         \A field \in Inputs(op) : page.entries[field] # Nobody
  PROVE  GuestInv'
<1> DEFINE a == [op |-> op, address |-> Sent(op, "address"), password |-> Sent(op, "password"),
                 link |-> l, phase |-> "sent", heard |-> TRUE]
<1>1. /\ post \in [Posts -> PostRecords] /\ page \in PageRecords
      /\ post' = [post EXCEPT ![c] = a] /\ post[c] = NoPost
  BY DEF Sends, GuestInv, PostsFit, PageFit
<1>2. /\ page.entries.address \in Addresses \cup {Nobody}
      /\ page.entries.password \in Passwords \cup {Nobody}
      /\ page.entries["address"] = page.entries.address
      /\ page.entries["password"] = page.entries.password
  BY <1>1 DEF PageRecords
<1>3. /\ Sent(op, "address") = IF op \in {"register", "forgot"} THEN page.entries.address ELSE Nobody
      /\ Sent(op, "password") = IF op \in {"register", "reset"} THEN page.entries.password ELSE Nobody
      /\ op \in {"register", "forgot"} => page.entries.address \in Addresses
      /\ op \in {"register", "reset"} => page.entries.password \in Passwords
  BY <1>2 DEF Sent, Inputs
<1>4. l # Nobody => l \in Links /\ link[l].for = op /\ op \in {"verify", "reset"}
  <2>1. PageFits(page, link) /\ link \in [Links -> LinkRecords]
    BY DEF GuestInv, PageFit, StoresFit
  <2> QED BY <2>1 DEF PageFits, LinkRecords
<1>5. /\ a.op = op /\ a.link = l /\ a.phase = "sent" /\ a.heard = TRUE
      /\ a.address = Sent(op, "address") /\ a.password = Sent(op, "password")
  OBVIOUS
<1>6. a \in PostRecords
  BY <1>2, <1>3 DEF PostRecords, Phases, Routes
<1> HIDE DEF a
<1>7. /\ post' \in [Posts -> PostRecords] /\ post'[c] = a
      /\ \A d \in Posts : d # c => post'[d] = post[d]
  BY <1>1, <1>6
<1>8. PostFits(a, account, link)
  BY <1>3, <1>4, <1>5 DEF PostFits
<1>9. PostsFit'
  BY <1>7, <1>8 DEF PostsFit, GuestInv
<1>10. HeardFits(a, page', account, link)
  BY <1>3, <1>5 DEF HeardFits
<1>11. HeardFit'
  BY <1>7, <1>10 DEF HeardFit, HeardFits
<1>12. StoresFit'
  BY DEF StoresFit, GuestInv
<1>13. PageFit'
  BY DEF PageFit, PageFits, Said, GuestInv
<1>14. SureFits(page', link', post')
  <2>1. page.sure => page.link # Nobody /\ page.says # "failed" /\ link[page.link].good
    BY DEF SureFits, GuestInv
  <2> QED BY <1>5, <1>7, <2>1 DEF SureFits, GuestInv
<1> QED BY <1>9, <1>11, <1>12, <1>13, <1>14 DEF GuestInv

LEMMA GuestSubmits ==
  ASSUME GuestInv, NEW c \in Posts, SubmitForm(c), GuestAssumption
  PROVE  GuestInv'
<1>1. /\ page \in PageRecords /\ page.route \in {"register", "forgot", "reset"} /\ page.says # "done"
      /\ page.route = "reset" => page.link # Nobody
      /\ ~ page.loading /\ \A field \in Inputs(page.route) : page.entries[field] # Nobody
      /\ UNCHANGED <<account, link, redirects>> /\ page.link \in Links \cup {Nobody}
  BY DEF SubmitForm, HasForm, GuestInv, PageFit, PageRecords
<1>2. \A d \in Posts : ~ post[d].heard
  BY <1>1 DEF GuestInv, HeardFit, HeardFits
<1>3. CASE Submitted("check") /\ UNCHANGED post
  <2>1. /\ page' \in PageRecords /\ page'.route = page.route /\ page'.link = page.link
        /\ page'.says = "check" /\ page'.sure = page.sure
    BY <1>1, <1>3 DEF Submitted, PageRecords
  <2>2. PageFit'
    BY <1>1, <2>1 DEF GuestInv, PageFit, PageFits, Said
  <2>3. SureFits(page', link', post')
    BY <1>1, <1>3, <2>1 DEF GuestInv, SureFits
  <2>4. StoresFit' /\ PostsFit' /\ HeardFit'
    BY <1>1, <1>2, <1>3 DEF GuestInv, StoresFit, PostsFit, HeardFit, HeardFits
  <2> QED BY <2>2, <2>3, <2>4 DEF GuestInv
<1>4. CASE Submitted("nothing") /\ Sends(c, page.route, page.link)
  <2>1. /\ page' \in PageRecords /\ page'.route = page.route /\ page'.link = page.link
        /\ page'.says = "nothing" /\ page'.loading = TRUE /\ page'.sure = page.sure
        /\ page'.entries = page.entries
    BY <1>1, <1>4 DEF Submitted, PageRecords
  <2> DEFINE op == page.route
             l == page.link
  <2>2. /\ op \in {"register", "forgot", "verify", "reset"} /\ l \in Links \cup {Nobody}
        /\ Sends(c, op, l) /\ op = page'.route /\ l = page'.link
        /\ op = "verify" => page'.asked
        /\ op \in {"verify", "reset"} => l # Nobody
        /\ \A field \in Inputs(op) : page.entries[field] # Nobody
    BY <1>1, <1>4, <2>1
  <2> HIDE DEF op, l
  <2> QED BY <1>1, <1>2, <2>1, <2>2, SendFits
<1> QED BY <1>3, <1>4 DEF SubmitForm

LEMMA GuestVerifyEffect ==
  ASSUME GuestInv, NEW c \in Posts, VerifyEffect(c), GuestAssumption
  PROVE  GuestInv'
<1>1. /\ page \in PageRecords /\ page.route = "verify" /\ page.link # Nobody /\ ~ page.asked
      /\ UNCHANGED <<account, link, redirects>> /\ page.link \in Links \cup {Nobody}
      /\ page' = [page EXCEPT !.asked = TRUE] /\ Sends(c, "verify", page.link)
      /\ page.loading /\ page.says = "nothing"
  BY DEF VerifyEffect, GuestInv, PageFit, PageFits, PageRecords
<1>2. \A d \in Posts : ~ post[d].heard
  BY <1>1 DEF GuestInv, HeardFit, HeardFits
<1>3. /\ page' \in PageRecords /\ page'.route = "verify" /\ page'.link = page.link /\ page'.loading
      /\ page'.says = "nothing" /\ page'.entries = page.entries /\ page'.sure = page.sure /\ page'.asked
  BY <1>1 DEF PageRecords
<1> DEFINE op == "verify"
           l == page.link
<1>4. /\ op \in {"register", "forgot", "verify", "reset"} /\ l \in Links \cup {Nobody}
      /\ Sends(c, op, l) /\ op = page'.route /\ l = page'.link
      /\ op \in {"verify", "reset"} => l # Nobody
      /\ \A field \in Inputs(op) : page.entries[field] # Nobody
  BY <1>1, <1>3 DEF Inputs
<1>5. op = page.route
  BY <1>1
<1> HIDE DEF op, l
<1> QED BY <1>1, <1>2, <1>3, <1>4, <1>5, SendFits

LEMMA GuestDeliver ==
  ASSUME GuestInv, NEW c \in Posts, Deliver(c), GuestAssumption
  PROVE  GuestInv'
<1>1. /\ UNCHANGED <<account, link>> /\ page \in PageRecords /\ post \in [Posts -> PostRecords]
      /\ page' = [page EXCEPT !.says = Says(c), !.loading = FALSE]
      /\ post' = [post EXCEPT ![c] = NoPost] /\ redirects' \in Nat
      /\ post[c].heard /\ post[c].phase \in {"ok", "taken", "refused"}
  BY DEF Deliver, GuestInv, PageFit, PostsFit, StoresFit
<1>2. /\ Says(c) \in {"done", "taken", "failed"}
      /\ Says(c) = "failed" => post[c].phase = "refused"
      /\ Says(c) = "done" => post[c].phase = "ok"
      /\ Says(c) = "taken" => post[c].phase = "taken"
  BY <1>1 DEF Says
<1>3. /\ page' \in PageRecords /\ page'.route = page.route /\ page'.link = page.link
      /\ page'.says = Says(c) /\ page'.asked = page.asked /\ page'.edited = page.edited
      /\ page'.entries = page.entries /\ page'.sure = page.sure /\ page'.changed = page.changed
  BY <1>1, <1>2 DEF PageRecords
<1>4. /\ post' \in [Posts -> PostRecords] /\ post'[c] = NoPost
      /\ \A d \in Posts : d # c => post'[d] = post[d] /\ ~ post'[d].heard
  BY <1>1, NoPostFits DEF GuestInv, HeardFit
<1>5. PostsFit'
  BY <1>1, <1>4, NoPostFits DEF GuestInv, PostsFit
<1>6. HeardFit'
  BY <1>4, NoPostFits DEF HeardFit, HeardFits
<1>7. StoresFit'
  BY <1>1 DEF GuestInv, StoresFit
<1>8. HeardFits(post[c], page, account, link) /\ PostFits(post[c], account, link)
  BY DEF GuestInv, HeardFit, PostsFit
<1>9. PageFit'
  <2>1. PageFits(page', link)
    <3>1. PageFits(page, link)
      BY DEF GuestInv, PageFit
    <3>2. page.route \in {"verify", "reset"} => page.link # Nobody
      BY <1>1, <1>8 DEF HeardFits, PostFits, GuestAssumption
    <3>3. page.route = "verify" => page.asked
      BY <1>1, <1>8 DEF HeardFits
    <3>4. page.route = "register" /\ ~ page.edited => page.entries.address \in Addresses
      BY <1>1, <1>8 DEF HeardFits, PostFits
    <3> QED BY <1>3, <3>1, <3>2, <3>3, <3>4 DEF PageFits
  <2>2. Said(page', account, link)
    BY <1>1, <1>2, <1>3, <1>8 DEF Said, HeardFits, PostFits
  <2> QED BY <1>1, <1>3, <2>1, <2>2 DEF PageFit
<1>10. SureFits(page', link', post')
  <2> SUFFICES ASSUME page.sure PROVE SureFits(page', link', post')
    BY <1>3 DEF SureFits
  <2>1. /\ page.link # Nobody
        /\ \A d \in Posts : post[d].link # Nobody /\ link[post[d].link].of = link[page.link].of =>
             post[d].heard
        /\ post[c].phase # "refused"
    BY <1>1 DEF GuestInv, SureFits
  <2>2. post[c].phase # "taken"
    BY <1>1, <1>8, <2>1 DEF HeardFits, PostFits, PostRecords, Routes
  <2>3. Says(c) = "done"
    BY <1>2, <2>1, <2>2
  <2>4. \A d \in Posts : post'[d].link = Nobody \/ (d # c /\ post'[d] = post[d] /\ ~ post[d].heard)
    BY <1>4, NoPostFits
  <2>5. \A d \in Posts : ~ post'[d].heard
    BY <1>4, NoPostFits
  <2> QED BY <1>1, <1>3, <2>1, <2>3, <2>4, <2>5 DEF SureFits
<1> QED BY <1>5, <1>6, <1>7, <1>9, <1>10 DEF GuestInv

LEMMA GuestStarts ==
  ASSUME GuestInit, GuestAssumption
  PROVE  GuestInv
<1>1. /\ account \in [Addresses -> AccountRecords] /\ link \in [Links -> LinkRecords] /\ redirects \in Nat
      /\ post \in [Posts -> PostRecords]
      /\ \A l \in Links : LinkFits(link[l]) /\ link[l].for = "none"
      /\ \A c \in Posts : post[c] = NoPost
  BY NoPostFits DEF GuestInit, AccountRecords, LinkRecords, LinkFits, NoLink, Unknown
<1>2. "login" \in Routes
  BY DEF Routes
<1>3. page \in PageRecords /\ PageFits(page, link) /\ Said(page, account, link) /\ page.sure = FALSE
  BY <1>2, OpenedFits DEF GuestInit
<1>4. StoresFit /\ PageFit /\ SureFits(page, link, post)
  BY <1>1, <1>3 DEF StoresFit, PageFit, SureFits
<1>5. PostsFit
  <2>1. PostFits(NoPost, account, link)
    BY NoPostFits
  <2> QED BY <1>1, <2>1 DEF PostsFit
<1>6. HeardFit
  BY <1>1, NoPostFits DEF HeardFit, HeardFits
<1> QED BY <1>4, <1>5, <1>6 DEF GuestInv

\* The invariant of the guests' pages.
LEMMA GuestHolds == GuestSpec => []GuestInv
<1>1. GuestInit => GuestInv
  BY GuestStarts, GuestAssumption
<1>2. GuestInv /\ [GuestNext]_guestVars => GuestInv'
  <2> SUFFICES ASSUME GuestInv, [GuestNext]_guestVars PROVE GuestInv'
    OBVIOUS
  <2>1. ASSUME NEW route \in Routes, NEW l \in Links \cup {Nobody}, Open(route, l) PROVE GuestInv'
    BY <2>1, GuestOpen
  <2>2. CASE Redirect
    BY <2>2, GuestRedirect
  <2>3. ASSUME NEW field \in {"address", "password", "confirm"}, NEW v \in Addresses \cup Passwords,
               EditInput(field, v)
        PROVE  GuestInv'
    BY <2>3, GuestEdit
  <2>4. ASSUME NEW c \in Posts,
               SubmitForm(c) \/ VerifyEffect(c) \/ Deliver(c) \/ Lost(c) \/ Ends(c)
        PROVE  GuestInv'
    BY <2>4, GuestAssumption, GuestSubmits, GuestVerifyEffect, GuestDeliver, GuestLost, GuestEnds
  <2>5. ASSUME NEW c \in Posts,
               Register(c) \/ RequestPasswordReset(c) \/ LookUp(c) \/ VerifyEmail(c) \/ ResetPassword(c)
        PROVE  GuestInv'
    BY <2>5, GuestAssumption, GuestRegister, GuestForgot, GuestLookUp, GuestVerifies, GuestResets
  <2>6. ASSUME NEW l \in Links, Expires(l) PROVE GuestInv'
    BY <2>6, GuestAssumption, GuestExpires
  <2>7. ASSUME NEW e \in Addresses, NEW p \in Passwords \ Short, Elsewhere(e, p) PROVE GuestInv'
    BY <2>7, GuestAssumption, GuestElsewhere
  <2>8. CASE UNCHANGED guestVars
    BY <2>8 DEF guestVars, GuestInv, StoresFit, PostsFit, HeardFit, PageFit
  <2> QED BY <2>1, <2>2, <2>3, <2>4, <2>5, <2>6, <2>7, <2>8 DEF GuestNext
<1> QED BY <1>1, <1>2, PTL DEF GuestSpec

\* Type correctness of the accounts, the links, the page and its calls.
THEOREM GuestTypeCorrect == GuestSpec => []GuestTypeOK
<1>1. GuestInv => GuestTypeOK
  BY DEF GuestInv, StoresFit, PostsFit, PageFit, GuestTypeOK, AccountRecords, LinkRecords, PageRecords,
         PostRecords, Phases
<1> QED BY <1>1, GuestHolds, PTL

(* What a page for guests says has been done is so in the store, for any number of pages left   *)
(* with their calls under way, answers lost and other devices at work on the same accounts.    *)
THEOREM SaidIsSo == GuestSpec => []WhatIsSaidIsSo
<1>1. GuestInv => WhatIsSaidIsSo
  BY DEF GuestInv, PageFit, Said, WhatIsSaidIsSo, Of
<1> QED BY <1>1, GuestHolds, PTL

(* A link that is good when its page opens, and that only this page has to do with, is not     *)
(* refused.                                                                                   *)
THEOREM LinksWork == GuestSpec => []GoodLinksWork
<1>1. GuestInv => GoodLinksWork
  BY DEF GuestInv, SureFits, GoodLinksWork
<1> QED BY <1>1, GuestHolds, PTL

(* The pages for guests say what is so, and their links work.                                 *)
THEOREM GuestPagesTell == GuestSpec => []GuestPagesAreTrue
<1>1. WhatIsSaidIsSo /\ GoodLinksWork => GuestPagesAreTrue
  BY DEF GuestPagesAreTrue
<1> QED BY <1>1, SaidIsSo, LinksWork, PTL
=============================================================================
