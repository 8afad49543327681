--------------------------- MODULE SymbolSearches ---------------------------
(***************************************************************************)
(* Three ways to look for a symbol: a box that offers symbols for the text *)
(* typed into it (in the navbar, or in a form), the market browser with    *)
(* its tabs, search and pages, and the screener with its filters.  Each    *)
(* asks a question of portfolio-api through a query that keeps the answer  *)
(* of every question; answers come in any order.                           *)
(***************************************************************************)
EXTENDS Integers, FiniteSets

CONSTANTS
  Texts,     \* what may be typed, the empty text included
  Empty,
  Offers,    \* how many symbols portfolio-api may offer for a text, at most 8
  Markets, DefaultMarkets, \* the tabs, and what the default may be
  Pages,     \* how many pages the assets of a market that match a text may make
  Filters, NoFilters

SearchAssumption ==
  /\ NoFilters \in Filters
  /\ Empty \in Texts /\ Offers \in [Texts -> SUBSET (0..8)] /\ DefaultMarkets \subseteq Markets
  /\ Pages \in [Markets \X Texts -> SUBSET Nat]
ASSUME SearchAssumption

VARIABLES
  box,      \* the text, the one asked about, whether 250 ms passed, the list and its highlight
  browser,  \* tab, search, page, the rows kept for the screen, default tab, whether a tab was chosen
  screener, \* filters in the form and filters applied
  answers   \* per question: not asked, under way, failed or answered, and the rows that came last

searchVars == <<box, browser, screener, answers>>

PageNumbers == {1} \cup UNION {1..n : n \in UNION {Pages[k] : k \in Markets \X Texts}}
TextQuestions == {<<"search", t, 1>> : t \in Texts \ {Empty}}
AssetQuestions == (Markets \X Texts) \X PageNumbers
Questions == TextQuestions \cup {<<"screener", f, 1>> : f \in Filters} \cup AssetQuestions

\* An answer has the rows of its question, and how many symbols or pages there were when it was
\* made: the lists behind expire and give way to short stand-ins.
Counts(q) ==
  IF q \in TextQuestions THEN Offers[q[2]] ELSE IF q \in AssetQuestions THEN Pages[q[1]] ELSE {1}
RowsOf(q) == [of : {q}, count : Counts(q)]
NoRows == [of |-> <<>>, count |-> 0]
Unasked == [is |-> "unasked", rows |-> NoRows]
Waiting == [is |-> "waiting", rows |-> NoRows]
Failed == [is |-> "failed", rows |-> NoRows]

\* A question that was never answered, or whose query failed, is asked when it is shown.
Asked(q) ==
  answers' = IF q \in Questions /\ answers[q] \in {Unasked, Failed} THEN [answers EXCEPT ![q] = Waiting] ELSE answers
AskedRows(q) == IF q \in Questions THEN answers[q].rows ELSE NoRows

SearchInit ==
  /\ box \in [text : {Empty}, asked : {Empty}, rested : {TRUE}, open : {FALSE}, active : {-1}, at : {"navbar", "form"}]
  /\ \E m \in DefaultMarkets :
       /\ browser = [tab |-> m, find |-> Empty, page |-> 1, rows |-> NoRows, default |-> m, chosen |-> FALSE]
       /\ answers = [q \in Questions |-> IF q = <<<<m, Empty>>, 1>> THEN Waiting ELSE Unasked]
  /\ screener = [form |-> NoFilters, applied |-> NoFilters]

-----------------------------------------------------------------------------
(* The box. *)

BoxQuestion == <<"search", box.asked, 1>>
Results == AskedRows(BoxQuestion).count
ShowDropdown == box.open /\ Results > 0

Type(t) ==
  /\ t # box.text
  /\ box' = [box EXCEPT !.text = t, !.rested = FALSE, !.open = TRUE, !.active = -1]
  /\ UNCHANGED <<browser, screener, answers>>
DebounceEnds ==
  /\ ~ box.rested /\ box' = [box EXCEPT !.rested = TRUE, !.asked = box.text]
  /\ Asked(<<"search", box.text, 1>>)
  /\ UNCHANGED <<browser, screener>>
ArrowDown ==
  /\ box' = [box EXCEPT !.open = TRUE, !.active = IF Results = 0 THEN @ ELSE IF @ + 1 < Results THEN @ + 1 ELSE Results - 1]
  /\ UNCHANGED <<browser, screener, answers>>
ArrowUp ==
  /\ box' = [box EXCEPT !.active = IF @ = -1 THEN @ ELSE @ - 1]
  /\ UNCHANGED <<browser, screener, answers>>
Closed(text) == [box EXCEPT !.text = text, !.rested = (text = box.text /\ box.rested), !.open = FALSE, !.active = -1]
\* The navbar goes to the symbol and empties its box; a form takes the symbol as its text.
Pick(i) ==
  /\ i < Results
  /\ \E t \in IF box.at = "navbar" THEN {Empty} ELSE Texts \ {Empty} : box' = Closed(t)
  /\ UNCHANGED <<browser, screener, answers>>
PickWithMouse == ShowDropdown /\ \E i \in 0..(Results - 1) : Pick(i)
Enter ==
  \/ (box.at = "navbar" \/ box.open) /\ box.active >= 0 /\ Pick(box.active)
  \/ /\ box.at = "navbar" /\ ~ (box.active >= 0 /\ box.active < Results) /\ box.text # Empty
     /\ box' = Closed(Empty)
     /\ UNCHANGED <<browser, screener, answers>>
Close ==
  /\ box.open
  /\ \/ box' = [box EXCEPT !.open = FALSE, !.active = -1]
     \/ box' = [box EXCEPT !.open = FALSE]   \* a click elsewhere
  /\ UNCHANGED <<browser, screener, answers>>

-----------------------------------------------------------------------------
(* The market browser.  Until the rows of a question come, those of the last stay. *)

AssetsQuestion(b) == <<<<b.tab, b.find>>, b.page>>
\* Nothing but the failure is shown of a question that failed.
TotalPages == IF answers[AssetsQuestion(browser)].is = "failed" THEN 0 ELSE browser.rows.count
Turned(b) ==
  /\ Asked(AssetsQuestion(b))
  /\ browser' = IF answers[AssetsQuestion(b)].rows = NoRows THEN b
                ELSE [b EXCEPT !.rows = answers[AssetsQuestion(b)].rows]
  /\ UNCHANGED <<box, screener>>

TabChange(m) ==
  /\ m # browser.tab
  /\ Turned([browser EXCEPT !.tab = m, !.find = Empty, !.page = 1, !.chosen = TRUE])
FindText(t) == Turned([browser EXCEPT !.find = t, !.page = 1])
NextPage == browser.page < TotalPages /\ Turned([browser EXCEPT !.page = @ + 1])
PrevPage == browser.page > 1 /\ TotalPages > 1 /\ Turned([browser EXCEPT !.page = @ - 1])
\* The default is the profile's, which arrives late and goes with the session.
DefaultChanges(m) ==
  /\ m # browser.default
  /\ Turned([browser EXCEPT !.default = m, !.tab = IF browser.chosen THEN @ ELSE m])

-----------------------------------------------------------------------------
(* The screener. *)

SetFilters(f) == /\ screener' = [screener EXCEPT !.form = f] /\ UNCHANGED <<box, browser, answers>>
ScreenFor(f) ==
  /\ screener' = [form |-> f, applied |-> f] /\ Asked(<<"screener", f, 1>>)
  /\ UNCHANGED <<box, browser>>
ApplyFilters == ScreenFor(screener.form)
ResetFilters == ScreenFor(NoFilters)

-----------------------------------------------------------------------------
(* Answers. *)

AnswerToTheShown(q, rows) ==
  [answers EXCEPT ![IF {q, BoxQuestion} \subseteq TextQuestions THEN BoxQuestion ELSE q] = [is |-> "answered", rows |-> rows]]
Answer(q, rows) == [answers EXCEPT ![q] = [is |-> "answered", rows |-> rows]]
\* A question is asked again once its answer is stale, after 1 or 5 minutes; the rows it has
\* stay until the next come.
Shown == {BoxQuestion, AssetsQuestion(browser), <<"screener", screener.applied, 1>>}
Coming(q) == answers[q].is \in {"waiting", "answered"} \/ (answers[q].is = "failed" /\ q \in Shown)
Answered(q) ==
  /\ Coming(q)
  /\ \E rows \in RowsOf(q) :
       /\ answers' = Answer(q, rows)
       /\ browser' = IF q = AssetsQuestion(browser) THEN [browser EXCEPT !.rows = rows] ELSE browser
  /\ UNCHANGED <<box, screener>>
Fails(q) ==
  /\ Coming(q) /\ answers' = [answers EXCEPT ![q].is = "failed"]
  /\ UNCHANGED <<box, browser, screener>>
\* A question is forgotten 5 minutes after it was shown last.
Forget(q) ==
  /\ answers[q].is \in {"answered", "failed"} /\ q \notin Shown /\ answers' = [answers EXCEPT ![q] = Unasked]
  /\ UNCHANGED <<box, browser, screener>>

BoxNext == (\E t \in Texts : Type(t)) \/ DebounceEnds \/ ArrowDown \/ ArrowUp \/ PickWithMouse \/ Enter \/ Close
BrowserNext ==
  \/ (\E m \in Markets : TabChange(m)) \/ (\E m \in DefaultMarkets : DefaultChanges(m))
  \/ (\E t \in Texts : FindText(t)) \/ NextPage \/ PrevPage
ScreenerNext == (\E f \in Filters : SetFilters(f)) \/ ApplyFilters \/ ResetFilters
AnswersNext == \E q \in Questions : Answered(q) \/ Fails(q) \/ Forget(q)
SearchNext == BoxNext \/ BrowserNext \/ ScreenerNext \/ AnswersNext
SearchSpec == SearchInit /\ [][SearchNext]_searchVars

-----------------------------------------------------------------------------
\* Type correctness of the box, the browser, the screener and the answers they keep.
SearchTypeOK ==
  /\ box \in [text : Texts, asked : Texts, rested : BOOLEAN, open : BOOLEAN, active : -1..7, at : {"navbar", "form"}]
  /\ browser \in [tab : Markets, find : Texts, page : PageNumbers,
                  rows : (UNION {RowsOf(q) : q \in AssetQuestions}) \cup {NoRows},
                  default : DefaultMarkets, chosen : BOOLEAN]
  /\ screener \in [form : Filters, applied : Filters]
  /\ answers \in [Questions -> [is : {"unasked", "waiting", "failed", "answered"},
                                 rows : (UNION {RowsOf(q) : q \in Questions}) \cup {NoRows}]]

(* In whatever order answers come, the symbols a box offers are those of the text in it *)
(* once its user has stopped typing for 250 ms, so that Enter or a click picks none     *)
(* that was offered for another text.                                                   *)
OffersMatchText == box.rested /\ ShowDropdown => AskedRows(BoxQuestion).of = <<"search", box.text, 1>>

(* Rows of another tab, text or page stand in for those of the question asked now only  *)
(* until its own have come: from then on the market browser keeps these, and counts its *)
(* pages by the last answer to that question, whatever comes late about another one.    *)
RowsAreTheAsked ==
  LET came == AskedRows(AssetsQuestion(browser)) IN came # NoRows => browser.rows = came

(* Both are of the question that is asked now, whatever order answers come in.          *)
SearchesAreTrue == OffersMatchText /\ RowsAreTheAsked
=============================================================================
