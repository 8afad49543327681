-------------------------- MODULE MCPortfolioPages --------------------------
(* portfolio-service and the pages in front of it for TLC.  A behaviour exercises one part: *)
(* the purchases of MCPortfolios with ticks of A, the pages of a list of one symbol with    *)
(* two writes under way, the box with two texts, the browser with two tabs and one search,  *)
(* the screener with two filters, the account page with its second factor, with its profile *)
(* form, or with its password form and dialog, the chart or the signals of MCCharts, or the *)
(* pages for guests of MCGuestForms.  The other parts stay as they start.                   *)
EXTENDS MCPortfolios, ListPages, SymbolSearches, AccountPage, MCCharts, MCGuestForms

VARIABLE mix
Mixes ==
  {"service", "lists", "box", "browser", "screener", "factor", "profile", "others"}
    \cup ChartMixes \cup SignalMixes \cup GuestMixes

CONSTANTS empty, t1, t2, us, uk, f1, f2

MCOffers == [t \in Texts |-> IF t = t1 THEN {1, 2} ELSE IF t = t2 THEN {1} ELSE {0}]
MCPages == [k \in Markets \X Texts |-> IF k = <<us, empty>> THEN {1, 2} ELSE IF k = <<uk, t1>> THEN {0, 2} ELSE {1}]

collectionVars == <<listVars, searchVars, accountVars>>
stockVars == <<chartVars, signalVars>>
mcVars == <<vars, collectionVars, stockVars, guestVars, mix>>

AccountMixes == {"factor", "profile", "others"}
FirstCall == CHOOSE c \in Calls : TRUE

\* The account page: what each mix does of it, and one change elsewhere per reading.
AccountWithin ==
  LET ops == {call[c].op : c \in Calls} IN
  CASE mix = "factor" -> /\ stored.entries = Blank /\ form.edited = {}
                         /\ open \in {"none", "profile"} /\ ops \cap {"save"} = {}
    [] mix = "profile" -> ~ stored.mfa /\ open \in {"none", "profile"} /\ ops \cap MFAOps = {}
    [] mix = "others" -> /\ stored.entries = Blank /\ form.edited = {} /\ ~ stored.mfa
                         /\ ops \cap (MFAOps \cup {"save"}) = {}

MCInit ==
  /\ Init /\ ListInit /\ SearchInit
  /\ AccountInit /\ ChartInit /\ SignalsInit /\ GuestInit /\ mix \in Mixes
  /\ mix # "service" => doc = [p \in Portfolios |-> Absent]
  /\ mix # "lists" => kind = "portfolios" /\ lists = [l \in Lists |-> NoList]
  /\ mix # "box" => box.at = "navbar"
  /\ mix # "browser" => browser.tab = us
  /\ mix # "factor" => ~ stored.mfa
  /\ mix # "profile" => stored.entries = Blank
  /\ mix \notin AccountMixes => \A c \in Calls : Does(c, "read") => c = FirstCall

\* The ticks are of the symbol that all three purchases buy.
TicksOfA == tick[B] = NoPrice

\* A page of lists: another device changes it once per read, and between the tab's writes; a
\* dialog is opened, and a read given up, while one more write may be sent.  Only the button
\* on other pages tells 30 s from 5 s.
SomeWriteFree == \E w \in Writes : write[w] = NoWrite
ListsWithin ==
  /\ behind /\ behind' => lists' = lists \/ write' # write
  /\ OtherDevice => view = "page" /\ \A w \in Writes : write[w] = NoWrite
  /\ modal' \in Lists \ {modal} \/ (query'.failed /\ ~ query.failed) => SomeWriteFree
  /\ kind = "portfolios" => query'.age # "old"

\* The browser has asked for two questions at once at most, and keeps no third answer.
FewAsked == Cardinality({q \in Questions : answers'[q] # Unasked}) <= 2

\* The steps of the service and of the pages over its collections, the searches and the account.
CollectionNext ==
  \/ mix = "service" /\ UNCHANGED collectionVars /\ Next /\ TicksOfA'
  \/ /\ mix = "lists" /\ UNCHANGED <<vars, searchVars, accountVars>>
     /\ ListNext /\ ListsWithin
  \/ mix = "box" /\ UNCHANGED <<vars, listVars, accountVars>> /\ (BoxNext \/ AnswersNext)
  \/ /\ mix = "browser" /\ UNCHANGED <<vars, listVars, accountVars>>
     /\ (BrowserNext \/ AnswersNext) /\ FewAsked /\ browser'.find # t2
  \/ mix = "screener" /\ UNCHANGED <<vars, listVars, accountVars>> /\ (ScreenerNext \/ AnswersNext)
  \/ /\ mix \in AccountMixes /\ UNCHANGED <<vars, listVars, searchVars>>
     /\ AccountNext /\ AccountWithin' /\ (doubt # {} => stored' = stored \/ call' # call)

StockNext ==
  \/ /\ mix \in ChartMixes /\ UNCHANGED signalVars
     /\ ChartNext /\ IF mix = "buttons" THEN Buttons' ELSE Feeds'
  \/ mix \in SignalMixes /\ UNCHANGED chartVars /\ SignalsNext /\ OneKind(mix)'

GuestPagesNext ==
  mix \in GuestMixes /\ GuestNext /\ InOrder /\ IF mix = "passwords" THEN OneAddress' ELSE TwoAddresses'

MCNext ==
  /\ UNCHANGED mix
  /\ \/ UNCHANGED <<stockVars, guestVars>> /\ CollectionNext
     \/ UNCHANGED <<vars, collectionVars, guestVars>> /\ StockNext
     \/ UNCHANGED <<vars, collectionVars, stockVars>> /\ GuestPagesNext

MCSpec == MCInit /\ [][MCNext]_mcVars
=============================================================================
