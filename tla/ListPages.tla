----------------------------- MODULE ListPages -----------------------------
(***************************************************************************)
(* The watchlists or the portfolios of a user: the collection in           *)
(* portfolio-service, the query that a page keeps of it, and the writes    *)
(* that pages send.  A write that succeeds invalidates the query; one      *)
(* whose answer is lost does not.  The query lives in the tab: it outlives *)
(* the page that started it, and so does a write.                          *)
(***************************************************************************)
EXTENDS FiniteSets

CONSTANTS
  Lists,    \* identifiers of watchlists or of portfolios
  Shares,   \* symbols that may be on one
  Writes,   \* writes under way at once
  NoList,
  NotLoaded

VARIABLES
  kind,   \* "watchlists" or "portfolios"
  lists,  \* the collection: the symbols of each list
  query,  \* what the tab has of it
  view,   \* what shows it: "page", "button" (AddToWatchlistButton on other pages) or "none"
  modal,  \* the portfolio that the page's "Add Stock" dialog is open for
  write,
  behind  \* history: the collection changed in a way the tab was not told of

listVars == <<kind, lists, query, view, modal, write, behind>>

Contents == [Lists -> (SUBSET Shares) \cup {NoList}]
ASSUME ListAssumption ==
  /\ Lists # {} /\ Shares # {}
  /\ NoList \notin Lists /\ \A s \in SUBSET Shares : s # NoList
  /\ \A c \in Contents : c # NotLoaded
Unfetched == [data |-> NotLoaded, age |-> "fresh", invalid |-> FALSE, failed |-> FALSE,
              fetch |-> "idle", got |-> NotLoaded]
NoWrite == [op |-> "none", list |-> CHOOSE l \in Lists : TRUE, sym |-> CHOOSE s \in Shares : TRUE,
            status |-> "sent", here |-> FALSE]

ListInit ==
  /\ kind \in {"watchlists", "portfolios"}
  /\ lists \in Contents /\ query = Unfetched /\ view = "none" /\ modal = NoList
  /\ write = [w \in Writes |-> NoWrite] /\ behind = FALSE

-----------------------------------------------------------------------------
(* The query (TanStack Query, as the pages configure it). *)

\* A page reads again what is 5 s old, the button what is 30 s old.
NeedsFetch(v) ==
  \/ query.data = NotLoaded \/ query.invalid
  \/ (v = "page" /\ query.age # "fresh") \/ (v = "button" /\ query.age = "old")
Fetching(q) == [q EXCEPT !.fetch = "sent", !.got = NotLoaded]
Views == IF kind = "watchlists" THEN {"page", "button"} ELSE {"page"}
Show(v) ==
  /\ view = "none" /\ view' = v
  /\ query' = IF query.fetch = "idle" /\ NeedsFetch(v) THEN Fetching(query) ELSE query
  /\ UNCHANGED <<kind, lists, modal, write, behind>>
\* What a page knows of the writes it sent goes with it.
Leave ==
  /\ view # "none" /\ view' = "none" /\ modal' = NoList
  /\ write' = [w \in Writes |-> [write[w] EXCEPT !.here = FALSE]]
  /\ UNCHANGED <<kind, lists, query, behind>>
Refocus ==
  /\ view # "none" /\ query.fetch = "idle" /\ NeedsFetch(view)
  /\ query' = Fetching(query)
  /\ UNCHANGED <<kind, lists, view, modal, write, behind>>
Age ==
  /\ query.data # NotLoaded /\ query.age # "old"
  /\ query' = [query EXCEPT !.age = IF @ = "fresh" THEN "5 s" ELSE "old"]
  /\ UNCHANGED <<kind, lists, view, modal, write, behind>>
\* After 5 minutes that nothing shows it.
Collect ==
  /\ view = "none" /\ query.fetch = "idle" /\ query # Unfetched /\ query' = Unfetched
  /\ UNCHANGED <<kind, lists, view, modal, write, behind>>

FindAll ==
  /\ query.fetch = "sent" /\ query' = [query EXCEPT !.fetch = "served", !.got = lists]
  /\ behind' = FALSE
  /\ UNCHANGED <<kind, lists, view, modal, write>>
\* A failed fetch is retried, then given up; what was loaded is kept.
FetchFails ==
  /\ query.fetch # "idle"
  /\ query' \in {Fetching(query), [query EXCEPT !.fetch = "idle", !.got = NotLoaded, !.failed = TRUE]}
  /\ UNCHANGED <<kind, lists, view, modal, write, behind>>
Loaded ==
  /\ query.fetch = "served"
  /\ query' = [Unfetched EXCEPT !.data = query.got]
  /\ UNCHANGED <<kind, lists, view, modal, write, behind>>

\* invalidateQueries starts a shown query again, except one that has never been answered;
\* one that nothing shows is only marked, and an answer under way removes the mark.
Restarts == view # "none" /\ (query.fetch = "idle" \/ query.data # NotLoaded)
InvalidateJoins ==
  query' = IF view # "none" /\ query.fetch = "idle" THEN Fetching(query) ELSE [query EXCEPT !.invalid = TRUE]
Invalidate ==
  query' = LET marked == [query EXCEPT !.invalid = TRUE] IN IF Restarts THEN Fetching(marked) ELSE marked

-----------------------------------------------------------------------------
(* What the pages offer. *)

\* The writes whose progress the page's form or dialog heeds.
Heeded(op) == op = "create" \/ (op = "add" /\ kind = "portfolios")
Under(op) == \E w \in Writes : write[w].op = op /\ write[w].here
Kept(l) == query.data # NotLoaded /\ query.data[l] # NoList
Listed(l) == ~ query.failed /\ Kept(l)

WatchlistPage(op, l) == op = "create" /\ ~ Under("create")
WatchlistCard(op, l, s) ==
  /\ Listed(l)
  /\ op \in {"delete", "add"} \/ (op = "remove" /\ s \in query.data[l])
\* The button ignores that the last read failed.
AddToWatchlistButton(op, l) == op = "add" /\ Kept(l)
PortfolioPage(op, l) == op = "create" /\ ~ Under("create")
PortfolioTable(op, l) == op = "delete" /\ Listed(l)
\* The dialog stays when its portfolio is gone from the page, or the page fails to read.
AddStockModal(op, l) == op = "add" /\ modal = l
OnAddStock(l) ==
  /\ kind = "portfolios" /\ view = "page" /\ modal = NoList /\ Listed(l) /\ modal' = l
  /\ UNCHANGED <<kind, lists, query, view, write, behind>>
OnClose ==
  /\ modal # NoList /\ modal' = NoList
  /\ UNCHANGED <<kind, lists, query, view, write, behind>>

Offered(op, l, s) ==
  \/ /\ kind = "watchlists"
     /\ \/ view = "page" /\ (WatchlistPage(op, l) \/ WatchlistCard(op, l, s))
        \/ view # "none" /\ AddToWatchlistButton(op, l)
  \/ /\ kind = "portfolios" /\ view = "page"
     /\ PortfolioPage(op, l) \/ PortfolioTable(op, l) \/ AddStockModal(op, l)

Submit(w, op, l, s) ==
  /\ write[w] = NoWrite /\ Offered(op, l, s)
  /\ op = "create" => lists[l] = NoList
  /\ write' = [write EXCEPT ![w] = [op |-> op, list |-> l, sym |-> s, status |-> "sent", here |-> Heeded(op)]]
  /\ UNCHANGED <<kind, lists, query, view, modal, behind>>

-----------------------------------------------------------------------------
(* The writes of portfolio-service (a list that is gone: 404), and what follows them. *)

CreateList(l) == [lists EXCEPT ![l] = {}]
DeleteList(l) == [lists EXCEPT ![l] = NoList]
AddSymbol(l, s) == [lists EXCEPT ![l] = @ \cup {s}]
RemoveSymbol(l, s) == [lists EXCEPT ![l] = @ \ {s}]
Written(a) ==
  CASE a.op = "create" -> CreateList(a.list)
    [] a.op = "delete" -> DeleteList(a.list)
    [] a.op = "add" -> AddSymbol(a.list, a.sym)
    [] a.op = "remove" -> RemoveSymbol(a.list, a.sym)

Serves(w) ==
  LET a == write[w]
      found == (a.op = "create") = (lists[a.list] = NoList)
  IN /\ a.op # "none" /\ a.status = "sent"
     /\ lists' = IF found THEN Written(a) ELSE lists
     /\ \E status \in {IF found THEN "ok" ELSE "error", "error"} :
          /\ write' = [write EXCEPT ![w].status = status]
          /\ behind' = (behind \/ (status = "error" /\ lists' # lists))
     /\ UNCHANGED <<kind, query, view, modal>>
NotServed(w) ==
  /\ write[w].op # "none" /\ write[w].status = "sent"
  /\ write' = [write EXCEPT ![w].status = "error"]
  /\ UNCHANGED <<kind, lists, query, view, modal, behind>>

Settled(w) ==
  LET a == write[w] IN
  /\ a.op # "none" /\ a.status # "sent"
  /\ write' = [write EXCEPT ![w] = NoWrite]
  /\ \/ /\ a.status = "ok" /\ Invalidate /\ behind' = (behind \/ (query.fetch # "idle" /\ ~ Restarts))
        /\ modal' = IF a.op = "add" /\ a.here THEN NoList ELSE modal
     \/ a.status = "error" /\ UNCHANGED <<query, modal, behind>>
  /\ UNCHANGED <<kind, lists, view>>

OtherDevice ==
  /\ lists' \in {[lists EXCEPT ![l] = c] : l \in Lists, c \in (SUBSET Shares) \cup {NoList}}
  /\ lists' # lists /\ behind' = TRUE
  /\ UNCHANGED <<kind, query, view, modal, write>>

ListNext ==
  \/ \E v \in Views : Show(v)
  \/ OnClose \/ \E l \in Lists : OnAddStock(l)
  \/ Leave \/ Refocus \/ Age \/ Collect \/ FindAll \/ FetchFails \/ Loaded \/ OtherDevice
  \/ \E w \in Writes :
       \/ Serves(w) \/ NotServed(w) \/ Settled(w)
       \/ \E op \in {"create", "delete", "add", "remove"}, l \in Lists, s \in Shares : Submit(w, op, l, s)

ListSpec == ListInit /\ [][ListNext]_listVars

-----------------------------------------------------------------------------
ListQueries == [data : Contents \cup {NotLoaded}, age : {"fresh", "5 s", "old"}, invalid : BOOLEAN,
                failed : BOOLEAN, fetch : {"idle", "sent", "served"}, got : Contents \cup {NotLoaded}]
WriteRecords == [op : {"none", "create", "delete", "add", "remove"}, list : Lists, sym : Shares,
                 status : {"sent", "ok", "error"}, here : BOOLEAN]

\* Type correctness of the collection, the query, what shows it and the writes under way.
ListTypeOK ==
  /\ kind \in {"watchlists", "portfolios"} /\ view \in {"none", "page", "button"} /\ behind \in BOOLEAN
  /\ lists \in Contents /\ modal \in Lists \cup {NoList}
  /\ query \in ListQueries /\ write \in [Writes -> WriteRecords]

(* What a page shows when nothing is under way contains every write of the tab that     *)
(* succeeded, however the writes and the reads they start overtook one another and      *)
(* whichever page was open meanwhile, unless the last read failed or the collection     *)
(* changed behind the tab: on another device, by a write whose answer was lost, or by   *)
(* one that succeeded while a read was under way that is not started again.             *)
OwnWritesAreShown ==
  view # "none" /\ query.fetch = "idle" /\ query.data # NotLoaded /\ ~ query.failed /\ ~ behind
    /\ (\A w \in Writes : write[w] = NoWrite) => query.data = lists
=============================================================================
