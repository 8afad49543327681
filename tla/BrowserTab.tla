----------------------------- MODULE BrowserTab -----------------------------
(***************************************************************************)
(* One tab of the browser: who AuthContext says is signed in, and the      *)
(* calls that its forms and pages have under way.  A call leaves with the  *)
(* cookies of that moment, is served by the BFF and auth-service, and its  *)
(* answer sets cookies and runs the rest of the function that awaits it.   *)
(* The cookies are those of all tabs.  A session is here the user it is    *)
(* of: BffRefresh has its tokens.  What the profile says is left out, but  *)
(* not the call that reads it, which sets cookies as any other.            *)
(***************************************************************************)
EXTENDS Naturals, FiniteSets

CONSTANTS
  Members,  \* users that may sign in
  Calls,    \* calls under way at once
  Nobody

VARIABLES
  jar,    \* whose session the cookies hold
  ticket, \* whom the mfa_token cookie is of
  live,   \* users whose session auth-service accepts
  tab,    \* whom AuthContext shows, whether the login form asks for a code, the kind of page
  call,
  online, \* network and upstreams answer
  unheard, \* history: a 401 that AuthContext takes for no answer emptied the cookies
  lapped  \* history: a late answer brought back its user or its cookies, or another tab acted

tabVars == <<jar, ticket, live, tab, call, online, unheard, lapped>>

\* "beside" is the call for the profile that loadUserData() sends with the one for the user.
None == [op |-> "none", as |-> Nobody, of |-> Nobody, status |-> "sent", beside |-> "none"]
Unused(c) == call[c].op = "none"
Sent(op, as, of) ==
  [op |-> op, as |-> as, of |-> of, status |-> "sent", beside |-> IF op = "load" THEN "sent" ELSE "none"]
Fresh(page) == [user |-> Nobody, asks |-> FALSE, page |-> page]
Mounted == CHOOSE c \in Calls : TRUE
\* A document starts with the effect that asks who is signed in; what was under way is dropped.
Document(cookie) == [c \in Calls |-> IF c = Mounted THEN Sent("mount", cookie, Nobody) ELSE None]

TabInit ==
  /\ jar = Nobody /\ ticket = Nobody /\ live = {}
  /\ tab = Fresh("login") /\ call = [c \in Calls |-> None]
  /\ online = TRUE /\ unheard = FALSE /\ lapped = FALSE

-----------------------------------------------------------------------------
(* What a user does in the tab. *)

\* "change" is a form of the profile page, "read" a query of a protected page.
Protected == {"change", "delete", "read"}

Begin(c, op, as, of) ==
  /\ Unused(c) /\ call' = [call EXCEPT ![c] = Sent(op, as, of)]
  /\ UNCHANGED <<jar, ticket, live, tab, online, unheard, lapped>>
Calling(ops) == \E c \in Calls : call[c].op \in ops

SubmitCredentials(c, u) ==
  tab.page = "login" /\ ~ tab.asks /\ ~ Calling({"login", "load"}) /\ Begin(c, "login", jar, u)
SubmitCode(c) ==
  tab.page = "login" /\ tab.asks /\ ~ Calling({"verify", "load"}) /\ Begin(c, "verify", jar, ticket)
SignOut(c) == tab.user # Nobody /\ Begin(c, "logout", jar, Nobody)
UsePage(c, op) ==
  tab.page = "protected" /\ tab.user # Nobody /\ ~ Calling({op}) /\ Begin(c, op, jar, Nobody)

\* The proxy sends a browser without cookies from a protected page to the login page.
Reached(page) == IF page = "protected" /\ jar = Nobody THEN "login" ELSE page
Navigate(page) ==
  /\ tab.page # Reached(page) /\ tab' = [tab EXCEPT !.page = Reached(page)]
  /\ UNCHANGED <<jar, ticket, live, call, online, unheard, lapped>>
Reload(page) ==
  /\ tab' = Fresh(Reached(page)) /\ call' = Document(jar) /\ unheard' = FALSE /\ lapped' = FALSE
  /\ UNCHANGED <<jar, ticket, live, online>>
\* The effect of the protected pages.
Redirect ==
  /\ tab.page = "protected" /\ ~ Calling({"mount"}) /\ tab.user = Nobody
  /\ tab' = [tab EXCEPT !.page = "login"]
  /\ UNCHANGED <<jar, ticket, live, call, online, unheard, lapped>>

-----------------------------------------------------------------------------
(* How a call is answered.  "expired" is a 401 that clears the cookies, "refused" one    *)
(* that does not, "error" any other failure, and "lost" a fetch that rejects.            *)

Replies(c, status, of) == call' = [call EXCEPT ![c].status = status, ![c].of = of]

\* Passwords and codes are right or wrong, and an account has a second factor or not.
ServeLogin(c) ==
  LET u == call[c].of IN
  \/ live' = live \cup {u} /\ Replies(c, "ok", u)
  \/ \E status \in {"challenge", "refused", "error"} : Replies(c, status, u) /\ UNCHANGED live
ServeVerify(c) ==
  LET u == call[c].of IN
  \/ u = Nobody /\ Replies(c, "error", u) /\ UNCHANGED live
  \/ u # Nobody /\ Replies(c, "refused", u) /\ UNCHANGED live
  \/ u # Nobody /\ live' = live \cup {u} /\ Replies(c, "ok", u)
ServeLogout(c) == live' = live \ {call[c].as} /\ Replies(c, "ok", Nobody)
\* A form is answered 401 too when its password is wrong, and 400 when its code is.
ServeMember(c) ==
  LET u == call[c].as IN
  \/ call[c].op # "delete" /\ Replies(c, "ok", u) /\ UNCHANGED live
  \/ /\ call[c].op \in {"change", "delete"}
     /\ \E status \in {"refused", "error"} : Replies(c, status, u) /\ UNCHANGED live
  \/ call[c].op = "delete" /\ Replies(c, "ok", u) /\ live' = live \ {u}

\* A refresh that fails for whatever reason makes the BFF answer 401 and clear the cookies.
Guest(c) == call[c].op \in {"login", "verify", "logout"}
Serve(c) ==
  /\ ~ Unused(c) /\ call[c].status = "sent"
  /\ \/ call[c].op = "login" /\ ServeLogin(c)
     \/ call[c].op = "verify" /\ ServeVerify(c)
     \/ call[c].op = "logout" /\ ServeLogout(c)
     \/ ~ Guest(c) /\ call[c].as \in live /\ ServeMember(c)
     \/ ~ Guest(c) /\ (call[c].as \notin live \/ ~ online) /\ Replies(c, "expired", Nobody) /\ UNCHANGED live
     \/ ~ online /\ \E status \in {"error", "lost"} : Replies(c, status, call[c].of) /\ UNCHANGED live
  /\ UNCHANGED <<jar, ticket, tab, online, unheard, lapped>>

\* The profile is read with the same cookies; "ok" is any answer but a 401, and none at all.
ServeBeside(c) ==
  /\ call[c].beside = "sent"
  /\ \/ (call[c].as \in live \/ ~ online) /\ call' = [call EXCEPT ![c].beside = "ok"]
     \/ (call[c].as \notin live \/ ~ online) /\ call' = [call EXCEPT ![c].beside = "expired"]
  /\ UNCHANGED <<jar, ticket, live, tab, online, unheard, lapped>>

-----------------------------------------------------------------------------
(* What an answer does. *)

Signs(c, status) == call[c].op \in {"login", "verify"} /\ status = "ok"
Leaves(c, status) == status = "expired" \/ (call[c].op = "logout" /\ status # "lost")
\* The BFF may have refreshed the session of the cookies that a call left with.
Renewed(c, status) ==
  IF Guest(c) \/ status \in {"expired", "lost"} THEN {} ELSE {call[c].as} \ {Nobody}

SetCookies(c, status) ==
  /\ jar' \in IF Signs(c, status) THEN {call[c].of}
             ELSE IF Leaves(c, status) THEN {Nobody}
             ELSE {jar} \cup Renewed(c, status)
  /\ unheard' = (jar' = Nobody /\ (unheard \/ (status = "expired" /\ call[c].op \in {"mount", "load", "profile"})))

\* A verification ends its challenge, unless too many were tried or auth-service is not reached.
SetTicket(c) ==
  LET a == call[c] IN
  ticket' \in IF a.op = "login" /\ a.status = "challenge" THEN {a.of}
             ELSE IF a.op # "verify" \/ a.status = "lost" THEN {ticket}
             ELSE IF a.status = "error" THEN {ticket, Nobody}
             ELSE {Nobody}

\* An answer is late when the cookies are not those its call left with.
Lapses(c) ==
  LET as == call[c].as IN
  lapped' = (lapped \/ /\ as \notin {Nobody, jar}
                       /\ \/ jar' = as
                          \/ call[c].op \in {"mount", "load"} /\ tab'.user = as /\ ~ unheard)

Unauthorized(c) == call[c].status \in {"expired", "refused"}
ClearSession == [tab EXCEPT !.user = Nobody, !.asks = FALSE]
\* a variant that leaves the session to the caller
AuthedFetchThrows(c) == tab
AuthedFetch(c) == IF Unauthorized(c) THEN ClearSession ELSE tab

Ends(c) == call' = [call EXCEPT ![c] = None]
Continues(c, op) == call' = [call EXCEPT ![c] = Sent(op, jar', Nobody)]
Ok(c) == call[c].status = "ok"

\* The identity is shown, and the profile is asked for.
Mount(c) ==
  IF Ok(c) THEN tab' = [tab EXCEPT !.user = call[c].of] /\ Continues(c, "profile") ELSE tab' = tab /\ Ends(c)
ReadProfile(c) == tab' = tab /\ Ends(c)
\* Both answers are awaited, then the user is set to the identity, if one came.
Loaded(c, user) == tab' = [tab EXCEPT !.user = user] /\ Ends(c)
LoadUserData(c) ==
  LET identity == IF Ok(c) THEN call[c].of ELSE Nobody IN
  IF call[c].beside = "none" THEN Loaded(c, identity)
  ELSE tab' = tab /\ call' = [call EXCEPT ![c].status = "heard", ![c].of = identity]
LoadedBeside(c) ==
  IF call[c].status = "heard" THEN Loaded(c, call[c].of)
  ELSE tab' = tab /\ call' = [call EXCEPT ![c].beside = "none"]
Login(c) ==
  /\ tab' = IF call[c].status = "challenge" THEN [tab EXCEPT !.asks = TRUE] ELSE tab
  /\ IF Ok(c) THEN Continues(c, "load") ELSE Ends(c)
VerifyMFALogin(c) ==
  /\ tab' = IF Ok(c) THEN [tab EXCEPT !.asks = FALSE] ELSE tab
  /\ IF Ok(c) THEN Continues(c, "load") ELSE Ends(c)
Logout(c) == tab' = ClearSession /\ Ends(c)
Change(c) == tab' = AuthedFetch(c) /\ Ends(c)
DeleteAccount(c) == tab' = (IF Ok(c) THEN ClearSession ELSE AuthedFetch(c)) /\ Ends(c)
\* axios reloads at the login page.
ReadPage(c) ==
  IF Unauthorized(c) THEN tab' = Fresh("login") /\ call' = Document(jar') ELSE tab' = tab /\ Ends(c)

Deliver(c) ==
  /\ ~ Unused(c) /\ call[c].status \notin {"sent", "heard"}
  /\ SetCookies(c, call[c].status) /\ SetTicket(c)
  /\ \/ call[c].op = "mount" /\ Mount(c)
     \/ call[c].op = "profile" /\ ReadProfile(c)
     \/ call[c].op = "load" /\ LoadUserData(c)
     \/ call[c].op = "login" /\ Login(c)
     \/ call[c].op = "verify" /\ VerifyMFALogin(c)
     \/ call[c].op = "logout" /\ Logout(c)
     \/ call[c].op = "change" /\ Change(c)
     \/ call[c].op = "delete" /\ DeleteAccount(c)
     \/ call[c].op = "read" /\ ReadPage(c)
  /\ Lapses(c) /\ UNCHANGED <<live, online>>

DeliverBeside(c) ==
  /\ call[c].beside \in {"ok", "expired"}
  /\ SetCookies(c, call[c].beside) /\ LoadedBeside(c)
  /\ Lapses(c) /\ UNCHANGED <<ticket, live, online>>

-----------------------------------------------------------------------------
(* Around the tab: other tabs, sessions that end, outages. *)

OtherTab(u) ==
  /\ u # jar /\ jar' = u /\ unheard' = FALSE /\ lapped' = TRUE
  /\ live' = IF u = Nobody THEN live \ {jar} ELSE live \cup {u}
  /\ UNCHANGED <<ticket, tab, call, online>>
SessionEnds(u) ==
  /\ u \in live /\ live' = live \ {u}
  /\ UNCHANGED <<jar, ticket, tab, call, online, unheard, lapped>>
TabOutage ==
  /\ online' = ~ online
  /\ UNCHANGED <<jar, ticket, live, tab, call, unheard, lapped>>

TabNext ==
  \/ \E c \in Calls : \/ SubmitCode(c) \/ SignOut(c)
                      \/ Serve(c) \/ ServeBeside(c) \/ Deliver(c) \/ DeliverBeside(c)
                      \/ (\E u \in Members : SubmitCredentials(c, u))
                      \/ (\E op \in Protected : UsePage(c, op))
  \/ \E page \in {"public", "login", "protected"} : Navigate(page) \/ Reload(page)
  \/ Redirect \/ TabOutage
  \/ (\E u \in Members \cup {Nobody} : OtherTab(u)) \/ (\E u \in Members : SessionEnds(u))

TabFairness == \A c \in Calls : WF_tabVars(Serve(c) \/ ServeBeside(c) \/ Deliver(c) \/ DeliverBeside(c))
TabSpec == TabInit /\ [][TabNext]_tabVars /\ TabFairness

-----------------------------------------------------------------------------
\* Type correctness of the tab, its calls and the cookies.
TabTypeOK ==
  /\ jar \in Members \cup {Nobody} /\ ticket \in Members \cup {Nobody} /\ live \subseteq Members
  /\ tab \in [user : Members \cup {Nobody}, asks : BOOLEAN, page : {"public", "login", "protected"}]
  /\ call \in [Calls -> [op : Protected \cup {"none", "mount", "profile", "load", "login", "verify", "logout"},
                         as : Members \cup {Nobody}, of : Members \cup {Nobody},
                         status : {"sent", "heard", "ok", "challenge", "expired", "refused", "error", "lost"},
                         beside : {"none", "sent", "ok", "expired"}]]
  /\ online \in BOOLEAN /\ unheard \in BOOLEAN /\ lapped \in BOOLEAN

(* AuthContext shows nobody but the user whose session the cookies hold, whatever calls *)
(* overlap and whatever ends a session: what empties the cookies signs the tab out.      *)
(* The code has three exceptions: a sign-in that is about to show its user; a 401 of     *)
(* fetchIdentity or fetchProfile, which is taken for no answer and leaves the user shown *)
(* without cookies; and an answer so late that the cookies are another user's or gone,   *)
(* which brings back its own, or its user, as does another tab.                          *)
ShownUserHasTheCookies ==
  lapped \/ Calling({"load"}) \/ tab.user \in {Nobody, jar} \/ (unheard /\ jar = Nobody)

(* When every session has ended and the network answers, a tab stops asking for what is *)
(* protected: the first answer signs it out (authedFetch) or sends it to the login page *)
(* (api.ts), and no answer that was under way signs it in again for good.               *)
EndedSessionIsNoticed ==
  <>[](online /\ live = {}) => <>[](\A c \in Calls : call[c].op \notin Protected)

(* A form's 401 signs the tab out only when the session has ended: AuthContext.tsx says *)
(* "a 401 reaching here means genuinely logged out".                                    *)
FormSignsOutEndedSessions ==
  [][\A c \in Calls : call[c].op \in {"change", "delete"} /\ ~ Ok(c) /\ call'[c] = None
                      /\ tab.user = call[c].as /\ tab'.user = Nobody => call[c].as \notin live]_tabVars
=============================================================================
