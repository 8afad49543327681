---------------------------- MODULE BffRefresh ----------------------------
(***************************************************************************)
(* The session of one browser: its httpOnly cookies, the route handlers of *)
(* the frontend's BFF that read and set them, and the de-duplicated token  *)
(* refresh (refreshOnce) in front of auth-service, whose refresh keys are  *)
(* `valid'.  A request takes its cookies when it is sent; answers arrive   *)
(* in any order and their Set-Cookie applies when they do.                 *)
(*                                                                         *)
(* A handler's JavaScript runs without interruption between two awaits, so *)
(* every action below is what one handler does from one await to the next. *)
(***************************************************************************)
EXTENDS Naturals, FiniteSets

CONSTANTS
  Replicas,   \* frontend processes, each with its own maps in refresh.ts
  Requests,   \* requests of the browser that can be open at once
  Tokens,     \* refresh tokens: random, never issued twice
  Nil, None,  \* null (a refresh that failed), and no entry at all
  Faults,     \* subset of {"outage", "lost", "redis"}
  Kinds       \* the requests this instance's browser makes

\* What an answer does to the cookies when it sets no token.
Orders == {"keep", "clear", "mfa", "clear_mfa"}

ASSUME FaultsAssumption == Faults \subseteq {"outage", "lost", "redis"}
ASSUME NilAssumption == Nil # None /\ {Nil, None} \cap (Tokens \cup Orders) = {} /\ Tokens \cap Orders = {}

VARIABLES
  jar,       \* the browser's cookies
  valid,     \* auth-service: tokens with a refresh:<token> key in Redis
  inflight,  \* replica -> token -> the upstream refresh in progress
  recent,    \* replica -> token -> recentlyRotated entry
  req,       \* request -> where its handler is, what it was sent with, its answer,
             \* and whether no other request was open while it was
  hist       \* history: session of a token, sessions logged out, and whether
             \* all has gone well

vars == <<jar, valid, inflight, recent, req, hist>>

Proxied == {"page", "refused"}   \* refused: answered 401 for a reason of its own
AllKinds == Proxied \cup {"refresh", "logout", "login", "mfa"}
Steps == {"idle", "first", "refresh", "waiting", "retry", "upstream", "reply"}
Cookies == Tokens \cup Orders

Idle == [at |-> "idle", kind |-> "page", rep |-> Nil, access |-> FALSE, tok |-> Nil,
         res |-> Nil, alone |-> TRUE]

Minted == {t \in Tokens : hist.session[t] # Nil}
Fresh(n) == n \in Tokens \ Minted
Open(q) == req[q].at # "idle"
IsAt(q, step) == req[q].at = step

Init ==
  /\ jar = [access |-> FALSE, refresh |-> Nil, mfa |-> FALSE]
  /\ valid = {}
  /\ inflight = [r \in Replicas |-> [t \in Tokens |-> "none"]]
  /\ recent = [r \in Replicas |-> [t \in Tokens |-> None]]
  /\ req = [q \in Requests |-> Idle]
  /\ hist = [session |-> [t \in Tokens |-> Nil],  \* the token its login issued
             ended   |-> {},                      \* sessions the user logged out of
             raced   |-> {},                      \* of those: another request was open
             steady  |-> TRUE]   \* nothing has failed, no request has outlasted a TTL

Upset == hist' = [hist EXCEPT !.steady = FALSE]

Reply(x, cookies) == [x EXCEPT !.at = "reply", !.res = cookies]

(***************************************************************************)
(* The browser sends a request with the cookies it has.                    *)
(***************************************************************************)
FirstStep(kind) == CASE kind \in Proxied -> "first"
                     [] kind = "refresh" -> "refresh"
                     [] OTHER -> "upstream"

Offered(kind) == CASE kind \in {"refresh", "logout"} -> jar.refresh # Nil
                   [] kind = "login" -> ~ jar.access
                   [] kind = "mfa" -> jar.mfa
                   [] OTHER -> TRUE

\* Bound: a request starts only while there is a token left for each that may need one.
TokensLeft == Cardinality(Tokens \ Minted) > Cardinality({q \in Requests : Open(q)})

Send(q, kind, r) ==
  /\ ~ Open(q)
  /\ TokensLeft
  /\ kind \in Kinds /\ Offered(kind)
  /\ req' = [p \in Requests |->
       IF p = q THEN [Idle EXCEPT !.at = FirstStep(kind), !.kind = kind, !.rep = r,
                                  !.access = jar.access, !.tok = jar.refresh,
                                  !.alone = \A o \in Requests : ~ Open(o)]
       ELSE IF Open(p) THEN [req[p] EXCEPT !.alone = FALSE] ELSE req[p]]
  /\ UNCHANGED <<jar, valid, inflight, recent, hist>>

(***************************************************************************)
(* The catch-all proxy: an attempt, and after a 401 a refresh and a retry. *)
(* A fetch that rejects makes the route answer 500 without cookies.        *)
(***************************************************************************)
Unauthorized(x) == x.kind = "refused" \/ ~ x.access

FirstAttempt(q) ==
  LET x == req[q] IN
  /\ IsAt(q, "first")
  /\ req' = [req EXCEPT ![q] = IF ~ Unauthorized(x) THEN Reply(x, "keep")
                               ELSE IF x.tok = Nil THEN Reply(x, "clear")
                               ELSE [x EXCEPT !.at = "refresh"]]
  /\ UNCHANGED <<jar, valid, inflight, recent, hist>>

FetchRejects(q) ==
  /\ "outage" \in Faults
  /\ req[q].at \in {"first", "retry"} \/ (IsAt(q, "upstream") /\ req[q].kind # "logout")
  /\ req' = [req EXCEPT ![q] = Reply(@, "keep")]
  /\ Upset
  /\ UNCHANGED <<jar, valid, inflight, recent>>

\* What the handler does with the tokens refreshOnce() returned (null is Nil).
Resume(x, tokens) ==
  IF tokens = Nil THEN Reply(x, "clear")
  ELSE IF x.kind = "refresh" THEN Reply(x, tokens)
  ELSE [x EXCEPT !.at = "retry", !.res = tokens]

RetryKeepsCookies(q) ==
  /\ IsAt(q, "retry")
  /\ req' = [req EXCEPT ![q] = Reply(@, "keep")]
  /\ UNCHANGED <<jar, valid, inflight, recent, hist>>

Retry(q) ==
  /\ IsAt(q, "retry")
  /\ req' = [req EXCEPT ![q] = Reply(@, @.res)]
  /\ UNCHANGED <<jar, valid, inflight, recent, hist>>

(***************************************************************************)
(* refreshOnce(): the cached result, or the promise in flight, or a new    *)
(* one.                                                                    *)
(***************************************************************************)
Wait(q) == req' = [req EXCEPT ![q].at = "waiting"]
StartFetch(r, t) == inflight' = [inflight EXCEPT ![r][t] = "sent"]

\* a variant without the recentlyRotated lookup
EnterForgetful(q) ==
  LET r == req[q].rep
      t == req[q].tok IN
  /\ IsAt(q, "refresh")
  /\ Wait(q)
  /\ IF inflight[r][t] = "none" THEN StartFetch(r, t) ELSE UNCHANGED inflight
  /\ UNCHANGED <<jar, valid, recent, hist>>

Enter(q) ==
  LET r == req[q].rep
      t == req[q].tok IN
  /\ IsAt(q, "refresh")
  /\ \/ /\ recent[r][t] # None
        /\ req' = [req EXCEPT ![q] = Resume(@, recent[r][t])]
        /\ UNCHANGED inflight
     \/ /\ recent[r][t] = None
        /\ Wait(q)
        /\ IF inflight[r][t] = "none" THEN StartFetch(r, t) ELSE UNCHANGED inflight
  /\ UNCHANGED <<jar, valid, recent, hist>>

\* a variant that wakes one of them only
FirstWaiter(r, t) ==
  LET all == {q \in Requests : IsAt(q, "waiting") /\ req[q].rep = r /\ req[q].tok = t}
  IN  IF all = {} THEN {} ELSE {CHOOSE q \in all : TRUE}
Waiters(r, t) == {q \in Requests : IsAt(q, "waiting") /\ req[q].rep = r /\ req[q].tok = t}

\* The promise settles: the result is cached, null too, and everyone waiting resumes.
Settle(r, t, tokens) ==
  /\ inflight' = [inflight EXCEPT ![r][t] = "none"]
  /\ recent' = [recent EXCEPT ![r][t] = tokens]
  /\ req' = [q \in Requests |-> IF q \in Waiters(r, t) THEN Resume(req[q], tokens) ELSE req[q]]
  /\ UNCHANGED jar

\* auth-service Refresh: the Get, then the Del and the Set of a new token.  Nobody can
\* use the new token before the answer is back, so Del, Set and answer are one step.
LookUp(r, t) ==
  /\ inflight[r][t] = "sent"
  /\ \/ /\ t \in valid
        /\ inflight' = [inflight EXCEPT ![r][t] = "found"]
        /\ UNCHANGED <<jar, valid, recent, req, hist>>
     \/ /\ t \notin valid
        /\ Settle(r, t, Nil)
        /\ UNCHANGED <<valid, hist>>

Derived(n, t) == [hist EXCEPT !.session[n] = hist.session[t]]

Rotate(r, t, n) ==
  /\ inflight[r][t] = "found"
  /\ Fresh(n)
  /\ valid' = (valid \ {t}) \cup {n}
  /\ hist' = Derived(n, t)
  /\ Settle(r, t, n)

\* doRefresh() answers null on any failure: the call is not made or is refused, the
\* answer is lost after the rotation, the Set of the new token failed after the Del.
RefreshFails(r, t) ==
  /\ Settle(r, t, Nil)
  /\ \/ /\ "outage" \in Faults /\ inflight[r][t] = "sent"
        /\ Upset
        /\ UNCHANGED valid
     \/ /\ "lost" \in Faults /\ inflight[r][t] = "found"
        /\ \E n \in Tokens :
             /\ Fresh(n)
             /\ valid' = (valid \ {t}) \cup {n}
             /\ hist' = [Derived(n, t) EXCEPT !.steady = FALSE]
     \/ /\ "redis" \in Faults /\ inflight[r][t] = "found"
        /\ valid' = valid \ {t}
        /\ Upset

(***************************************************************************)
(* Login, the second factor, logout.                                       *)
(***************************************************************************)
NewSession(n) ==
  /\ Fresh(n)
  /\ valid' = valid \cup {n}
  /\ hist' = [hist EXCEPT !.session[n] = n]

Login(q, n) ==
  /\ IsAt(q, "upstream") /\ req[q].kind = "login"
  /\ NewSession(n)
  /\ req' = [req EXCEPT ![q] = Reply(@, n)]
  /\ UNCHANGED <<jar, inflight, recent>>

LoginAsksForCode(q) ==
  /\ IsAt(q, "upstream") /\ req[q].kind = "login" /\ "mfa" \in Kinds
  /\ req' = [req EXCEPT ![q] = Reply(@, "mfa")]
  /\ UNCHANGED <<jar, valid, inflight, recent, hist>>

MfaVerify(q, n) ==
  /\ IsAt(q, "upstream") /\ req[q].kind = "mfa"
  /\ NewSession(n)
  /\ req' = [req EXCEPT ![q] = Reply(@, n)]
  /\ UNCHANGED <<jar, inflight, recent>>

\* a wrong code ends the challenge in the browser, a rate limit does not
MfaRefused(q) ==
  /\ IsAt(q, "upstream") /\ req[q].kind = "mfa"
  /\ \E cookies \in {"clear_mfa", "keep"} : req' = [req EXCEPT ![q] = Reply(@, cookies)]
  /\ UNCHANGED <<jar, valid, inflight, recent, hist>>

\* a variant whose upstream call always fails: its error is swallowed
LogoutKeeps(q) ==
  /\ IsAt(q, "upstream") /\ req[q].kind = "logout"
  /\ hist' = [hist EXCEPT !.ended = @ \cup {hist.session[req[q].tok]},
                          !.raced = IF ~ req[q].alone THEN @ \cup {hist.session[req[q].tok]} ELSE @]
  /\ req' = [req EXCEPT ![q] = Reply(@, "clear")]
  /\ UNCHANGED <<jar, valid, inflight, recent>>

Logout(q) ==
  LET s == hist.session[req[q].tok]
      after == [hist EXCEPT !.ended = @ \cup {s},
                            !.raced = IF ~ req[q].alone THEN @ \cup {s} ELSE @] IN
  /\ IsAt(q, "upstream") /\ req[q].kind = "logout"
  /\ \/ valid' = valid \ {req[q].tok} /\ hist' = after
     \/ "outage" \in Faults /\ hist' = [after EXCEPT !.steady = FALSE] /\ UNCHANGED valid
  /\ req' = [req EXCEPT ![q] = Reply(@, "clear")]
  /\ UNCHANGED <<jar, inflight, recent>>

(***************************************************************************)
(* The answer reaches the browser (or the browser has left), and time.     *)
(***************************************************************************)
Apply(x) ==
  CASE x.res \in Tokens -> [jar EXCEPT !.access = TRUE, !.refresh = x.res,
                                       !.mfa = IF x.kind = "mfa" THEN FALSE ELSE @]
    [] x.res = "clear" -> [jar EXCEPT !.access = FALSE, !.refresh = Nil]
    [] x.res = "mfa" -> [jar EXCEPT !.mfa = TRUE]
    [] x.res = "clear_mfa" -> [jar EXCEPT !.mfa = FALSE]
    [] OTHER -> jar

\* The browser's session has changed since the request was sent, and not to what the answer
\* sets: it puts older cookies back, or clears newer ones.
Overtaken(x) ==
  /\ x.res \in Tokens \cup {"clear"}
  /\ jar.refresh \notin {x.tok, IF x.res = "clear" THEN Nil ELSE x.res}

Deliver(q) ==
  /\ IsAt(q, "reply")
  /\ \/ jar' = Apply(req[q]) /\ hist' = [hist EXCEPT !.steady = @ /\ ~ Overtaken(req[q])]
     \/ "lost" \in Faults /\ Upset /\ UNCHANGED jar
  /\ req' = [req EXCEPT ![q] = Idle]
  /\ UNCHANGED <<valid, inflight, recent>>

\* A TTL is over: of no consequence to requests sent after it, but one that was already
\* under way has outlasted it.
Lapses(during) == hist' = [hist EXCEPT !.steady = @ /\ ~ \E q \in Requests : Open(q) /\ during[q]]

\* 15 minutes: the cookie and the JWT end together
AccessExpires ==
  /\ jar.access
  /\ jar' = [jar EXCEPT !.access = FALSE]
  /\ Lapses([q \in Requests |-> ~ (IsAt(q, "first") /\ req[q].access)])
  /\ UNCHANGED <<valid, inflight, recent, req>>

\* 10 seconds: an expired entry is as good as none
RecentExpires(r, t) ==
  /\ recent[r][t] # None
  /\ recent' = [recent EXCEPT ![r][t] = None]
  /\ Lapses([q \in Requests |-> req[q].tok = t])
  /\ UNCHANGED <<jar, valid, inflight, req>>

Restart(r) ==
  /\ \A q \in Requests : Open(q) => req[q].rep # r
  /\ \E t \in Tokens : recent[r][t] # None
  /\ recent' = [recent EXCEPT ![r] = [t \in Tokens |-> None]]
  /\ Upset
  /\ UNCHANGED <<jar, valid, inflight, req>>

Handle(q) ==
  \/ FirstAttempt(q) \/ Enter(q) \/ Retry(q) \/ Logout(q) \/ LoginAsksForCode(q)
  \/ MfaRefused(q) \/ Deliver(q) \/ \E n \in Tokens : Login(q, n) \/ MfaVerify(q, n)

Upstream(r, t) == LookUp(r, t) \/ \E n \in Tokens : Rotate(r, t, n)

Next ==
  \/ \E q \in Requests :
       \/ \E kind \in AllKinds, r \in Replicas : Send(q, kind, r)
       \/ Handle(q) \/ FetchRejects(q)
  \/ \E r \in Replicas :
       \/ \E t \in Tokens : Upstream(r, t) \/ RefreshFails(r, t) \/ RecentExpires(r, t)
       \/ Restart(r)
  \/ AccessExpires

Spec == Init /\ [][Next]_vars

\* Node runs every ready continuation, and a fetch ends: undici gives up on a silent
\* upstream, which is one of the failures.
Fairness ==
  /\ \A q \in Requests : WF_vars(Handle(q))
  /\ \A r \in Replicas, t \in Tokens : WF_vars(Upstream(r, t))

FairSpec == Spec /\ Fairness

----------------------------------------------------------------------------
\* Type correctness, with what refreshOnce() relies on: a promise in flight has
\* someone who waits for it, and who waits has a promise in flight.
TypeOK ==
  /\ jar \in [access : BOOLEAN, refresh : Tokens \cup {Nil}, mfa : BOOLEAN]
  /\ hist \in [session : [Tokens -> Tokens \cup {Nil}], ended : SUBSET Tokens,
               raced : SUBSET Tokens, steady : BOOLEAN]
  /\ valid \subseteq Minted
  /\ inflight \in [Replicas -> [Tokens -> {"none", "sent", "found"}]]
  /\ recent \in [Replicas -> [Tokens -> Tokens \cup {Nil, None}]]
  /\ req \in [Requests -> [at : Steps, kind : AllKinds, rep : Replicas \cup {Nil}, access : BOOLEAN,
                           tok : Tokens \cup {Nil}, res : Cookies \cup {Nil}, alone : BOOLEAN]]
  /\ \A q \in Requests :
       /\ Open(q) => req[q].rep \in Replicas
       /\ req[q].at \in {"refresh", "waiting", "retry"} => req[q].tok \in Tokens
       /\ IsAt(q, "waiting") => inflight[req[q].rep][req[q].tok] # "none"
       /\ IsAt(q, "retry") => req[q].res \in Tokens
       /\ IsAt(q, "reply") => req[q].res \in Cookies
  /\ \A r \in Replicas, t \in Tokens : inflight[r][t] # "none" => Waiters(r, t) # {}

SentIn(q) == hist.session[req[q].tok]
Ended(q) == req[q].tok = Nil \/ SentIn(q) \in hist.ended
Expels(q) == IsAt(q, "reply") /\ req[q].res = "clear" /\ req[q].kind # "logout"

\* As long as nothing fails and no request outlasts a TTL, a handler clears the session
\* cookies only of a session its user has logged out of.
ValidUserStaysIn == hist.steady => \A q \in Requests : Expels(q) => Ended(q)

\* Then too, and until its user logs out, the session the browser holds can go on: its refresh token is
\* valid, or the valid one that replaced it is on its way or in recentlyRotated.
SessionGoesOn ==
  LET t == jar.refresh IN
  (hist.steady /\ t # Nil /\ hist.session[t] \notin hist.ended) =>
    \/ t \in valid
    \/ \E r \in Replicas : recent[r][t] \in valid
    \/ \E q \in Requests : req[q].res \in valid /\ hist.session[req[q].res] = hist.session[t]

\* And after a logout that overlapped no other request no token of the session is valid, not
\* even one issued by an earlier rotation of the same session.
LogoutEndsSession ==
  hist.steady =>
    \A t \in valid : hist.session[t] \in hist.ended => hist.session[t] \in hist.raced

\* Every request is answered, those that wait for the refresh another one started too,
\* whatever fails upstream.
EveryRequestAnswered == \A q \in Requests : []<> ~ Open(q)
============================================================================
