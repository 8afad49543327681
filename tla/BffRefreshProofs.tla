-------------------------- MODULE BffRefreshProofs --------------------------
(* Proofs about BffRefresh, for any number of requests, tokens and faults. *)
EXTENDS BffRefresh, TLAPS

Row == [at : Steps, kind : AllKinds, rep : Replicas \cup {Nil}, access : BOOLEAN, tok : Tokens \cup {Nil},
        res : Cookies \cup {Nil}, alone : BOOLEAN]

History == [session : [Tokens -> Tokens \cup {Nil}], ended : SUBSET Tokens, raced : SUBSET Tokens,
            steady : BOOLEAN]

\* Whatever is held, sent, cached or under way was issued, and an answer has its cookies only
\* from the step that gives them.
Tidy ==
  /\ jar.refresh # Nil => jar.refresh \in Minted
  /\ \A t \in Minted : hist.session[t] \in Minted
  /\ hist.ended \subseteq Minted
  /\ \A r \in Replicas, t \in Tokens :
       /\ recent[r][t] # None => t \in Minted
       /\ recent[r][t] \in Tokens => recent[r][t] \in Minted
       /\ inflight[r][t] # "none" => t \in Minted
  /\ \A q \in Requests :
       /\ req[q].tok # Nil => req[q].tok \in Minted
       /\ req[q].res \in Tokens => req[q].res \in Minted
       /\ req[q].at \notin {"retry", "reply"} => req[q].res = Nil
       /\ req[q].at = "idle" => req[q].tok = Nil
       /\ req[q].at \in {"first", "refresh", "waiting", "retry"} => req[q].kind \in Proxied \cup {"refresh"}
       /\ req[q].kind = "logout" => req[q].tok \in Tokens

Typed == TypeOK /\ Tidy

-----------------------------------------------------------------------------
SameSessions ==
  /\ hist' \in History
  /\ hist'.session = hist.session /\ hist'.ended = hist.ended /\ hist'.raced = hist.raced
  /\ hist'.steady => hist.steady

LEMMA HistoryKept ==
  ASSUME TypeOK
  PROVE  /\ Upset => SameSessions /\ ~ hist'.steady
         /\ UNCHANGED hist => SameSessions
         /\ \A during : Lapses(during) => SameSessions
<1>1. hist \in History
  BY DEF TypeOK, History
<1>2. ASSUME NEW b \in BOOLEAN, hist' = [hist EXCEPT !.steady = b]
      PROVE  hist' \in History /\ hist'.session = hist.session /\ hist'.ended = hist.ended
             /\ hist'.raced = hist.raced /\ hist'.steady = b
  BY <1>1, <1>2 DEF History
<1>3. Upset => SameSessions /\ ~ hist'.steady
  BY <1>2 DEF Upset, SameSessions
<1>4. UNCHANGED hist => SameSessions
  BY <1>1 DEF SameSessions
<1>5. ASSUME NEW during, Lapses(during)
      PROVE  SameSessions
  <2> DEFINE b == hist.steady /\ ~ \E q \in Requests : Open(q) /\ during[q]
  <2>1. b \in BOOLEAN /\ hist' = [hist EXCEPT !.steady = b]
    BY <1>5 DEF Lapses
  <2>2. b => hist.steady
    OBVIOUS
  <2> HIDE DEF b
  <2> QED
    BY <1>2, <2>1, <2>2 DEF SameSessions
<1> QED
  BY <1>3, <1>4, <1>5

LEMMA ReplyRow ==
  ASSUME NEW x \in Row, NEW c \in Cookies
  PROVE  /\ Reply(x, c) \in Row
         /\ Reply(x, c).at = "reply" /\ Reply(x, c).res = c
         /\ Reply(x, c).tok = x.tok /\ Reply(x, c).kind = x.kind
         /\ Reply(x, c).rep = x.rep /\ Reply(x, c).alone = x.alone
BY DEF Reply, Row, Steps

LEMMA ResumeRow ==
  ASSUME NEW x \in Row, NEW c \in Tokens \cup {Nil}
  PROVE  /\ Resume(x, c) \in Row
         /\ Resume(x, c).tok = x.tok /\ Resume(x, c).kind = x.kind
         /\ Resume(x, c).rep = x.rep /\ Resume(x, c).alone = x.alone
         /\ c = Nil => Resume(x, c).at = "reply" /\ Resume(x, c).res = "clear"
         /\ c # Nil => Resume(x, c).at \in {"reply", "retry"} /\ Resume(x, c).res = c
<1>1. "clear" \in Cookies /\ (c # Nil => c \in Cookies)
  BY DEF Cookies, Orders
<1>2. CASE c = Nil
  BY <1>1, <1>2, ReplyRow DEF Resume
<1>3. CASE c # Nil /\ x.kind = "refresh"
  <2>1. Resume(x, c) = Reply(x, c)
    BY <1>3 DEF Resume
  <2> QED
    BY <1>1, <1>3, <2>1, ReplyRow
<1>4. CASE c # Nil /\ x.kind # "refresh"
  <2>1. Resume(x, c) = [x EXCEPT !.at = "retry", !.res = c]
    BY <1>4 DEF Resume
  <2> QED
    BY <1>1, <1>4, <2>1 DEF Row, Steps
<1> QED
  BY <1>2, <1>3, <1>4

-----------------------------------------------------------------------------
(* Type correctness. *)

\* An answer to one request.
LEMMA AnswerTyped ==
  ASSUME Typed, NEW q \in Requests, NEW c \in Cookies,
         req[q].at \notin {"idle", "waiting"}, c \in Tokens => c \in Minted,
         req' = [req EXCEPT ![q] = Reply(req[q], c)],
         UNCHANGED <<jar, valid, inflight, recent>>, SameSessions
  PROVE  Typed'
<1> DEFINE y == Reply(req[q], c)
<1>1. /\ req \in [Requests -> Row] /\ req[q] \in Row
      /\ y \in Row /\ y.at = "reply" /\ y.res = c /\ y.tok = req[q].tok /\ y.kind = req[q].kind /\ y.rep = req[q].rep
  BY ReplyRow DEF Typed, TypeOK, Row
<1> HIDE DEF y
<1>2. /\ req' \in [Requests -> Row] /\ req'[q] = y
      /\ \A p \in Requests : p # q => req'[p] = req[p]
  BY <1>1 DEF y
<1>3. Minted' = Minted
  BY DEF SameSessions, Minted
<1>4. \A r \in Replicas, t \in Tokens : Waiters(r, t)' = Waiters(r, t)
  BY <1>1, <1>2 DEF Waiters, IsAt
<1>5. TypeOK'
  BY <1>1, <1>2, <1>3, <1>4 DEF Typed, TypeOK, Row, History, SameSessions, Open, IsAt
<1>6. Tidy'
  BY <1>1, <1>2, <1>3 DEF Typed, Tidy, SameSessions
<1> QED
  BY <1>5, <1>6 DEF Typed

LEMMA SendTyped ==
  ASSUME Typed, NEW q \in Requests, NEW kind \in AllKinds, NEW r \in Replicas, Send(q, kind, r)
  PROVE  Typed'
<1>1. /\ req \in [Requests -> Row] /\ req[q].at = "idle"
      /\ jar.refresh \in Tokens \cup {Nil} /\ jar.access \in BOOLEAN
      /\ kind = "logout" => jar.refresh \in Tokens
  BY DEF Send, Typed, TypeOK, Row, Open, Offered
<1> DEFINE y == [Idle EXCEPT !.at = FirstStep(kind), !.kind = kind, !.rep = r, !.access = jar.access,
                             !.tok = jar.refresh, !.alone = \A o \in Requests : ~ Open(o)]
<1>2. FirstStep(kind) \in {"first", "refresh", "upstream"}
      /\ (FirstStep(kind) \in {"first", "refresh"} => kind \in Proxied \cup {"refresh"})
      /\ (FirstStep(kind) = "refresh" => jar.refresh \in Tokens)
  BY <1>1 DEF FirstStep, Send, Offered, Proxied, AllKinds
<1>3. Idle \in Row /\ Idle.res = Nil
  BY DEF Idle, Row, Steps, AllKinds, Proxied
<1>4. y \in Row /\ y.at = FirstStep(kind) /\ y.kind = kind /\ y.rep = r /\ y.tok = jar.refresh /\ y.res = Nil
  BY <1>1, <1>2, <1>3 DEF Row, Steps
<1>5. req' = [p \in Requests |-> IF p = q THEN y
                                 ELSE IF Open(p) THEN [req[p] EXCEPT !.alone = FALSE] ELSE req[p]]
  BY DEF Send
<1> HIDE DEF y
<1>6. ASSUME NEW p \in Requests, p # q
      PROVE  /\ req'[p] \in Row /\ req'[p].at = req[p].at /\ req'[p].kind = req[p].kind
             /\ req'[p].rep = req[p].rep /\ req'[p].tok = req[p].tok /\ req'[p].res = req[p].res
             /\ req'[p].alone => req[p].alone
  BY <1>1, <1>5, <1>6 DEF Row
<1>7. req' \in [Requests -> Row] /\ req'[q] = y
  BY <1>4, <1>5, <1>6
<1>8. UNCHANGED <<jar, valid, inflight, recent, hist>> /\ Minted' = Minted
  BY DEF Send, Minted
<1>9. \A u \in Replicas, t \in Tokens : Waiters(u, t)' = Waiters(u, t)
  BY <1>1, <1>2, <1>4, <1>6, <1>7 DEF Waiters, IsAt
<1>10. TypeOK'
  <2>1. ASSUME NEW p \in Requests
        PROVE  /\ (req'[p].at # "idle") => req'[p].rep \in Replicas
               /\ req'[p].at \in {"refresh", "waiting", "retry"} => req'[p].tok \in Tokens
               /\ req'[p].at = "waiting" => inflight'[req'[p].rep][req'[p].tok] # "none"
               /\ req'[p].at = "retry" => req'[p].res \in Tokens
               /\ req'[p].at = "reply" => req'[p].res \in Cookies
    <3>1. CASE p = q
      BY <1>2, <1>4, <1>7, <3>1
    <3>2. CASE p # q
      BY <1>6, <1>8, <3>2 DEF Typed, TypeOK, Open, IsAt
    <3> QED
      BY <3>1, <3>2
  <2> QED
    BY <1>7, <1>8, <1>9, <2>1 DEF Typed, TypeOK, Row, Open, IsAt
<1>11. Tidy'
  BY <1>1, <1>2, <1>4, <1>6, <1>7, <1>8 DEF Typed, Tidy
<1> QED
  BY <1>10, <1>11 DEF Typed

\* A handler goes on to its refresh, or to wait for one in flight.
LEMMA MoveTyped ==
  ASSUME Typed, NEW q \in Requests, NEW at \in {"refresh", "waiting"},
         req[q].at \in {"first", "refresh"}, req[q].tok \in Tokens,
         req' = [req EXCEPT ![q].at = at],
         \A r \in Replicas, t \in Tokens : inflight[r][t] # "none" => inflight'[r][t] # "none",
         inflight' \in [Replicas -> [Tokens -> {"none", "sent", "found"}]],
         \A r \in Replicas, t \in Tokens :
           inflight'[r][t] # "none" => \/ inflight[r][t] # "none"
                                       \/ r = req[q].rep /\ t = req[q].tok /\ at = "waiting",
         at = "waiting" => inflight'[req[q].rep][req[q].tok] # "none",
         UNCHANGED <<jar, valid, recent, hist>>
  PROVE  Typed'
<1>1. req \in [Requests -> Row] /\ req[q] \in Row
  BY DEF Typed, TypeOK, Row
<1> DEFINE y == [req[q] EXCEPT !.at = at]
<1>2. /\ y \in Row /\ y.at = at /\ y.kind = req[q].kind /\ y.rep = req[q].rep
      /\ y.tok = req[q].tok /\ y.res = req[q].res /\ y.alone = req[q].alone
  BY <1>1 DEF Row, Steps
<1> HIDE DEF y
<1>3. /\ req' \in [Requests -> Row] /\ req'[q] = y
      /\ \A p \in Requests : p # q => req'[p] = req[p]
  BY <1>1, <1>2 DEF y
<1>4. Minted' = Minted
  BY DEF Minted
<1>5. \A r \in Replicas, t \in Tokens :
        Waiters(r, t) \subseteq Waiters(r, t)'
        /\ (at = "waiting" /\ r = req[q].rep /\ t = req[q].tok => q \in Waiters(r, t)')
  BY <1>1, <1>2, <1>3 DEF Waiters, IsAt
<1>6. req[q].rep \in Replicas /\ req[q].tok \in Minted
  BY NilAssumption DEF Typed, TypeOK, Tidy, Open, IsAt
<1>7. TypeOK'
  <2>1. /\ jar' \in [access : BOOLEAN, refresh : Tokens \cup {Nil}, mfa : BOOLEAN]
        /\ hist' \in History /\ valid' \subseteq Minted'
        /\ recent' \in [Replicas -> [Tokens -> Tokens \cup {Nil, None}]]
    BY <1>4 DEF Typed, TypeOK, History
  <2>2. \A r \in Replicas, t \in Tokens : inflight'[r][t] # "none" => Waiters(r, t)' # {}
    BY <1>5 DEF Typed, TypeOK
  <2>3. ASSUME NEW p \in Requests
        PROVE  /\ (req'[p].at # "idle") => req'[p].rep \in Replicas
               /\ req'[p].at \in {"refresh", "waiting", "retry"} => req'[p].tok \in Tokens
               /\ req'[p].at = "waiting" => inflight'[req'[p].rep][req'[p].tok] # "none"
               /\ req'[p].at = "retry" => req'[p].res \in Tokens
               /\ req'[p].at = "reply" => req'[p].res \in Cookies
    <3>1. CASE p = q
      BY <1>2, <1>3, <1>6, <3>1
    <3>2. CASE p # q
      BY <1>3, <3>2 DEF Typed, TypeOK, Open, IsAt
    <3> QED
      BY <3>1, <3>2
  <2> QED
    BY <1>3, <2>1, <2>2, <2>3 DEF TypeOK, Row, History, Open, IsAt
<1>8. Tidy'
  BY <1>2, <1>3, <1>4, <1>6 DEF Typed, Tidy
<1> QED
  BY <1>7, <1>8 DEF Typed

LEMMA AnswersTyped ==
  ASSUME Typed, NEW q \in Requests,
         \/ FirstAttempt(q) \/ FetchRejects(q) \/ Retry(q) \/ LoginAsksForCode(q) \/ MfaRefused(q)
  PROVE  Typed'
<1>1. req \in [Requests -> Row]
  BY DEF Typed, TypeOK, Row
<1>0. \A c \in {"keep", "clear", "mfa", "clear_mfa"} : c \in Cookies /\ c \notin Tokens
  BY NilAssumption DEF Cookies, Orders
<1>2. CASE FirstAttempt(q)
  <2>1. req[q].at = "first" /\ UNCHANGED <<jar, valid, inflight, recent, hist>> /\ SameSessions
    BY <1>2, HistoryKept DEF FirstAttempt, IsAt, Typed
  <2>2. CASE ~ Unauthorized(req[q])
    <3>1. req' = [req EXCEPT ![q] = Reply(req[q], "keep")]
      BY <1>2, <2>2 DEF FirstAttempt
    <3> QED
      BY <1>1, <2>1, <3>1, <1>0, AnswerTyped
  <2>3. CASE Unauthorized(req[q]) /\ req[q].tok = Nil
    <3>1. req' = [req EXCEPT ![q] = Reply(req[q], "clear")]
      BY <1>2, <2>3 DEF FirstAttempt
    <3> QED
      BY <1>1, <2>1, <3>1, <1>0, AnswerTyped
  <2>4. CASE Unauthorized(req[q]) /\ req[q].tok # Nil
    <3>1. req' = [req EXCEPT ![q] = [req[q] EXCEPT !.at = "refresh"]]
      BY <1>2, <2>4 DEF FirstAttempt
    <3>2. req[q].tok \in Tokens
      BY <1>1, <2>4 DEF Row
    <3>3. inflight' \in [Replicas -> [Tokens -> {"none", "sent", "found"}]]
      BY <2>1 DEF Typed, TypeOK
    <3> QED
      BY <2>1, <3>1, <3>2, <3>3, MoveTyped
  <2> QED
    BY <2>2, <2>3, <2>4
<1>3. CASE FetchRejects(q)
  <2>1. /\ req[q].at \notin {"idle", "waiting"} /\ UNCHANGED <<jar, valid, inflight, recent>> /\ SameSessions
        /\ req' = [req EXCEPT ![q] = Reply(req[q], "keep")]
    BY <1>3, HistoryKept DEF FetchRejects, IsAt, Typed
  <2> QED
    BY <1>1, <2>1, <1>0, AnswerTyped
<1>4. CASE Retry(q)
  <2>1. /\ req[q].at = "retry" /\ UNCHANGED <<jar, valid, inflight, recent>> /\ SameSessions
        /\ req' = [req EXCEPT ![q] = Reply(req[q], req[q].res)]
    BY <1>4, HistoryKept DEF Retry, IsAt, Typed
  <2>2. req[q].res \in Tokens /\ req[q].res \in Minted /\ req[q].res \in Cookies
    BY <2>1 DEF Typed, TypeOK, Tidy, IsAt, Cookies
  <2> QED
    BY <2>1, <2>2, AnswerTyped
<1>5. CASE LoginAsksForCode(q)
  <2>1. /\ req[q].at = "upstream" /\ UNCHANGED <<jar, valid, inflight, recent>> /\ SameSessions
        /\ req' = [req EXCEPT ![q] = Reply(req[q], "mfa")]
    BY <1>5, HistoryKept DEF LoginAsksForCode, IsAt, Typed
  <2> QED
    BY <1>1, <2>1, <1>0, AnswerTyped
<1>6. CASE MfaRefused(q)
  <2>1. req[q].at = "upstream" /\ UNCHANGED <<jar, valid, inflight, recent>> /\ SameSessions
    BY <1>6, HistoryKept DEF MfaRefused, IsAt, Typed
  <2>2. \/ req' = [req EXCEPT ![q] = Reply(req[q], "clear_mfa")]
        \/ req' = [req EXCEPT ![q] = Reply(req[q], "keep")]
    BY <1>6 DEF MfaRefused
  <2> QED
    BY <1>1, <1>0, <2>1, <2>2, AnswerTyped
<1> QED
  BY <1>2, <1>3, <1>4, <1>5, <1>6

LEMMA EnterTyped ==
  ASSUME Typed, NEW q \in Requests, Enter(q)
  PROVE  Typed'
<1> DEFINE r == req[q].rep
           t == req[q].tok
<1>1. /\ req \in [Requests -> Row] /\ req[q].at = "refresh" /\ r \in Replicas /\ t \in Tokens
      /\ req[q].kind \in Proxied \cup {"refresh"}
      /\ UNCHANGED <<jar, valid, recent, hist>>
      /\ inflight \in [Replicas -> [Tokens -> {"none", "sent", "found"}]]
  BY DEF Enter, Typed, TypeOK, Tidy, Row, IsAt, Open
<1>2. CASE recent[r][t] # None
  <2> DEFINE c == recent[r][t]
             y == Resume(req[q], c)
  <2>1. c \in Tokens \cup {Nil} /\ (c \in Tokens => c \in Minted)
    BY <1>1, <1>2 DEF Typed, TypeOK, Tidy
  <2>2. req' = [req EXCEPT ![q] = y] /\ UNCHANGED inflight
    BY <1>2 DEF Enter
  <2> HIDE DEF c
  <2>3. /\ y \in Row /\ y.tok = t /\ y.kind = req[q].kind /\ y.rep = r /\ y.alone = req[q].alone
        /\ y.at \in {"reply", "retry"} /\ y.res \in Cookies
        /\ (y.at = "retry" => y.res \in Tokens) /\ (y.res \in Tokens => y.res \in Minted)
    BY <1>1, <2>1, ResumeRow, NilAssumption DEF Cookies, Orders
  <2> HIDE DEF y
  <2>4. /\ req' \in [Requests -> Row] /\ req'[q] = y
        /\ \A p \in Requests : p # q => req'[p] = req[p]
    BY <1>1, <2>2, <2>3
  <2>5. Minted' = Minted /\ \A u \in Replicas, v \in Tokens : Waiters(u, v)' = Waiters(u, v)
    BY <1>1, <2>3, <2>4 DEF Minted, Waiters, IsAt
  <2>6. TypeOK'
    BY <1>1, <2>2, <2>3, <2>4, <2>5 DEF Typed, TypeOK, Row, Open, IsAt
  <2>7. Tidy'
    BY <1>1, <2>2, <2>3, <2>4, <2>5 DEF Typed, Tidy
  <2> QED
    BY <2>6, <2>7 DEF Typed
<1>3. CASE recent[r][t] = None
  <2>1. /\ req' = [req EXCEPT ![q].at = "waiting"]
        /\ IF inflight[r][t] = "none" THEN inflight' = [inflight EXCEPT ![r][t] = "sent"] ELSE UNCHANGED inflight
    BY <1>3 DEF Enter, Wait, StartFetch
  <2>2. /\ inflight' \in [Replicas -> [Tokens -> {"none", "sent", "found"}]]
        /\ inflight'[r][t] # "none"
        /\ \A u \in Replicas, v \in Tokens : inflight[u][v] # "none" => inflight'[u][v] # "none"
        /\ \A u \in Replicas, v \in Tokens :
             inflight'[u][v] # "none" => inflight[u][v] # "none" \/ (u = r /\ v = t)
    BY <1>1, <2>1
  <2>3. /\ inflight'[req[q].rep][req[q].tok] # "none"
        /\ \A u \in Replicas, v \in Tokens :
             inflight'[u][v] # "none" => \/ inflight[u][v] # "none"
                                         \/ u = req[q].rep /\ v = req[q].tok /\ "waiting" = "waiting"
        /\ req[q].at \in {"first", "refresh"} /\ req[q].tok \in Tokens
        /\ "waiting" \in {"refresh", "waiting"}
    BY <1>1, <2>2
  <2>4. /\ inflight' \in [Replicas -> [Tokens -> {"none", "sent", "found"}]]
        /\ \A u \in Replicas, v \in Tokens : inflight[u][v] # "none" => inflight'[u][v] # "none"
        /\ req' = [req EXCEPT ![q].at = "waiting"]
        /\ UNCHANGED <<jar, valid, recent, hist>>
    BY <1>1, <2>1, <2>2
  <2> HIDE DEF r, t
  <2> QED
    BY <2>3, <2>4, MoveTyped
<1> QED
  BY <1>2, <1>3

\* A token is issued to the session s: hist' says so.
Issued(n, s) ==
  /\ hist' \in History
  /\ hist'.session = [hist.session EXCEPT ![n] = s]
  /\ hist'.ended = hist.ended /\ hist'.raced = hist.raced /\ (hist'.steady => hist.steady)

LEMMA IssuedByRefresh ==
  ASSUME Typed, NEW n \in Tokens, NEW s \in Tokens,
         \/ hist' = [hist EXCEPT !.session[n] = s]
         \/ hist' = [[hist EXCEPT !.session[n] = s] EXCEPT !.steady = FALSE]
  PROVE  Issued(n, s)
<1>1. hist \in History
  BY DEF Typed, TypeOK, History
<1> DEFINE h == [hist EXCEPT !.session[n] = s]
<1>2. /\ h \in History /\ h.session = [hist.session EXCEPT ![n] = s]
      /\ h.ended = hist.ended /\ h.raced = hist.raced /\ h.steady = hist.steady
  BY <1>1 DEF History
<1>3. hist' = h \/ hist' = [h EXCEPT !.steady = FALSE]
  OBVIOUS
<1> HIDE DEF h
<1> QED
  BY <1>2, <1>3 DEF Issued, History

LEMMA IssuedMinted ==
  ASSUME Typed, NEW n \in Tokens, NEW s \in Tokens, Issued(n, s), s \in Minted \cup {n}
  PROVE  /\ Minted' = Minted \cup {n}
         /\ \A t \in Minted' : hist'.session[t] \in Minted'
         /\ \A t \in Tokens : t # n => hist'.session[t] = hist.session[t]
         /\ hist'.session[n] = s
<1>1. /\ \A t \in Tokens : hist'.session[t] = IF t = n THEN s ELSE hist.session[t]
      /\ hist.session \in [Tokens -> Tokens \cup {Nil}]
  BY DEF Issued, Typed, TypeOK
<1>2. s # Nil
  BY NilAssumption
<1>3. Minted' = Minted \cup {n}
  BY <1>1, <1>2 DEF Minted
<1> QED
  BY <1>1, <1>3 DEF Typed, Tidy, Minted

\* The promise of a refresh settles.
LEMMA SettleTyped ==
  ASSUME Typed, NEW r \in Replicas, NEW t \in Tokens, NEW c \in Tokens \cup {Nil},
         inflight[r][t] # "none", Settle(r, t, c),
         hist' \in History, hist'.ended = hist.ended,
         Minted \subseteq Minted', \A u \in Minted' : hist'.session[u] \in Minted',
         valid' \subseteq Minted', c \in Tokens => c \in Minted'
  PROVE  Typed'
<1>1. /\ req \in [Requests -> Row] /\ UNCHANGED jar
      /\ inflight' = [inflight EXCEPT ![r][t] = "none"] /\ recent' = [recent EXCEPT ![r][t] = c]
      /\ inflight \in [Replicas -> [Tokens -> {"none", "sent", "found"}]]
      /\ recent \in [Replicas -> [Tokens -> Tokens \cup {Nil, None}]]
  BY DEF Settle, Typed, TypeOK, Row
<1>2. /\ inflight' \in [Replicas -> [Tokens -> {"none", "sent", "found"}]]
      /\ recent' \in [Replicas -> [Tokens -> Tokens \cup {Nil, None}]]
      /\ inflight'[r][t] = "none" /\ recent'[r][t] = c
      /\ \A u \in Replicas, v \in Tokens :
           u # r \/ v # t => inflight'[u][v] = inflight[u][v] /\ recent'[u][v] = recent[u][v]
  BY <1>1
<1>3. ASSUME NEW p \in Waiters(r, t)
      PROVE  /\ req'[p] \in Row /\ req[p].at = "waiting" /\ req[p].rep = r /\ req[p].tok = t
             /\ req'[p].tok = t /\ req'[p].kind = req[p].kind /\ req'[p].rep = r
             /\ req'[p].at \in {"reply", "retry"} /\ req'[p].res \in Cookies
             /\ (req'[p].at = "retry" => req'[p].res \in Tokens) /\ (req'[p].res \in Tokens => req'[p].res = c)
  <2>1. p \in Requests /\ req[p] \in Row /\ req[p].at = "waiting" /\ req[p].rep = r /\ req[p].tok = t
    BY <1>1 DEF Waiters, IsAt
  <2>2. req'[p] = Resume(req[p], c)
    BY <2>1, <1>3 DEF Settle
  <2> QED
    BY <2>1, <2>2, ResumeRow, NilAssumption DEF Cookies, Orders
<1>4. ASSUME NEW p \in Requests, p \notin Waiters(r, t)
      PROVE  req'[p] = req[p]
  BY <1>4 DEF Settle
<1>5. req' \in [Requests -> Row]
  <2>1. req' = [p \in Requests |-> req'[p]]
    BY DEF Settle
  <2>2. \A p \in Requests : req'[p] \in Row
    BY <1>1, <1>3, <1>4
  <2> QED
    BY <2>1, <2>2
<1>6. t \in Minted
  BY DEF Typed, Tidy
<1>7. \A u \in Replicas, v \in Tokens : (u # r \/ v # t) => Waiters(u, v) \subseteq Waiters(u, v)'
  BY <1>3, <1>4 DEF Waiters, IsAt
<1>8. TypeOK'
  <2>1. ASSUME NEW p \in Requests
        PROVE  /\ (req'[p].at # "idle") => req'[p].rep \in Replicas
               /\ req'[p].at \in {"refresh", "waiting", "retry"} => req'[p].tok \in Tokens
               /\ req'[p].at = "waiting" => inflight'[req'[p].rep][req'[p].tok] # "none"
               /\ req'[p].at = "retry" => req'[p].res \in Tokens
               /\ req'[p].at = "reply" => req'[p].res \in Cookies
    <3>1. CASE p \in Waiters(r, t)
      BY <1>3, <3>1
    <3>2. CASE p \notin Waiters(r, t)
      <4>1. req'[p] = req[p]
        BY <1>4, <3>2
      <4>2. req[p].at = "waiting" => req[p].rep # r \/ req[p].tok # t
        BY <3>2 DEF Waiters, IsAt
      <4> QED
        BY <1>2, <4>1, <4>2 DEF Typed, TypeOK, Open, IsAt
    <3> QED
      BY <3>1, <3>2
  <2>2. \A u \in Replicas, v \in Tokens : inflight'[u][v] # "none" => Waiters(u, v)' # {}
    <3> TAKE u \in Replicas, v \in Tokens
    <3>1. inflight'[u][v] # "none" => (u # r \/ v # t) /\ inflight[u][v] # "none"
      BY <1>2
    <3>2. inflight[u][v] # "none" => Waiters(u, v) # {}
      BY DEF Typed, TypeOK
    <3> QED
      BY <1>7, <3>1, <3>2
  <2>3. /\ jar' \in [access : BOOLEAN, refresh : Tokens \cup {Nil}, mfa : BOOLEAN]
        /\ hist' \in History /\ valid' \subseteq Minted'
    BY <1>1 DEF Typed, TypeOK
  <2> QED
    BY <1>2, <1>5, <2>1, <2>2, <2>3 DEF TypeOK, Row, History, Open, IsAt
<1>9. Tidy'
  <2>1. ASSUME NEW p \in Requests
        PROVE  /\ req'[p].tok # Nil => req'[p].tok \in Minted'
               /\ req'[p].res \in Tokens => req'[p].res \in Minted'
               /\ req'[p].at \notin {"retry", "reply"} => req'[p].res = Nil
               /\ req'[p].at = "idle" => req'[p].tok = Nil
               /\ req'[p].at \in {"first", "refresh", "waiting", "retry"} => req'[p].kind \in Proxied \cup {"refresh"}
               /\ req'[p].kind = "logout" => req'[p].tok \in Tokens
    <3>1. CASE p \in Waiters(r, t)
      <4>1. p \in Requests /\ req[p].at = "waiting" => req[p].kind \in Proxied \cup {"refresh"}
        BY DEF Typed, Tidy
      <4> QED
        BY <1>3, <1>6, <3>1, <4>1
    <3>2. CASE p \notin Waiters(r, t)
      BY <1>4, <3>2 DEF Typed, Tidy
    <3> QED
      BY <3>1, <3>2
  <2>2. \A u \in Replicas, v \in Tokens :
          /\ recent'[u][v] # None => v \in Minted'
          /\ recent'[u][v] \in Tokens => recent'[u][v] \in Minted'
          /\ inflight'[u][v] # "none" => v \in Minted'
    BY <1>2, <1>6 DEF Typed, Tidy
  <2> QED
    BY <1>1, <2>1, <2>2 DEF Typed, Tidy
<1> QED
  BY <1>8, <1>9 DEF Typed

LEMMA UpstreamTyped ==
  ASSUME Typed, NEW r \in Replicas, NEW t \in Tokens, Upstream(r, t) \/ RefreshFails(r, t)
  PROVE  Typed'
<1>1. /\ hist \in History /\ valid \subseteq Minted /\ Minted \subseteq Tokens
      /\ \A u \in Minted : hist.session[u] \in Minted
      /\ inflight \in [Replicas -> [Tokens -> {"none", "sent", "found"}]]
      /\ (inflight[r][t] # "none" => t \in Minted)
  BY DEF Typed, TypeOK, Tidy, History, Minted
\* it fails without a new token
<1>2. ASSUME inflight[r][t] # "none", Settle(r, t, Nil), SameSessions, valid' \subseteq valid
      PROVE  Typed'
  <2>1. Minted' = Minted /\ (\A u \in Minted' : hist'.session[u] \in Minted') /\ valid' \subseteq Minted'
    BY <1>1, <1>2 DEF SameSessions, Minted
  <2> QED
    BY <1>2, <2>1, SettleTyped, NilAssumption DEF SameSessions
\* it issues n
<1>3. ASSUME NEW n \in Tokens, NEW c \in {n, Nil}, inflight[r][t] = "found", Settle(r, t, c),
             Issued(n, hist.session[t]), valid' = (valid \ {t}) \cup {n}
      PROVE  Typed'
  <2>1. hist.session[t] \in Minted /\ hist.session[t] \in Tokens
    BY <1>1, <1>3
  <2>2. /\ Minted' = Minted \cup {n} /\ \A u \in Minted' : hist'.session[u] \in Minted'
    BY <1>3, <2>1, IssuedMinted
  <2>3. valid' \subseteq Minted' /\ Minted \subseteq Minted' /\ (c \in Tokens => c \in Minted')
    BY <1>1, <1>3, <2>2, NilAssumption
  <2>4. hist' \in History /\ hist'.ended = hist.ended /\ inflight[r][t] # "none" /\ c \in Tokens \cup {Nil}
    BY <1>3 DEF Issued
  <2> QED
    BY <1>3, <2>2, <2>3, <2>4, SettleTyped
<1>4. CASE LookUp(r, t) /\ t \in valid
  <2>1. /\ UNCHANGED <<jar, valid, recent, req, hist>> /\ inflight' = [inflight EXCEPT ![r][t] = "found"]
        /\ inflight[r][t] = "sent"
    BY <1>4 DEF LookUp
  <2>2. /\ inflight' \in [Replicas -> [Tokens -> {"none", "sent", "found"}]]
        /\ \A u \in Replicas, v \in Tokens : inflight'[u][v] = "none" <=> inflight[u][v] = "none"
    BY <1>1, <2>1
  <2>3. Minted' = Minted /\ \A u \in Replicas, v \in Tokens : Waiters(u, v)' = Waiters(u, v)
    BY <2>1 DEF Minted, Waiters, IsAt
  <2>4. \A p \in Requests : req[p].at = "waiting" => req[p].rep \in Replicas /\ req[p].tok \in Tokens
    BY DEF Typed, TypeOK, Open, IsAt
  <2>5. TypeOK'
    BY <2>1, <2>2, <2>3, <2>4 DEF Typed, TypeOK, Open, IsAt
  <2>6. Tidy'
    BY <2>1, <2>2, <2>3 DEF Typed, Tidy
  <2> QED
    BY <2>5, <2>6 DEF Typed
<1>5. CASE LookUp(r, t) /\ t \notin valid
  <2>1. inflight[r][t] # "none" /\ Settle(r, t, Nil) /\ SameSessions /\ valid' \subseteq valid
    BY <1>5, HistoryKept DEF LookUp, Typed
  <2> QED
    BY <1>2, <2>1
<1>6. ASSUME NEW n \in Tokens, Rotate(r, t, n)
      PROVE  Typed'
  <2>1. inflight[r][t] = "found" /\ Settle(r, t, n) /\ valid' = (valid \ {t}) \cup {n} /\ hist.session[t] \in Tokens
    BY <1>1, <1>6 DEF Rotate
  <2>2. Issued(n, hist.session[t])
    BY <1>6, <2>1, IssuedByRefresh DEF Rotate, Derived
  <2> QED
    BY <1>3, <2>1, <2>2
<1>7. CASE RefreshFails(r, t)
  <2>1. Settle(r, t, Nil)
    BY <1>7 DEF RefreshFails
  <2>2. CASE inflight[r][t] = "sent" /\ Upset /\ UNCHANGED valid
    BY <1>2, <2>1, <2>2, HistoryKept DEF Typed
  <2>3. ASSUME NEW n \in Tokens, inflight[r][t] = "found", Fresh(n), valid' = (valid \ {t}) \cup {n},
               hist' = [Derived(n, t) EXCEPT !.steady = FALSE]
        PROVE  Typed'
    <3>1. hist.session[t] \in Tokens
      BY <1>1, <2>3
    <3>2. Issued(n, hist.session[t])
      BY <2>3, <3>1, IssuedByRefresh DEF Derived
    <3> QED
      BY <1>3, <2>1, <2>3, <3>2
  <2>4. CASE inflight[r][t] = "found" /\ valid' = valid \ {t} /\ Upset
    BY <1>2, <2>1, <2>4, HistoryKept DEF Typed
  <2> QED
    BY <1>7, <2>2, <2>3, <2>4 DEF RefreshFails
<1> QED
  BY <1>4, <1>5, <1>6, <1>7 DEF Upstream, LookUp

LEMMA SessionTyped ==
  ASSUME Typed, NEW q \in Requests,
         Logout(q) \/ \E n \in Tokens : Login(q, n) \/ MfaVerify(q, n)
  PROVE  Typed'
<1>1. /\ req \in [Requests -> Row] /\ req[q] \in Row /\ hist \in History
      /\ valid \subseteq Minted /\ Minted \subseteq Tokens
      /\ req[q].at = "upstream" /\ UNCHANGED <<jar, inflight, recent>>
  BY DEF Typed, TypeOK, Row, History, Minted, Logout, Login, MfaVerify, IsAt
<1>2. ASSUME NEW c \in Cookies, req' = [req EXCEPT ![q] = Reply(req[q], c)], c \in Tokens => c \in Minted',
             hist' \in History, Minted \subseteq Minted', valid' \subseteq Minted', hist'.ended \subseteq Minted',
             \A u \in Minted' : hist'.session[u] \in Minted'
      PROVE  Typed'
  <2> DEFINE y == Reply(req[q], c)
  <2>1. y \in Row /\ y.at = "reply" /\ y.res = c /\ y.tok = req[q].tok /\ y.kind = req[q].kind /\ y.rep = req[q].rep
    BY <1>1, ReplyRow
  <2> HIDE DEF y
  <2>2. /\ req' \in [Requests -> Row] /\ req'[q] = y
        /\ \A p \in Requests : p # q => req'[p] = req[p]
    BY <1>1, <1>2, <2>1 DEF y
  <2>3. \A u \in Replicas, t \in Tokens : Waiters(u, t)' = Waiters(u, t)
    BY <1>1, <2>1, <2>2 DEF Waiters, IsAt
  <2>4. TypeOK'
    BY <1>1, <1>2, <2>1, <2>2, <2>3 DEF Typed, TypeOK, Row, History, Open, IsAt
  <2>5. Tidy'
    BY <1>1, <1>2, <2>1, <2>2 DEF Typed, Tidy
  <2> QED
    BY <2>4, <2>5 DEF Typed
<1>3. ASSUME NEW n \in Tokens, Login(q, n) \/ MfaVerify(q, n)
      PROVE  Typed'
  <2>1. /\ req' = [req EXCEPT ![q] = Reply(req[q], n)] /\ valid' = valid \cup {n} /\ n \in Cookies
        /\ hist' = [hist EXCEPT !.session[n] = n]
    BY <1>3 DEF Login, MfaVerify, NewSession, Cookies
  <2>2. Issued(n, n)
    BY <2>1, IssuedByRefresh
  <2>3. Minted' = Minted \cup {n} /\ \A u \in Minted' : hist'.session[u] \in Minted'
    BY <2>2, IssuedMinted
  <2>4. hist' \in History /\ hist'.ended \subseteq Minted'
    BY <2>2, <2>3 DEF Issued, Typed, Tidy
  <2> QED
    BY <1>1, <1>2, <2>1, <2>3, <2>4
<1>4. CASE Logout(q)
  <2> DEFINE s == hist.session[req[q].tok]
             h == [hist EXCEPT !.ended = @ \cup {s},
                               !.raced = IF ~ req[q].alone THEN @ \cup {s} ELSE @]
  <2>1. s \in Minted
    BY <1>4 DEF Logout, Typed, Tidy, TypeOK, IsAt
  <2>2. h \in History /\ h.session = hist.session /\ h.ended = hist.ended \cup {s}
    BY <1>1, <2>1 DEF History
  <2>3. /\ hist' = h \/ hist' = [h EXCEPT !.steady = FALSE]
        /\ valid' \subseteq valid
        /\ req' = [req EXCEPT ![q] = Reply(req[q], "clear")]
    BY <1>4 DEF Logout
  <2> HIDE DEF h
  <2>4. hist' \in History /\ hist'.session = hist.session /\ hist'.ended = hist.ended \cup {s}
    BY <2>2, <2>3 DEF History
  <2>5. Minted' = Minted
    BY <2>4 DEF Minted
  <2>6. "clear" \in Cookies /\ "clear" \notin Tokens
    BY NilAssumption DEF Cookies, Orders
  <2>7. hist'.ended \subseteq Minted' /\ (\A u \in Minted' : hist'.session[u] \in Minted') /\ valid' \subseteq Minted'
    BY <1>1, <2>1, <2>3, <2>4, <2>5 DEF Typed, Tidy
  <2> QED
    BY <1>2, <2>3, <2>4, <2>5, <2>6, <2>7
<1> QED
  BY <1>3, <1>4

Jar == [access : BOOLEAN, refresh : Tokens \cup {Nil}, mfa : BOOLEAN]

LEMMA ApplyJar ==
  ASSUME jar \in Jar, NEW x \in Row
  PROVE  /\ Apply(x) \in Jar
         /\ x.res \in Tokens => Apply(x).refresh = x.res
         /\ x.res = "clear" => Apply(x).refresh = Nil
         /\ x.res \notin Tokens \cup {"clear"} => Apply(x).refresh = jar.refresh
<1>1. "clear" \notin Tokens /\ "mfa" \notin Tokens /\ "clear_mfa" \notin Tokens
  BY NilAssumption DEF Orders
<1>2. CASE x.res \in Tokens
  <2> DEFINE b == IF x.kind = "mfa" THEN FALSE ELSE jar.mfa
  <2>1. b \in BOOLEAN
    BY DEF Jar
  <2>2. Apply(x) = [jar EXCEPT !.access = TRUE, !.refresh = x.res, !.mfa = b]
    BY <1>1, <1>2 DEF Apply
  <2> HIDE DEF b
  <2> QED
    BY <1>1, <1>2, <2>1, <2>2 DEF Jar
<1>3. CASE x.res = "clear"
  <2>1. Apply(x) = [jar EXCEPT !.access = FALSE, !.refresh = Nil]
    BY <1>1, <1>3 DEF Apply
  <2> QED
    BY <1>1, <1>3, <2>1 DEF Jar
<1>4. CASE x.res \notin Tokens \cup {"clear"}
  <2>1. Apply(x) \in {[jar EXCEPT !.mfa = TRUE], [jar EXCEPT !.mfa = FALSE], jar}
    BY <1>4 DEF Apply
  <2> QED
    BY <1>4, <2>1 DEF Jar
<1> QED
  BY <1>2, <1>3, <1>4

LEMMA DeliverTyped ==
  ASSUME Typed, NEW q \in Requests, Deliver(q)
  PROVE  Typed'
<1>1. /\ req \in [Requests -> Row] /\ req[q].at = "reply"
      /\ req' = [req EXCEPT ![q] = Idle] /\ UNCHANGED <<valid, inflight, recent>>
      /\ Idle \in Row /\ Idle.at = "idle" /\ Idle.tok = Nil /\ Idle.res = Nil /\ Idle.kind = "page"
  BY DEF Deliver, Typed, TypeOK, Row, IsAt, Idle, Steps, AllKinds, Proxied
<1>2. /\ req' \in [Requests -> Row] /\ req'[q] = Idle
      /\ \A p \in Requests : p # q => req'[p] = req[p]
  BY <1>1
<1>3. SameSessions
  <2>1. CASE Upset
    BY <2>1, HistoryKept DEF Typed
  <2>2. CASE hist' = [hist EXCEPT !.steady = hist.steady /\ ~ Overtaken(req[q])]
    <3> DEFINE b == hist.steady /\ ~ Overtaken(req[q])
    <3>1. b \in BOOLEAN /\ (b => hist.steady) /\ hist' = [hist EXCEPT !.steady = b]
      BY <2>2
    <3>2. hist \in History
      BY DEF Typed, TypeOK, History
    <3> HIDE DEF b
    <3> QED
      BY <3>1, <3>2 DEF SameSessions, History
  <2> QED
    BY <2>1, <2>2 DEF Deliver
<1>4. Minted' = Minted
  BY <1>3 DEF SameSessions, Minted
<1>5. jar' \in [access : BOOLEAN, refresh : Tokens \cup {Nil}, mfa : BOOLEAN]
      /\ (jar'.refresh # Nil => jar'.refresh = jar.refresh \/ (jar'.refresh = req[q].res /\ req[q].res \in Tokens))
  <2>1. jar \in Jar /\ req[q] \in Row /\ (jar' = jar \/ jar' = Apply(req[q]))
    BY <1>1 DEF Deliver, Typed, TypeOK, Jar
  <2>2. /\ Apply(req[q]) \in Jar
        /\ Apply(req[q]).refresh \in {Nil, jar.refresh} \/ (Apply(req[q]).refresh = req[q].res /\ req[q].res \in Tokens)
    BY <2>1, ApplyJar
  <2>3. jar' \in Jar
    BY <2>1, <2>2
  <2>4. jar'.refresh \in {Nil, jar.refresh} \/ (jar'.refresh = req[q].res /\ req[q].res \in Tokens)
    BY <2>1, <2>2
  <2> QED
    BY <2>3, <2>4 DEF Jar
<1>6. \A r \in Replicas, t \in Tokens : Waiters(r, t)' = Waiters(r, t)
  BY <1>1, <1>2 DEF Waiters, IsAt
<1>7. TypeOK'
  BY <1>1, <1>2, <1>3, <1>4, <1>5, <1>6 DEF Typed, TypeOK, Row, History, SameSessions, Open, IsAt
<1>8. Tidy'
  <2>1. ASSUME NEW p \in Requests
        PROVE  /\ req'[p].tok # Nil => req'[p].tok \in Minted'
               /\ req'[p].res \in Tokens => req'[p].res \in Minted'
               /\ req'[p].at \notin {"retry", "reply"} => req'[p].res = Nil
               /\ req'[p].at = "idle" => req'[p].tok = Nil
               /\ req'[p].at \in {"first", "refresh", "waiting", "retry"} => req'[p].kind \in Proxied \cup {"refresh"}
               /\ req'[p].kind = "logout" => req'[p].tok \in Tokens
    <3>1. CASE p = q
      BY <1>1, <1>2, <3>1, NilAssumption
    <3>2. CASE p # q
      BY <1>2, <1>4, <3>2 DEF Typed, Tidy
    <3> QED
      BY <3>1, <3>2
  <2>2. jar'.refresh # Nil => jar'.refresh \in Minted'
    BY <1>4, <1>5 DEF Typed, Tidy
  <2> QED
    BY <1>1, <1>3, <1>4, <2>1, <2>2 DEF Typed, Tidy, SameSessions
<1> QED
  BY <1>7, <1>8 DEF Typed

LEMMA TimeTyped ==
  ASSUME Typed,
         \/ AccessExpires \/ UNCHANGED vars
         \/ \E r \in Replicas : Restart(r) \/ \E t \in Tokens : RecentExpires(r, t)
  PROVE  Typed'
<1>1. /\ SameSessions /\ UNCHANGED <<valid, inflight, req>>
      /\ jar' \in [access : BOOLEAN, refresh : Tokens \cup {Nil}, mfa : BOOLEAN]
      /\ jar'.refresh = jar.refresh
  <2>1. CASE AccessExpires
    BY <2>1, HistoryKept DEF AccessExpires, Typed, TypeOK
  <2>2. CASE UNCHANGED vars
    BY <2>2, HistoryKept DEF vars, Typed, TypeOK
  <2>3. CASE \E r \in Replicas : Restart(r) \/ \E t \in Tokens : RecentExpires(r, t)
    BY <2>3, HistoryKept DEF Restart, RecentExpires, Typed, TypeOK
  <2> QED
    BY <2>1, <2>2, <2>3
<1>2. /\ recent' \in [Replicas -> [Tokens -> Tokens \cup {Nil, None}]]
      /\ \A r \in Replicas, t \in Tokens : recent'[r][t] = None \/ recent'[r][t] = recent[r][t]
  <2>1. recent \in [Replicas -> [Tokens -> Tokens \cup {Nil, None}]]
    BY DEF Typed, TypeOK
  <2>2. CASE AccessExpires \/ UNCHANGED vars
    BY <2>1, <2>2 DEF AccessExpires, vars
  <2>3. ASSUME NEW r \in Replicas, Restart(r)
        PROVE  <1>2
    BY <2>1, <2>3 DEF Restart
  <2>4. ASSUME NEW r \in Replicas, NEW t \in Tokens, RecentExpires(r, t)
        PROVE  <1>2
    BY <2>1, <2>4 DEF RecentExpires
  <2> QED
    BY <2>2, <2>3, <2>4
<1>3. Minted' = Minted /\ \A r \in Replicas, t \in Tokens : Waiters(r, t)' = Waiters(r, t)
  BY <1>1 DEF SameSessions, Minted, Waiters, IsAt
<1>4. TypeOK'
  BY <1>1, <1>2, <1>3 DEF Typed, TypeOK, History, SameSessions, Open, IsAt
<1>5. Tidy'
  BY <1>1, <1>2, <1>3, NilAssumption DEF Typed, Tidy, SameSessions
<1> QED
  BY <1>4, <1>5 DEF Typed

LEMMA TypedStep == Typed /\ [Next]_vars => Typed'
<1> SUFFICES ASSUME Typed, [Next]_vars PROVE Typed'
  OBVIOUS
<1>1. ASSUME NEW q \in Requests, \/ \E kind \in AllKinds, r \in Replicas : Send(q, kind, r)
                                 \/ Handle(q) \/ FetchRejects(q)
      PROVE  Typed'
  BY <1>1, SendTyped, AnswersTyped, EnterTyped, SessionTyped, DeliverTyped DEF Handle
<1>2. ASSUME NEW r \in Replicas,
             \/ \E t \in Tokens : Upstream(r, t) \/ RefreshFails(r, t) \/ RecentExpires(r, t)
             \/ Restart(r)
      PROVE  Typed'
  BY <1>2, UpstreamTyped, TimeTyped
<1>3. CASE AccessExpires \/ UNCHANGED vars
  BY <1>3, TimeTyped
<1> QED
  BY <1>1, <1>2, <1>3 DEF Next

-----------------------------------------------------------------------------
(* What holds with one replica as long as the run is steady. *)

OnlyOne == \A r, s \in Replicas : r = s

Alive(t) == t \in valid \/ hist.session[t] \in hist.ended

\* q brings the first token of a session, or a token n for its own token t
Enters(q) == req[q].kind \in {"login", "mfa"}
Carries(q, t, n) == ~ Enters(q) /\ req[q].tok = t /\ req[q].res = n

Used(n) == n \notin valid \/ \E q \in Requests : req[q].tok = n

\* n is known as the successor of t
Link(t, n) == \/ \E r \in Replicas : recent[r][t] = n
              \/ \E q \in Requests : Carries(q, t, n)

\* Once the successor is in use the browser has left the token it replaced.
LinksOK == \A t, n \in Tokens :
  Link(t, n) => /\ t # n /\ t \notin valid /\ hist.session[t] = hist.session[n]
                /\ Used(n) => jar.refresh # t

\* The token of a login is known to nobody before it arrives.
EntersOK == \A q \in Requests, n \in Tokens :
  Enters(q) /\ req[q].res = n =>
    /\ n \in valid /\ jar.refresh # n
    /\ \A p \in Requests : req[p].tok # n /\ (req[p].res = n => p = q)
    /\ \A r \in Replicas, t \in Tokens : recent[r][t] # n

CachedOK == \A r \in Replicas, t \in Tokens : recent[r][t] = Nil => hist.session[t] \in hist.ended

FlightOK == \A r \in Replicas, t \in Tokens :
  /\ inflight[r][t] # "none" => Alive(t)
  /\ inflight[r][t] = "found" =>
       /\ \A u \in valid : hist.session[u] = hist.session[t] => u = t
       /\ \A u \in Tokens : inflight[r][u] = "found" /\ hist.session[u] = hist.session[t] => u = t

GoOK == \A q \in Requests :
  req[q].at \in {"first", "refresh"} /\ req[q].tok # Nil =>
    Alive(req[q].tok) \/ \E r \in Replicas : recent[r][req[q].tok] # None

CarriesOK == \A q \in Requests :
  ~ Enters(q) /\ req[q].res \in Tokens =>
    req[q].tok \in Tokens /\ \E r \in Replicas : recent[r][req[q].tok] # None

JarOK == jar.refresh # Nil =>
  Alive(jar.refresh) \/ \E q \in Requests, n \in Tokens : Carries(q, jar.refresh, n)

OneOK == \A t, u \in valid : hist.session[t] = hist.session[u] => t = u

AloneOK == \A q \in Requests : req[q].at # "idle" /\ req[q].alone =>
  /\ \A p \in Requests : req[p].at # "idle" => p = q
  /\ req[q].kind = "logout" /\ req[q].at = "upstream" => Alive(req[q].tok)

EndedOK == \A t \in Tokens : hist.session[t] \in hist.ended \ hist.raced =>
  t \notin valid /\ \A r \in Replicas : inflight[r][t] # "found"

ExpelsOK == \A q \in Requests : Expels(q) => Ended(q)

Sound == /\ LinksOK /\ EntersOK /\ CachedOK /\ FlightOK /\ GoOK /\ CarriesOK
         /\ JarOK /\ OneOK /\ AloneOK /\ EndedOK /\ ExpelsOK

\* A handler's step that changes nothing but its own row, and perhaps sends a refresh.
LEMMA RowSound ==
  ASSUME Typed, Sound, NEW q \in Requests, NEW y \in Row, req' = [req EXCEPT ![q] = y],
         req[q].at # "idle", y.at \in {"refresh", "waiting", "retry", "reply"},
         y.tok = req[q].tok, y.kind = req[q].kind, y.alone = req[q].alone,
         \/ y.res = req[q].res
         \/ req[q].res \notin Tokens /\ y.res \notin Tokens
         \/ /\ req[q].res \notin Tokens /\ ~ Enters(q) /\ y.tok \in Tokens /\ y.res \in Tokens
            /\ \E r \in Replicas : recent[r][y.tok] = y.res,
         y.at = "refresh" => req[q].at = "first",
         y.at = "reply" /\ y.res = "clear" => Ended(q),
         UNCHANGED <<jar, valid, recent>>, SameSessions,
         \A r \in Replicas, t \in Tokens :
           /\ inflight'[r][t] # "none" => inflight[r][t] # "none" \/ Alive(t)
           /\ inflight'[r][t] = "found" => inflight[r][t] = "found"
  PROVE  Sound'
<1>1. req \in [Requests -> Row] /\ None \notin Tokens
  BY NilAssumption DEF Typed, TypeOK, Row
<1>2. /\ req'[q] = y
      /\ \A p \in Requests : /\ p # q => req'[p] = req[p]
                             /\ req'[p].tok = req[p].tok /\ req'[p].kind = req[p].kind
                             /\ req'[p].alone = req[p].alone
                             /\ req'[p].at = "idle" <=> req[p].at = "idle"
  BY <1>1
<1>3. /\ \A t : Alive(t)' <=> Alive(t)
      /\ \A p \in Requests : Enters(p)' <=> Enters(p)
      /\ \A n : Used(n)' <=> Used(n)
  BY <1>2 DEF Alive, Enters, Used, SameSessions
<1>4. \A p \in Requests, t \in Tokens, n \in Tokens : Carries(p, t, n) => Carries(p, t, n)'
  BY <1>2, <1>3 DEF Carries
<1>5. \A t, n \in Tokens : Link(t, n)' => Link(t, n)
  <2> SUFFICES ASSUME NEW t \in Tokens, NEW n \in Tokens, NEW p \in Requests, Carries(p, t, n)'
               PROVE  Link(t, n)
    BY DEF Link
  <2>1. CASE p = q
    BY <1>2, <1>3, <2>1 DEF Carries, Link
  <2>2. CASE p # q
    BY <1>2, <1>3, <2>2 DEF Carries, Link
  <2> QED
    BY <2>1, <2>2
<1>6. LinksOK'
  BY <1>3, <1>5 DEF Sound, LinksOK, SameSessions
<1>7. EntersOK'
  BY <1>2, <1>3 DEF Sound, EntersOK
<1>8. CachedOK' /\ FlightOK' /\ OneOK' /\ EndedOK'
  BY <1>3 DEF Sound, CachedOK, FlightOK, OneOK, EndedOK, SameSessions
<1>9. GoOK'
  BY <1>2, <1>3 DEF Sound, GoOK
<1>10. CarriesOK'
  BY <1>1, <1>2, <1>3 DEF Sound, CarriesOK
<1>11. JarOK'
  <2>1. jar.refresh # Nil => jar.refresh \in Tokens
    BY DEF Typed, TypeOK
  <2> QED
    BY <1>3, <1>4, <2>1 DEF Sound, JarOK
<1>12. AloneOK'
  BY <1>2, <1>3 DEF Sound, AloneOK
<1>13. ExpelsOK'
  BY <1>2 DEF Sound, ExpelsOK, Expels, Ended, SentIn, IsAt, SameSessions
<1> QED
  BY <1>6, <1>7, <1>8, <1>9, <1>10, <1>11, <1>12, <1>13 DEF Sound

LEMMA AnswersSound ==
  ASSUME Typed, Sound, NEW q \in Requests, hist'.steady,
         FirstAttempt(q) \/ FetchRejects(q) \/ Retry(q) \/ LoginAsksForCode(q) \/ MfaRefused(q)
  PROVE  Sound'
<1>1. /\ req \in [Requests -> Row] /\ req[q] \in Row
      /\ req[q].at \notin {"retry", "reply"} => req[q].res \notin Tokens
      /\ req[q].at = "retry" => req[q].res \in Tokens
  BY NilAssumption DEF Typed, TypeOK, Tidy, Row, IsAt
<1>2. \A c \in {"keep", "clear", "mfa", "clear_mfa"} : c \in Cookies /\ c \notin Tokens
  BY NilAssumption DEF Cookies, Orders
<1>3. ASSUME NEW c \in {"keep", "clear", "mfa", "clear_mfa"}, req' = [req EXCEPT ![q] = Reply(req[q], c)],
             req[q].at \in {"first", "upstream"}, UNCHANGED <<jar, valid, inflight, recent, hist>>,
             c = "clear" => Ended(q)
      PROVE  Sound'
  <2> DEFINE y == Reply(req[q], c)
  <2>1. y \in Row /\ y.at = "reply" /\ y.res = c /\ y.tok = req[q].tok /\ y.kind = req[q].kind /\ y.alone = req[q].alone
    BY <1>1, <1>2, ReplyRow
  <2>2. SameSessions
    BY <1>3, HistoryKept DEF Typed
  <2> HIDE DEF y
  <2>3. req' = [req EXCEPT ![q] = y]
    BY <1>3 DEF y
  <2>4. req[q].res \notin Tokens /\ y.res \notin Tokens
    BY <1>1, <1>2, <1>3, <2>1
  <2>5. /\ req[q].at # "idle" /\ y.at \in {"refresh", "waiting", "retry", "reply"}
        /\ y.at = "refresh" => req[q].at = "first"
        /\ y.at = "reply" /\ y.res = "clear" => Ended(q)
    BY <1>3, <2>1
  <2> QED
    BY <1>3, <2>1, <2>2, <2>3, <2>4, <2>5, RowSound
<1>4. CASE FirstAttempt(q)
  <2>1. req[q].at = "first" /\ UNCHANGED <<jar, valid, inflight, recent, hist>>
    BY <1>4 DEF FirstAttempt, IsAt
  <2>2. CASE ~ Unauthorized(req[q])
    BY <1>3, <1>4, <2>1, <2>2 DEF FirstAttempt
  <2>3. CASE Unauthorized(req[q]) /\ req[q].tok = Nil
    BY <1>3, <1>4, <2>1, <2>3 DEF FirstAttempt, Ended
  <2>4. CASE Unauthorized(req[q]) /\ req[q].tok # Nil
    <3> DEFINE y == [req[q] EXCEPT !.at = "refresh"]
    <3>1. y \in Row /\ y.at = "refresh" /\ y.res = req[q].res /\ y.tok = req[q].tok
          /\ y.kind = req[q].kind /\ y.alone = req[q].alone
      BY <1>1 DEF Row, Steps
    <3>2. req' = [req EXCEPT ![q] = y]
      BY <1>4, <2>4 DEF FirstAttempt
    <3>3. SameSessions
      BY <2>1, HistoryKept DEF Typed
    <3> HIDE DEF y
    <3> QED
      BY <2>1, <3>1, <3>2, <3>3, RowSound
  <2> QED
    BY <2>2, <2>3, <2>4
<1>5. CASE FetchRejects(q)
  BY <1>5, HistoryKept DEF FetchRejects, Typed
<1>6. CASE Retry(q)
  <2> DEFINE y == Reply(req[q], req[q].res)
  <2>1. /\ req[q].at = "retry" /\ UNCHANGED <<jar, valid, inflight, recent, hist>>
        /\ req' = [req EXCEPT ![q] = y] /\ req[q].res \in Tokens
    BY <1>1, <1>6 DEF Retry, IsAt
  <2>2. y \in Row /\ y.at = "reply" /\ y.res = req[q].res /\ y.tok = req[q].tok /\ y.kind = req[q].kind /\ y.alone = req[q].alone
    BY <1>1, <2>1, ReplyRow DEF Cookies
  <2>3. SameSessions
    BY <2>1, HistoryKept DEF Typed
  <2> HIDE DEF y
  <2> QED
    BY <1>2, <2>1, <2>2, <2>3, RowSound
<1>7. CASE LoginAsksForCode(q)
  BY <1>3, <1>7 DEF LoginAsksForCode, IsAt
<1>8. CASE MfaRefused(q)
  BY <1>3, <1>8 DEF MfaRefused, IsAt
<1> QED
  BY <1>4, <1>5, <1>6, <1>7, <1>8

LEMMA EnterSound ==
  ASSUME OnlyOne, Typed, Sound, NEW q \in Requests, Enter(q)
  PROVE  Sound'
<1> DEFINE r == req[q].rep
           t == req[q].tok
<1>1. /\ req \in [Requests -> Row] /\ req[q] \in Row /\ req[q].at = "refresh" /\ r \in Replicas /\ t \in Tokens
      /\ ~ Enters(q) /\ req[q].kind # "logout" /\ req[q].res = Nil
      /\ UNCHANGED <<jar, valid, recent, hist>>
      /\ inflight \in [Replicas -> [Tokens -> {"none", "sent", "found"}]]
      /\ recent \in [Replicas -> [Tokens -> Tokens \cup {Nil, None}]]
  BY DEF Enter, Typed, TypeOK, Tidy, Row, IsAt, Open, Enters, Proxied
<1>2. SameSessions /\ Nil \notin Tokens
  BY <1>1, HistoryKept, NilAssumption DEF Typed
<1>3. CASE recent[r][t] # None
  <2> DEFINE c == recent[r][t]
             y == Resume(req[q], c)
  <2>1. c \in Tokens \cup {Nil}
    BY <1>1, <1>3
  <2>2. req' = [req EXCEPT ![q] = y] /\ UNCHANGED inflight
    BY <1>3 DEF Enter
  <2>3. /\ y \in Row /\ y.tok = t /\ y.kind = req[q].kind /\ y.alone = req[q].alone
        /\ c = Nil => y.at = "reply" /\ y.res = "clear"
        /\ c # Nil => y.at \in {"reply", "retry"} /\ y.res = c
    BY <1>1, <2>1, ResumeRow
  <2>4. "clear" \notin Tokens
    BY NilAssumption DEF Orders
  <2>5. c = Nil => Ended(q)
    BY <1>1 DEF Sound, CachedOK, Ended, SentIn
  <2>6. \/ req[q].res \notin Tokens /\ y.res \notin Tokens
        \/ /\ req[q].res \notin Tokens /\ ~ Enters(q) /\ y.tok \in Tokens /\ y.res \in Tokens
           /\ \E u \in Replicas : recent[u][y.tok] = y.res
    BY <1>1, <1>2, <2>1, <2>3, <2>4
  <2>7. /\ y.at \in {"refresh", "waiting", "retry", "reply"} /\ y.at # "refresh"
        /\ y.at = "reply" /\ y.res = "clear" => Ended(q)
    BY <2>1, <2>3, <2>4, <2>5
  <2> HIDE DEF c, y, t, r
  <2> QED
    BY <1>1, <1>2, <2>2, <2>3, <2>6, <2>7, RowSound DEF t
<1>4. CASE recent[r][t] = None
  <2> DEFINE y == [req[q] EXCEPT !.at = "waiting"]
  <2>1. y \in Row /\ y.at = "waiting" /\ y.res = req[q].res /\ y.tok = req[q].tok
        /\ y.kind = req[q].kind /\ y.alone = req[q].alone
    BY <1>1 DEF Row, Steps
  <2>2. /\ req' = [req EXCEPT ![q] = y]
        /\ IF inflight[r][t] = "none" THEN inflight' = [inflight EXCEPT ![r][t] = "sent"] ELSE UNCHANGED inflight
    BY <1>4 DEF Enter, Wait, StartFetch
  <2>3. \A u \in Replicas : recent[u][t] = None
    BY <1>1, <1>4 DEF OnlyOne
  <2>4. Alive(t)
    BY <1>1, <1>2, <2>3 DEF Sound, GoOK
  <2>5. \A u \in Replicas, v \in Tokens :
          /\ inflight'[u][v] # "none" => inflight[u][v] # "none" \/ Alive(v)
          /\ inflight'[u][v] = "found" => inflight[u][v] = "found"
    BY <1>1, <2>2, <2>4
  <2> HIDE DEF y, t, r
  <2> QED
    BY <1>1, <1>2, <2>1, <2>2, <2>5, RowSound
<1> QED
  BY <1>3, <1>4

LEMMA LookUpSound ==
  ASSUME Typed, Sound, NEW r \in Replicas, NEW t \in Tokens, LookUp(r, t), t \in valid
  PROVE  Sound'
<1>1. /\ UNCHANGED <<jar, valid, recent, req, hist>> /\ inflight' = [inflight EXCEPT ![r][t] = "found"]
      /\ inflight \in [Replicas -> [Tokens -> {"none", "sent", "found"}]]
  BY DEF LookUp, Typed, TypeOK
<1>2. /\ inflight'[r][t] = "found"
      /\ \A u \in Replicas, v \in Tokens : (u # r \/ v # t) => inflight'[u][v] = inflight[u][v]
  BY <1>1
<1>3. FlightOK'
  <2> SUFFICES ASSUME NEW u \in Replicas, NEW v \in Tokens
               PROVE  /\ inflight'[u][v] # "none" => Alive(v)'
                      /\ inflight'[u][v] = "found" =>
                           /\ \A w \in valid' : hist'.session[w] = hist'.session[v] => w = v
                           /\ \A w \in Tokens : inflight'[u][w] = "found" /\ hist'.session[w] = hist'.session[v] => w = v
    BY DEF FlightOK
  <2>1. CASE v = t
    BY <1>1, <1>2, <2>1 DEF Alive, Sound, FlightOK, OneOK
  <2>2. CASE v # t
    BY <1>1, <1>2, <2>2 DEF Alive, Sound, FlightOK
  <2> QED
    BY <2>1, <2>2
<1>4. EndedOK'
  BY <1>1, <1>2 DEF Sound, EndedOK
<1>5. LinksOK' /\ EntersOK' /\ CachedOK' /\ GoOK' /\ CarriesOK' /\ JarOK' /\ OneOK'
  BY <1>1 DEF Sound, LinksOK, EntersOK, CachedOK, GoOK, CarriesOK, JarOK, OneOK, Link, Used, Carries, Enters, Alive
<1>6. AloneOK' /\ ExpelsOK'
  BY <1>1 DEF Sound, AloneOK, ExpelsOK, Alive, Expels, Ended, SentIn, IsAt
<1> QED
  BY <1>3, <1>4, <1>5, <1>6 DEF Sound

\* What Settle does to the rows and the entries.
LEMMA SettleEffect ==
  ASSUME Typed, NEW r \in Replicas, NEW t \in Tokens, NEW c \in Tokens \cup {Nil}, Settle(r, t, c)
  PROVE  /\ UNCHANGED jar /\ inflight'[r][t] = "none" /\ recent'[r][t] = c
         /\ \A u \in Replicas, v \in Tokens :
              (u # r \/ v # t) => inflight'[u][v] = inflight[u][v] /\ recent'[u][v] = recent[u][v]
         /\ \A p \in Requests :
              /\ req'[p].tok = req[p].tok /\ req'[p].kind = req[p].kind /\ req'[p].alone = req[p].alone
              /\ p \notin Waiters(r, t) => req'[p] = req[p]
              /\ p \in Waiters(r, t) =>
                   /\ req[p].at = "waiting" /\ req[p].tok = t /\ req[p].rep = r /\ req[p].res = Nil
                   /\ ~ Enters(p) /\ req[p].kind # "logout"
                   /\ c = Nil => req'[p].at = "reply" /\ req'[p].res = "clear"
                   /\ c # Nil => req'[p].at \in {"reply", "retry"} /\ req'[p].res = c
<1>1. /\ req \in [Requests -> Row] /\ UNCHANGED jar
      /\ inflight' = [inflight EXCEPT ![r][t] = "none"] /\ recent' = [recent EXCEPT ![r][t] = c]
      /\ inflight \in [Replicas -> [Tokens -> {"none", "sent", "found"}]]
      /\ recent \in [Replicas -> [Tokens -> Tokens \cup {Nil, None}]]
  BY DEF Settle, Typed, TypeOK, Row
<1>2. /\ inflight'[r][t] = "none" /\ recent'[r][t] = c
      /\ \A u \in Replicas, v \in Tokens :
           (u # r \/ v # t) => inflight'[u][v] = inflight[u][v] /\ recent'[u][v] = recent[u][v]
  BY <1>1
<1>3. ASSUME NEW p \in Requests, p \in Waiters(r, t)
      PROVE  /\ req[p].at = "waiting" /\ req[p].tok = t /\ req[p].rep = r /\ req[p].res = Nil
             /\ ~ Enters(p) /\ req[p].kind # "logout" /\ req[p] \in Row /\ req'[p] = Resume(req[p], c)
  <2>1. req[p].at = "waiting" /\ req[p].tok = t /\ req[p].rep = r /\ req[p] \in Row
    BY <1>1, <1>3 DEF Waiters, IsAt
  <2>2. req[p].res = Nil /\ req[p].kind \in Proxied \cup {"refresh"}
    BY <2>1 DEF Typed, Tidy
  <2>3. req'[p] = Resume(req[p], c)
    BY <1>3 DEF Settle
  <2> QED
    BY <2>1, <2>2, <2>3 DEF Enters, Proxied
<1>4. ASSUME NEW p \in Requests, p \notin Waiters(r, t)
      PROVE  req'[p] = req[p]
  BY <1>4 DEF Settle
<1> QED
  BY <1>1, <1>2, <1>3, <1>4, ResumeRow

LEMMA RefusedSound ==
  ASSUME OnlyOne, Typed, Sound, NEW r \in Replicas, NEW t \in Tokens, LookUp(r, t), t \notin valid
  PROVE  Sound'
<1>1. Settle(r, t, Nil) /\ UNCHANGED <<valid, hist>> /\ inflight[r][t] # "none" /\ Nil \in Tokens \cup {Nil}
  BY DEF LookUp
<1> DEFINE W == Waiters(r, t)
<1>2. /\ UNCHANGED jar /\ inflight'[r][t] = "none" /\ recent'[r][t] = Nil
      /\ \A u \in Replicas, v \in Tokens :
           (u # r \/ v # t) => inflight'[u][v] = inflight[u][v] /\ recent'[u][v] = recent[u][v]
      /\ \A p \in Requests :
           /\ req'[p].tok = req[p].tok /\ req'[p].kind = req[p].kind /\ req'[p].alone = req[p].alone
           /\ p \notin W => req'[p] = req[p]
           /\ p \in W => /\ req[p].at = "waiting" /\ req[p].tok = t /\ req[p].res = Nil
                         /\ req'[p].at = "reply" /\ req'[p].res = "clear"
  BY <1>1, SettleEffect
<1> HIDE DEF W
<1>3. Nil \notin Tokens /\ None \notin Tokens /\ Nil # None /\ "clear" \notin Tokens
  BY NilAssumption DEF Orders
<1>4. hist.session[t] \in hist.ended
  BY <1>1 DEF Sound, FlightOK, Alive
<1>5. /\ \A v : Alive(v)' <=> Alive(v)
      /\ \A p \in Requests : Enters(p)' <=> Enters(p)
      /\ \A n : Used(n)' <=> Used(n)
  BY <1>1, <1>2 DEF Alive, Enters, Used
<1>6. \A p \in Requests, v \in Tokens, n \in Tokens : Carries(p, v, n)' <=> Carries(p, v, n)
  BY <1>2, <1>3, <1>5 DEF Carries
<1>7. \A v, n \in Tokens : Link(v, n)' => Link(v, n)
  BY <1>2, <1>3, <1>6 DEF Link
<1>8. LinksOK'
  BY <1>1, <1>2, <1>5, <1>7 DEF Sound, LinksOK
<1>9. EntersOK'
  BY <1>1, <1>2, <1>3, <1>5 DEF Sound, EntersOK
<1>10. CachedOK' /\ FlightOK'
  BY <1>1, <1>2, <1>4, <1>5 DEF Sound, CachedOK, FlightOK
<1>11. \A u \in Replicas, v \in Tokens : recent[u][v] # None => recent'[u][v] # None
  BY <1>2, <1>3
<1>12. GoOK'
  <2> SUFFICES ASSUME NEW p \in Requests, req'[p].at \in {"first", "refresh"}, req'[p].tok # Nil
               PROVE  Alive(req[p].tok)' \/ \E u \in Replicas : recent'[u][req'[p].tok] # None
    BY DEF GoOK
  <2>1. req'[p] = req[p] /\ req[p].tok \in Tokens
    BY <1>2 DEF Typed, TypeOK
  <2> QED
    BY <1>5, <1>11, <2>1 DEF Sound, GoOK
<1>13. CarriesOK'
  BY <1>2, <1>3, <1>5, <1>11 DEF Sound, CarriesOK
<1>14. JarOK'
  <2>1. jar.refresh # Nil => jar.refresh \in Tokens
    BY DEF Typed, TypeOK
  <2> QED
    BY <1>2, <1>5, <1>6, <2>1 DEF Sound, JarOK
<1>15. OneOK' /\ EndedOK'
  BY <1>1, <1>2 DEF Sound, OneOK, EndedOK
<1>16. AloneOK'
  BY <1>2, <1>5 DEF Sound, AloneOK
<1>17. ExpelsOK'
  BY <1>1, <1>2, <1>4 DEF Sound, ExpelsOK, Expels, Ended, SentIn, IsAt
<1> QED
  BY <1>8, <1>9, <1>10, <1>12, <1>13, <1>14, <1>15, <1>16, <1>17 DEF Sound

LEMMA RotateSound ==
  ASSUME OnlyOne, Typed, Sound, NEW r \in Replicas, NEW t \in Tokens, NEW n \in Tokens, Rotate(r, t, n)
  PROVE  Sound'
<1> DEFINE W == Waiters(r, t)
<1>1. /\ Settle(r, t, n) /\ inflight[r][t] = "found" /\ n \notin Minted /\ t \in Minted /\ t # n
      /\ valid' = (valid \ {t}) \cup {n} /\ n \in Tokens \cup {Nil}
  BY DEF Rotate, Fresh, Typed, Tidy
<1>2. /\ hist.session[t] \in Minted /\ hist.session[t] \in Tokens /\ W # {} /\ valid \subseteq Minted
  BY <1>1 DEF Typed, TypeOK, Tidy, Minted
<1>3. Issued(n, hist.session[t])
  BY <1>2, IssuedByRefresh DEF Rotate, Derived
<1>4. /\ \A v \in Tokens : v # n => hist'.session[v] = hist.session[v]
      /\ hist'.session[n] = hist.session[t] /\ hist'.ended = hist.ended /\ hist'.raced = hist.raced
  BY <1>2, <1>3, IssuedMinted DEF Issued
<1>5. /\ UNCHANGED jar /\ inflight'[r][t] = "none" /\ recent'[r][t] = n
      /\ \A u \in Replicas, v \in Tokens :
           (u # r \/ v # t) => inflight'[u][v] = inflight[u][v] /\ recent'[u][v] = recent[u][v]
      /\ \A p \in Requests :
           /\ req'[p].tok = req[p].tok /\ req'[p].kind = req[p].kind /\ req'[p].alone = req[p].alone
           /\ p \notin W => req'[p] = req[p]
           /\ p \in W => /\ req[p].at = "waiting" /\ req[p].tok = t /\ req[p].res = Nil
                         /\ ~ Enters(p) /\ req[p].kind # "logout"
                         /\ req'[p].at \in {"reply", "retry"} /\ req'[p].res = n
  <2>1. n # Nil
    BY NilAssumption
  <2> QED
    BY <1>1, <2>1, SettleEffect
<1>6. PICK w \in Requests : w \in W
  BY <1>2 DEF Waiters
<1> HIDE DEF W
\* n was nowhere
<1>7. /\ jar.refresh # n /\ Nil \notin Tokens /\ None \notin Tokens /\ "clear" \notin Tokens
      /\ \A p \in Requests : req[p].tok # n /\ req[p].res # n
      /\ \A u \in Replicas, v \in Tokens : recent[u][v] # n /\ recent[u][n] = None /\ inflight[u][n] = "none"
  BY <1>1, NilAssumption DEF Typed, Tidy, Orders
<1>8. /\ \A v \in Tokens : v # t /\ Alive(v) => Alive(v)'
      /\ \A p \in Requests : Enters(p)' <=> Enters(p)
      /\ \A v \in Minted : Used(v)' => Used(v)
      /\ ~ Used(n)'
  <2>1. \A v \in Tokens : v # t /\ Alive(v) => Alive(v)'
    BY <1>1, <1>2, <1>4 DEF Alive, Minted
  <2>2. \A p \in Requests : Enters(p)' <=> Enters(p)
    BY <1>5 DEF Enters
  <2>3. \A v \in Minted : Used(v)' => Used(v)
    BY <1>1, <1>5, <1>6 DEF Used
  <2>4. ~ Used(n)'
    BY <1>1, <1>5, <1>7 DEF Used
  <2> QED
    BY <2>1, <2>2, <2>3, <2>4
<1>9. \A p \in Requests, v, m \in Tokens : Carries(p, v, m) => Carries(p, v, m)'
  BY <1>5, <1>7, <1>8 DEF Carries
<1>10. ASSUME NEW v \in Tokens, NEW m \in Tokens, Link(v, m)'
       PROVE  v # n /\ ((v = t /\ m = n) \/ (m # n /\ m \in Minted /\ Link(v, m)))
  <2>1. CASE \E u \in Replicas : recent'[u][v] = m
    BY <1>5, <1>7, <1>1, <2>1 DEF Link, Typed, Tidy, OnlyOne
  <2>2. ASSUME NEW p \in Requests, Carries(p, v, m)'
        PROVE  v # n /\ ((v = t /\ m = n) \/ (m # n /\ m \in Minted /\ Link(v, m)))
    <3>1. CASE p \in W
      BY <1>1, <1>5, <2>2, <3>1 DEF Carries
    <3>2. CASE p \notin W
      <4>1. Carries(p, v, m) /\ req[p].tok = v /\ req[p].res = m
        BY <1>5, <1>8, <2>2, <3>2 DEF Carries
      <4> QED
        BY <1>7, <4>1 DEF Link, Typed, Tidy
    <3> QED
      BY <3>1, <3>2
  <2> QED
    BY <1>10, <2>1, <2>2 DEF Link
<1>11. LinksOK'
  <2> SUFFICES ASSUME NEW v \in Tokens, NEW m \in Tokens, Link(v, m)'
               PROVE  /\ v # m /\ v \notin valid' /\ hist'.session[v] = hist'.session[m]
                      /\ Used(m)' => jar'.refresh # v
    BY DEF LinksOK
  <2>1. CASE v = t /\ m = n
    BY <1>1, <1>4, <1>8, <2>1
  <2>2. CASE v # n /\ m # n /\ m \in Minted /\ Link(v, m)
    BY <1>1, <1>4, <1>5, <1>8, <2>2 DEF Sound, LinksOK
  <2> QED
    BY <1>10, <2>1, <2>2
<1>12. EntersOK'
  <2> SUFFICES ASSUME NEW q \in Requests, NEW m \in Tokens, Enters(q)', req'[q].res = m
               PROVE  /\ m \in valid' /\ jar'.refresh # m
                      /\ \A p \in Requests : req'[p].tok # m /\ (req'[p].res = m => p = q)
                      /\ \A u \in Replicas, v \in Tokens : recent'[u][v] # m
    BY DEF EntersOK
  <2>1. Enters(q) /\ q \notin W /\ req[q].res = m /\ m # n
    BY <1>5, <1>7, <1>8
  <2>2. /\ m \in valid /\ jar.refresh # m
        /\ \A p \in Requests : req[p].tok # m /\ (req[p].res = m => p = q)
        /\ \A u \in Replicas, v \in Tokens : recent[u][v] # m
    BY <2>1 DEF Sound, EntersOK
  <2>3. m # t
    BY <1>5, <1>6, <2>2
  <2> QED
    BY <1>1, <1>5, <2>1, <2>2, <2>3
<1>13. CachedOK'
  BY <1>1, <1>4, <1>5, <1>7, NilAssumption DEF Sound, CachedOK
<1>14. FlightOK'
  <2> SUFFICES ASSUME NEW u \in Replicas, NEW v \in Tokens, inflight'[u][v] # "none"
               PROVE  /\ Alive(v)'
                      /\ inflight'[u][v] = "found" =>
                           /\ \A x \in valid' : hist'.session[x] = hist'.session[v] => x = v
                           /\ \A x \in Tokens : inflight'[u][x] = "found" /\ hist'.session[x] = hist'.session[v] => x = v
    BY DEF FlightOK
  <2>1. u = r /\ v # t /\ v # n /\ inflight[u][v] = inflight'[u][v]
    BY <1>5, <1>7 DEF OnlyOne
  <2>2. Alive(v)'
    BY <1>8, <2>1 DEF Sound, FlightOK
  <2>3. inflight[u][v] = "found" => hist.session[t] # hist.session[v]
    BY <1>1, <2>1 DEF Sound, FlightOK
  <2>4. inflight[u][v] = "found" => \A x \in valid' : hist'.session[x] = hist'.session[v] => x = v
    BY <1>1, <1>2, <1>4, <2>1, <2>3 DEF Sound, FlightOK, Minted
  <2>5. inflight[u][v] = "found" => \A x \in Tokens : inflight'[u][x] = "found" /\ hist'.session[x] = hist'.session[v] => x = v
    BY <1>4, <1>5, <1>7, <2>1 DEF Sound, FlightOK
  <2> QED
    BY <2>1, <2>2, <2>4, <2>5
<1>15. \A u \in Replicas, v \in Tokens : recent[u][v] # None \/ v = t => recent'[u][v] # None
  BY <1>5, <1>7 DEF OnlyOne
<1>16. GoOK'
  <2> SUFFICES ASSUME NEW p \in Requests, req'[p].at \in {"first", "refresh"}, req'[p].tok # Nil
               PROVE  Alive(req[p].tok)' \/ \E u \in Replicas : recent'[u][req'[p].tok] # None
    BY DEF GoOK
  <2>1. req'[p] = req[p] /\ req[p].tok \in Tokens
    BY <1>5 DEF Typed, TypeOK
  <2> QED
    BY <1>8, <1>15, <2>1 DEF Sound, GoOK
<1>17. CarriesOK'
  BY <1>5, <1>8, <1>15 DEF Sound, CarriesOK
<1>18. JarOK'
  <2>1. jar.refresh # Nil => jar.refresh \in Tokens
    BY DEF Typed, TypeOK
  <2>2. CASE jar.refresh = t
    <3>1. Carries(w, t, n)'
      BY <1>5, <1>6, <1>8 DEF Carries
    <3> QED
      BY <1>5, <2>2, <3>1 DEF JarOK
  <2>3. CASE jar.refresh # t
    BY <1>5, <1>8, <1>9, <2>1, <2>3 DEF Sound, JarOK
  <2> QED
    BY <2>2, <2>3
<1>19. OneOK'
  <2>1. \A u \in valid : u # t => hist.session[u] # hist.session[t]
    BY <1>1 DEF Sound, FlightOK
  <2> QED
    BY <1>1, <1>2, <1>4, <2>1 DEF Sound, OneOK, Minted
<1>20. AloneOK'
  <2> SUFFICES ASSUME NEW q \in Requests, req'[q].at # "idle", req'[q].alone
               PROVE  /\ \A p \in Requests : req'[p].at # "idle" => p = q
                      /\ req'[q].kind = "logout" /\ req'[q].at = "upstream" => Alive(req[q].tok)'
    BY <1>5 DEF AloneOK
  <2>1. req[q].at # "idle" /\ req[q].alone /\ \A p \in Requests : req'[p].at # "idle" => req[p].at # "idle"
    BY <1>5
  <2>2. w = q
    BY <1>5, <1>6, <2>1 DEF Sound, AloneOK
  <2> QED
    BY <1>5, <1>6, <2>1, <2>2 DEF Sound, AloneOK
<1>21. EndedOK'
  <2>1. hist.session[t] \notin hist.ended \ hist.raced
    BY <1>1 DEF Sound, EndedOK
  <2> QED
    BY <1>1, <1>4, <1>5, <1>7, <2>1 DEF Sound, EndedOK
<1>22. ExpelsOK'
  <2> SUFFICES ASSUME NEW q \in Requests, Expels(q)'
               PROVE  req'[q].tok = Nil \/ hist'.session[req'[q].tok] \in hist'.ended
    BY DEF ExpelsOK, Ended, SentIn
  <2>1. q \notin W /\ req'[q] = req[q] /\ Expels(q)
    BY <1>5, <1>7 DEF Expels, IsAt
  <2>2. req[q].tok = Nil \/ (req[q].tok \in Tokens /\ hist.session[req[q].tok] \in hist.ended)
    BY <2>1 DEF Sound, ExpelsOK, Ended, SentIn, Typed, TypeOK
  <2> QED
    BY <1>4, <1>7, <2>1, <2>2
<1> QED
  BY <1>11, <1>12, <1>13, <1>14, <1>16, <1>17, <1>18, <1>19, <1>20, <1>21, <1>22 DEF Sound

LEMMA LoginSound ==
  ASSUME Typed, Sound, NEW q \in Requests, NEW n \in Tokens, Login(q, n) \/ MfaVerify(q, n)
  PROVE  Sound'
<1>1. /\ req' = [req EXCEPT ![q] = Reply(req[q], n)] /\ valid' = valid \cup {n} /\ n \in Cookies
      /\ hist' = [hist EXCEPT !.session[n] = n] /\ n \notin Minted /\ req[q].at = "upstream" /\ Enters(q)
      /\ UNCHANGED <<jar, inflight, recent>> /\ valid \subseteq Minted
      /\ req \in [Requests -> Row] /\ req[q] \in Row
  BY DEF Login, MfaVerify, NewSession, Fresh, Cookies, IsAt, Enters, Typed, TypeOK, Row
<1>2. /\ \A v \in Tokens : v # n => hist'.session[v] = hist.session[v]
      /\ hist'.session[n] = n /\ hist'.ended = hist.ended /\ hist'.raced = hist.raced
  <2>1. Issued(n, n)
    BY <1>1, IssuedByRefresh
  <2>2. (\A v \in Tokens : v # n => hist'.session[v] = hist.session[v]) /\ hist'.session[n] = n
    BY <2>1, IssuedMinted
  <2> QED
    BY <2>1, <2>2 DEF Issued
<1>3. /\ req'[q].at = "reply" /\ req'[q].res = n
      /\ \A p \in Requests :
           /\ p # q => req'[p] = req[p]
           /\ req'[p].tok = req[p].tok /\ req'[p].kind = req[p].kind /\ req'[p].alone = req[p].alone
           /\ req'[p].at = "idle" <=> req[p].at = "idle"
  BY <1>1, ReplyRow
<1>4. /\ jar.refresh # n /\ Nil \notin Tokens /\ None \notin Tokens /\ "clear" \notin Tokens /\ Nil # None
      /\ \A p \in Requests : req[p].tok # n /\ req[p].res # n /\ (req[p].at \notin {"retry", "reply"} => req[p].res = Nil)
      /\ \A u \in Replicas, v \in Tokens : recent[u][v] # n /\ recent[u][n] = None /\ inflight[u][n] = "none"
      /\ \A v \in Minted : hist.session[v] # n
      /\ hist.ended \subseteq Minted
  BY <1>1, NilAssumption DEF Typed, Tidy, Orders
<1>5. /\ \A v \in Tokens : Alive(v) => Alive(v)'
      /\ \A p \in Requests : Enters(p)' <=> Enters(p)
      /\ \A v : Used(v)' => Used(v)
  <2>1. ASSUME NEW v \in Tokens, Alive(v)
        PROVE  Alive(v)'
    <3>1. CASE v = n
      BY <1>1, <3>1 DEF Alive
    <3>2. CASE v # n
      BY <1>1, <1>2, <2>1, <3>2 DEF Alive
    <3> QED
      BY <3>1, <3>2
  <2>2. \A v : Used(v)' => Used(v)
    BY <1>1, <1>3 DEF Used
  <2> QED
    BY <1>3, <2>1, <2>2 DEF Enters
<1>6. \A p \in Requests, v, m \in Tokens : Carries(p, v, m)' <=> Carries(p, v, m)
  <2> TAKE p \in Requests, v, m \in Tokens
  <2>1. CASE p = q
    BY <1>1, <1>5, <2>1 DEF Carries
  <2>2. CASE p # q
    BY <1>3, <1>5, <2>2 DEF Carries
  <2> QED
    BY <2>1, <2>2
<1>7. \A v, m \in Tokens : Link(v, m)' => Link(v, m) /\ v # n /\ m # n
  <2> SUFFICES ASSUME NEW v \in Tokens, NEW m \in Tokens, Link(v, m)'
               PROVE  Link(v, m) /\ v # n /\ m # n
    OBVIOUS
  <2>1. CASE \E u \in Replicas : recent[u][v] = m
    BY <1>4, <2>1 DEF Link
  <2>2. ASSUME NEW p \in Requests, Carries(p, v, m)
        PROVE  Link(v, m) /\ v # n /\ m # n
    BY <1>4, <2>2 DEF Link, Carries
  <2> QED
    BY <1>1, <1>6, <2>1, <2>2 DEF Link
<1>8. LinksOK'
  BY <1>1, <1>2, <1>5, <1>7 DEF Sound, LinksOK
<1>9. EntersOK'
  <2> SUFFICES ASSUME NEW p \in Requests, NEW m \in Tokens, Enters(p)', req'[p].res = m
               PROVE  /\ m \in valid' /\ jar'.refresh # m
                      /\ \A o \in Requests : req'[o].tok # m /\ (req'[o].res = m => o = p)
                      /\ \A u \in Replicas, v \in Tokens : recent'[u][v] # m
    BY DEF EntersOK
  <2>1. CASE p = q
    BY <1>1, <1>3, <1>4, <2>1
  <2>2. CASE p # q
    <3>1. Enters(p) /\ req[p].res = m /\ m # n
      BY <1>3, <1>4, <1>5, <2>2
    <3> QED
      BY <1>1, <1>3, <2>2, <3>1 DEF Sound, EntersOK
  <2> QED
    BY <2>1, <2>2
<1>10. CachedOK'
  BY <1>1, <1>2, <1>4 DEF Sound, CachedOK
<1>11. FlightOK'
  <2> SUFFICES ASSUME NEW u \in Replicas, NEW v \in Tokens, inflight[u][v] # "none"
               PROVE  /\ Alive(v)'
                      /\ inflight[u][v] = "found" =>
                           /\ \A x \in valid' : hist'.session[x] = hist'.session[v] => x = v
                           /\ \A x \in Tokens : inflight[u][x] = "found" /\ hist'.session[x] = hist'.session[v] => x = v
    BY <1>1 DEF FlightOK
  <2>1. v # n /\ v \in Minted /\ Alive(v)
    BY <1>4 DEF Sound, FlightOK, Typed, Tidy
  <2>2. hist'.session[v] = hist.session[v] /\ hist.session[v] # n
    BY <1>2, <1>4, <2>1
  <2> QED
    BY <1>1, <1>2, <1>4, <1>5, <2>1, <2>2 DEF Sound, FlightOK, Minted
<1>12. GoOK'
  <2> SUFFICES ASSUME NEW p \in Requests, req'[p].at \in {"first", "refresh"}, req'[p].tok # Nil
               PROVE  Alive(req[p].tok)' \/ \E u \in Replicas : recent'[u][req'[p].tok] # None
    BY <1>3 DEF GoOK
  <2>1. req'[p] = req[p] /\ req[p].tok \in Tokens
    BY <1>3 DEF Typed, TypeOK
  <2> QED
    BY <1>1, <1>5, <2>1 DEF Sound, GoOK
<1>13. CarriesOK'
  BY <1>1, <1>3, <1>5 DEF Sound, CarriesOK
<1>14. JarOK'
  <2>1. jar.refresh # Nil => jar.refresh \in Tokens
    BY DEF Typed, TypeOK
  <2> QED
    BY <1>1, <1>5, <1>6, <2>1 DEF Sound, JarOK
<1>15. OneOK'
  BY <1>1, <1>2, <1>4 DEF Sound, OneOK, Minted
<1>16. AloneOK'
  <2> SUFFICES ASSUME NEW p \in Requests, req'[p].at # "idle", req'[p].alone
               PROVE  /\ \A o \in Requests : req'[o].at # "idle" => o = p
                      /\ req'[p].kind = "logout" /\ req'[p].at = "upstream" => Alive(req[p].tok)'
    BY <1>3 DEF AloneOK
  <2>1. req[p].kind = "logout" => req[p].tok \in Tokens
    BY DEF Typed, Tidy
  <2> QED
    BY <1>3, <1>5, <2>1 DEF Sound, AloneOK
<1>17. EndedOK'
  BY <1>1, <1>2, <1>4 DEF Sound, EndedOK
<1>18. ExpelsOK'
  <2> SUFFICES ASSUME NEW p \in Requests, Expels(p)'
               PROVE  req'[p].tok = Nil \/ hist'.session[req'[p].tok] \in hist'.ended
    BY DEF ExpelsOK, Ended, SentIn
  <2>1. p # q /\ req'[p] = req[p] /\ Expels(p)
    BY <1>3, <1>4 DEF Expels, IsAt
  <2>2. req[p].tok = Nil \/ (req[p].tok \in Tokens /\ hist.session[req[p].tok] \in hist.ended)
    BY <2>1 DEF Sound, ExpelsOK, Ended, SentIn, Typed, TypeOK
  <2> QED
    BY <1>2, <1>4, <2>1, <2>2
<1> QED
  BY <1>8, <1>9, <1>10, <1>11, <1>12, <1>13, <1>14, <1>15, <1>16, <1>17, <1>18 DEF Sound

LEMMA LogoutSound ==
  ASSUME Typed, Sound, NEW q \in Requests, Logout(q), hist'.steady
  PROVE  Sound'
<1> DEFINE t == req[q].tok
           s == hist.session[t]
<1>1. /\ req' = [req EXCEPT ![q] = Reply(req[q], "clear")] /\ req[q].at = "upstream" /\ req[q].kind = "logout"
      /\ UNCHANGED <<jar, inflight, recent>> /\ t \in Tokens /\ s \in Tokens /\ ~ Enters(q)
      /\ req \in [Requests -> Row] /\ req[q] \in Row /\ req[q].res = Nil
      /\ hist \in History
  <2>1. t \in Tokens /\ t \in Minted
    BY NilAssumption DEF Logout, Typed, Tidy
  <2>2. s \in Tokens
    BY <2>1 DEF Typed, Tidy, Minted
  <2> QED
    BY <2>1, <2>2 DEF Logout, IsAt, Enters, Typed, TypeOK, Tidy, Row, History
<1>2. /\ valid' = valid \ {t} /\ hist'.session = hist.session /\ hist'.ended = hist.ended \cup {s}
      /\ hist.raced \subseteq hist'.raced /\ (~ req[q].alone => s \in hist'.raced)
      /\ hist'.raced \subseteq hist.raced \cup {s}
  <2> DEFINE h == [hist EXCEPT !.ended = @ \cup {s}, !.raced = IF ~ req[q].alone THEN @ \cup {s} ELSE @]
  <2>1. /\ h \in History /\ h.session = hist.session /\ h.ended = hist.ended \cup {s}
        /\ h.raced = IF ~ req[q].alone THEN hist.raced \cup {s} ELSE hist.raced
    BY <1>1 DEF History
  <2>2. \/ valid' = valid \ {t} /\ hist' = h
        \/ hist' = [h EXCEPT !.steady = FALSE]
    BY DEF Logout
  <2> HIDE DEF h
  <2>3. hist' # [h EXCEPT !.steady = FALSE]
    BY <2>1 DEF History
  <2> HIDE DEF s, t
  <2> QED
    BY <2>1, <2>2, <2>3
<1> HIDE DEF s
<1>3. "clear" \in Cookies /\ "clear" \notin Tokens /\ Nil \notin Tokens
  BY NilAssumption DEF Cookies, Orders
<1>4. /\ req'[q].at = "reply" /\ req'[q].res = "clear"
      /\ \A p \in Requests :
           /\ p # q => req'[p] = req[p]
           /\ req'[p].tok = req[p].tok /\ req'[p].kind = req[p].kind /\ req'[p].alone = req[p].alone
           /\ req'[p].at = "idle" <=> req[p].at = "idle"
  BY <1>1, <1>3, ReplyRow
<1>5. /\ \A v \in Tokens : Alive(v) => Alive(v)'
      /\ \A p \in Requests : Enters(p)' <=> Enters(p)
      /\ \A v : Used(v)' => Used(v)
  <2>1. \A v \in Tokens : Alive(v) => Alive(v)'
    BY <1>2 DEF Alive, s
  <2>2. \A v : Used(v)' => Used(v)
    BY <1>2, <1>4 DEF Used
  <2> QED
    BY <1>4, <2>1, <2>2 DEF Enters
<1>6. \A p \in Requests, v, m \in Tokens : Carries(p, v, m)' <=> Carries(p, v, m)
  <2> TAKE p \in Requests, v, m \in Tokens
  <2>1. CASE p = q
    BY <1>1, <1>3, <1>4, <2>1 DEF Carries
  <2>2. CASE p # q
    BY <1>4, <1>5, <2>2 DEF Carries
  <2> QED
    BY <2>1, <2>2
<1>7. LinksOK'
  BY <1>1, <1>2, <1>5, <1>6 DEF Sound, LinksOK, Link
<1>8. EntersOK'
  <2> SUFFICES ASSUME NEW p \in Requests, NEW m \in Tokens, Enters(p)', req'[p].res = m
               PROVE  /\ m \in valid' /\ jar'.refresh # m
                      /\ \A o \in Requests : req'[o].tok # m /\ (req'[o].res = m => o = p)
                      /\ \A u \in Replicas, v \in Tokens : recent'[u][v] # m
    BY DEF EntersOK
  <2>1. p # q /\ Enters(p) /\ req[p].res = m
    BY <1>1, <1>4, <1>5
  <2> QED
    BY <1>1, <1>2, <1>3, <1>4, <2>1 DEF Sound, EntersOK
<1>9. CachedOK' /\ FlightOK' /\ OneOK'
  BY <1>1, <1>2, <1>5 DEF Sound, CachedOK, FlightOK, OneOK
<1>10. GoOK'
  <2> SUFFICES ASSUME NEW p \in Requests, req'[p].at \in {"first", "refresh"}, req'[p].tok # Nil
               PROVE  Alive(req[p].tok)' \/ \E u \in Replicas : recent'[u][req'[p].tok] # None
    BY <1>4 DEF GoOK
  <2>1. req'[p] = req[p] /\ req[p].tok \in Tokens
    BY <1>4 DEF Typed, TypeOK
  <2> QED
    BY <1>1, <1>5, <2>1 DEF Sound, GoOK
<1>11. CarriesOK'
  BY <1>1, <1>3, <1>4, <1>5 DEF Sound, CarriesOK
<1>12. JarOK'
  <2>1. jar.refresh # Nil => jar.refresh \in Tokens
    BY DEF Typed, TypeOK
  <2> QED
    BY <1>1, <1>5, <1>6, <2>1 DEF Sound, JarOK
<1>13. AloneOK'
  <2> SUFFICES ASSUME NEW p \in Requests, req'[p].at # "idle", req'[p].alone
               PROVE  /\ \A o \in Requests : req'[o].at # "idle" => o = p
                      /\ req'[p].kind = "logout" /\ req'[p].at = "upstream" => Alive(req[p].tok)'
    BY <1>4 DEF AloneOK
  <2>1. req[p].kind = "logout" => req[p].tok \in Tokens
    BY DEF Typed, Tidy
  <2> QED
    BY <1>4, <1>5, <2>1 DEF Sound, AloneOK
<1>14. EndedOK'
  <2> SUFFICES ASSUME NEW v \in Tokens, hist.session[v] \in hist'.ended \ hist'.raced
               PROVE  v \notin valid' /\ \A r \in Replicas : inflight[r][v] # "found"
    BY <1>1, <1>2 DEF EndedOK
  <2>1. CASE hist.session[v] \in hist.ended
    BY <1>2, <2>1 DEF Sound, EndedOK
  <2>2. CASE hist.session[v] \notin hist.ended
    <3>1. hist.session[v] = s /\ req[q].alone
      BY <1>2, <2>2
    <3>2. \A p \in Requests : req[p].at # "idle" => p = q
      BY <1>1, <3>1 DEF Sound, AloneOK
    <3>3. t \in valid
      BY <1>1, <2>2, <3>1 DEF Sound, AloneOK, Alive, s
    <3>4. v \notin valid'
      BY <1>2, <3>1, <3>3 DEF Sound, OneOK, s
    <3>5. \A r \in Replicas : inflight[r][v] = "none"
      BY <1>1, <3>2 DEF Typed, TypeOK, Waiters, IsAt
    <3> QED
      BY <3>4, <3>5
  <2> QED
    BY <2>1, <2>2
<1>15. ExpelsOK'
  <2> SUFFICES ASSUME NEW p \in Requests, Expels(p)'
               PROVE  req'[p].tok = Nil \/ hist'.session[req'[p].tok] \in hist'.ended
    BY DEF ExpelsOK, Ended, SentIn
  <2>1. p # q /\ req'[p] = req[p] /\ Expels(p)
    BY <1>1, <1>4 DEF Expels, IsAt
  <2> QED
    BY <1>2, <2>1 DEF Sound, ExpelsOK, Ended, SentIn
<1> QED
  BY <1>7, <1>8, <1>9, <1>10, <1>11, <1>12, <1>13, <1>14, <1>15 DEF Sound

LEMMA SendSound ==
  ASSUME Typed, Sound, NEW q \in Requests, NEW kind \in AllKinds, NEW r \in Replicas, Send(q, kind, r)
  PROVE  Sound'
<1> DEFINE y == [Idle EXCEPT !.at = FirstStep(kind), !.kind = kind, !.rep = r, !.access = jar.access,
                             !.tok = jar.refresh, !.alone = \A o \in Requests : ~ Open(o)]
<1>1. /\ req \in [Requests -> Row] /\ req[q].at = "idle" /\ req[q].res = Nil
      /\ UNCHANGED <<jar, valid, inflight, recent, hist>>
      /\ req' = [p \in Requests |-> IF p = q THEN y
                                    ELSE IF Open(p) THEN [req[p] EXCEPT !.alone = FALSE] ELSE req[p]]
      /\ Nil \notin Tokens /\ None \notin Tokens
  BY NilAssumption DEF Send, Typed, TypeOK, Tidy, Row, Open
<1>2. /\ y.at \in {"first", "refresh", "upstream"} /\ y.tok = jar.refresh /\ y.res = Nil /\ y.kind = kind
      /\ y.alone => \A o \in Requests : req[o].at = "idle"
      /\ kind = "logout" => jar.refresh # Nil
  BY DEF Idle, FirstStep, Open, Send, Offered
<1> HIDE DEF y
<1>3. /\ req'[q] = y
      /\ \A p \in Requests : p # q =>
           /\ req'[p].tok = req[p].tok /\ req'[p].kind = req[p].kind /\ req'[p].res = req[p].res
           /\ req'[p].at = req[p].at /\ (req'[p].alone /\ req'[p].at # "idle" => FALSE)
  BY <1>1 DEF Row, Open
<1>4. /\ \A v : Alive(v)' <=> Alive(v)
      /\ \A p \in Requests : p # q => (Enters(p)' <=> Enters(p))
      /\ \A n : Used(n)' => Used(n) \/ n = jar.refresh
  BY <1>1, <1>2, <1>3 DEF Alive, Enters, Used
<1>5. \A p \in Requests, v, n \in Tokens : Carries(p, v, n)' <=> Carries(p, v, n)
  <2> TAKE p \in Requests, v, n \in Tokens
  <2>1. CASE p = q
    BY <1>1, <1>2, <1>3, <2>1 DEF Carries
  <2>2. CASE p # q
    BY <1>3, <1>4, <2>2 DEF Carries
  <2> QED
    BY <2>1, <2>2
<1>6. \A v, n \in Tokens : Link(v, n)' <=> Link(v, n)
  BY <1>1, <1>5 DEF Link
\* the token of a carrier has been looked up
<1>7. jar.refresh # Nil => \/ Alive(jar.refresh)
                           \/ \E p \in Requests : /\ req[p].at # "idle"
                                                  /\ \E u \in Replicas : recent[u][jar.refresh] # None
  <2>1. ASSUME NEW p \in Requests, NEW n \in Tokens, Carries(p, jar.refresh, n)
        PROVE  req[p].at # "idle" /\ \E u \in Replicas : recent[u][jar.refresh] # None
    BY <1>1, <2>1 DEF Carries, Sound, CarriesOK, Typed, Tidy
  <2> QED
    BY <2>1 DEF Sound, JarOK
<1>8. LinksOK'
  <2> SUFFICES ASSUME NEW v \in Tokens, NEW n \in Tokens, Link(v, n)
               PROVE  /\ v # n /\ v \notin valid /\ hist.session[v] = hist.session[n]
                      /\ Used(n)' => jar.refresh # v
    BY <1>1, <1>6 DEF LinksOK
  <2> QED
    BY <1>4 DEF Sound, LinksOK
<1>9. EntersOK'
  <2> SUFFICES ASSUME NEW p \in Requests, NEW m \in Tokens, Enters(p)', req'[p].res = m
               PROVE  /\ m \in valid' /\ jar'.refresh # m
                      /\ \A o \in Requests : req'[o].tok # m /\ (req'[o].res = m => o = p)
                      /\ \A u \in Replicas, v \in Tokens : recent'[u][v] # m
    BY DEF EntersOK
  <2>1. p # q /\ Enters(p) /\ req[p].res = m
    BY <1>1, <1>2, <1>3, <1>4
  <2>2. /\ m \in valid /\ jar.refresh # m
        /\ \A o \in Requests : req[o].tok # m /\ (req[o].res = m => o = p)
        /\ \A u \in Replicas, v \in Tokens : recent[u][v] # m
    BY <2>1 DEF Sound, EntersOK
  <2> QED
    BY <1>1, <1>2, <1>3, <2>2
<1>10. CachedOK' /\ FlightOK' /\ OneOK' /\ EndedOK'
  BY <1>1, <1>4 DEF Sound, CachedOK, FlightOK, OneOK, EndedOK
<1>11. GoOK'
  <2> SUFFICES ASSUME NEW p \in Requests, req'[p].at \in {"first", "refresh"}, req'[p].tok # Nil
               PROVE  Alive(req'[p].tok) \/ \E u \in Replicas : recent[u][req'[p].tok] # None
    BY <1>1, <1>4 DEF GoOK, Alive
  <2>1. CASE p = q
    BY <1>2, <1>3, <1>7, <2>1
  <2>2. CASE p # q
    BY <1>3, <2>2 DEF Sound, GoOK
  <2> QED
    BY <2>1, <2>2
<1>12. CarriesOK'
  <2> SUFFICES ASSUME NEW p \in Requests, ~ Enters(p)', req'[p].res \in Tokens
               PROVE  req'[p].tok \in Tokens /\ \E u \in Replicas : recent[u][req'[p].tok] # None
    BY <1>1 DEF CarriesOK
  <2>1. p # q
    BY <1>1, <1>2, <1>3
  <2> QED
    BY <1>3, <1>4, <2>1 DEF Sound, CarriesOK
<1>13. JarOK'
  <2>1. jar.refresh # Nil => jar.refresh \in Tokens
    BY DEF Typed, TypeOK
  <2> QED
    BY <1>1, <1>4, <1>5, <2>1 DEF Sound, JarOK
<1>14. AloneOK'
  <2> SUFFICES ASSUME NEW p \in Requests, req'[p].at # "idle", req'[p].alone
               PROVE  /\ \A o \in Requests : req'[o].at # "idle" => o = p
                      /\ req'[p].kind = "logout" => Alive(req'[p].tok)
    BY <1>1 DEF AloneOK, Alive
  <2>1. p = q /\ \A o \in Requests : req[o].at = "idle"
    BY <1>2, <1>3
  <2> QED
    BY <1>2, <1>3, <1>7, <2>1
<1>15. ExpelsOK'
  <2> SUFFICES ASSUME NEW p \in Requests, Expels(p)'
               PROVE  req'[p].tok = Nil \/ hist'.session[req'[p].tok] \in hist'.ended
    BY DEF ExpelsOK, Ended, SentIn
  <2>1. p # q /\ Expels(p)
    BY <1>2, <1>3 DEF Expels, IsAt
  <2> QED
    BY <1>1, <1>3, <2>1 DEF Sound, ExpelsOK, Ended, SentIn
<1> QED
  BY <1>8, <1>9, <1>10, <1>11, <1>12, <1>13, <1>14, <1>15 DEF Sound

\* An answer that overtakes no other one.  What it sets is what the browser has already, or
\* replaces the token it was sent with.
LEMMA DeliverSound ==
  ASSUME Typed, Sound, NEW q \in Requests, Deliver(q), hist'.steady
  PROVE  Sound'
<1> DEFINE c == req[q].res
           j == jar'.refresh
<1>1. /\ req \in [Requests -> Row] /\ req[q] \in Row /\ jar \in Jar /\ hist \in History
      /\ req[q].at = "reply" /\ UNCHANGED <<valid, inflight, recent>> /\ req' = [req EXCEPT ![q] = Idle]
      /\ Nil \notin Tokens /\ None \notin Tokens /\ "clear" \notin Tokens
  BY NilAssumption DEF Deliver, Typed, TypeOK, Row, Jar, History, IsAt, Orders
<1>2. /\ req'[q].at = "idle" /\ req'[q].tok = Nil /\ req'[q].res = Nil
      /\ \A p \in Requests : p # q => req'[p] = req[p]
  BY <1>1 DEF Idle
<1>3. jar' = Apply(req[q]) /\ ~ Overtaken(req[q]) /\ SameSessions
  <2>1. ~ Upset
    BY HistoryKept DEF Typed
  <2>2. jar' = Apply(req[q]) /\ hist' = [hist EXCEPT !.steady = hist.steady /\ ~ Overtaken(req[q])]
    BY <2>1 DEF Deliver
  <2> DEFINE b == hist.steady /\ ~ Overtaken(req[q])
  <2>3. b \in BOOLEAN /\ hist' = [hist EXCEPT !.steady = b] /\ (b => hist.steady /\ ~ Overtaken(req[q]))
    BY <2>2
  <2> HIDE DEF b
  <2>4. b /\ SameSessions
    BY <1>1, <2>3 DEF SameSessions, History
  <2> QED
    BY <2>2, <2>3, <2>4
<1>4. \/ c \in Tokens /\ j = c /\ jar.refresh \in {req[q].tok, c}
      \/ c \notin Tokens /\ j = Nil
      \/ c \notin Tokens /\ j = jar.refresh
  BY <1>1, <1>3, ApplyJar DEF Overtaken
<1>5. c \in Tokens => \/ Enters(q) /\ c \in valid
                      \/ /\ ~ Enters(q) /\ req[q].tok \in Tokens /\ Carries(q, req[q].tok, c)
                         /\ Link(req[q].tok, c) /\ req[q].tok # c /\ (Used(c) => jar.refresh # req[q].tok)
  <2>1. CASE Enters(q)
    BY <2>1 DEF Sound, EntersOK
  <2>2. CASE ~ Enters(q) /\ c \in Tokens
    <3>1. req[q].tok \in Tokens /\ Carries(q, req[q].tok, c)
      BY <2>2 DEF Sound, CarriesOK, Carries
    <3>2. Link(req[q].tok, c)
      BY <3>1 DEF Link
    <3> QED
      BY <2>2, <3>1, <3>2 DEF Sound, LinksOK
  <2> QED
    BY <2>1, <2>2
<1> HIDE DEF c, j
<1>6. /\ \A v : Alive(v)' <=> Alive(v)
      /\ \A p \in Requests : p # q => (Enters(p)' <=> Enters(p))
      /\ \A n \in Tokens : Used(n)' => Used(n)
  BY <1>1, <1>2, <1>3 DEF Alive, Enters, Used, SameSessions
<1>7. \A p \in Requests, v, n \in Tokens : Carries(p, v, n)' <=> Carries(p, v, n) /\ p # q
  <2> TAKE p \in Requests, v, n \in Tokens
  <2>1. CASE p = q
    BY <1>1, <1>2, <2>1 DEF Carries
  <2>2. CASE p # q
    BY <1>2, <1>6, <2>2 DEF Carries
  <2> QED
    BY <2>1, <2>2
<1>8. \A v, n \in Tokens : Link(v, n)' => Link(v, n)
  BY <1>1, <1>7 DEF Link
\* the browser does not go back to a token whose successor is in use
<1>9. ASSUME NEW v \in Tokens, NEW n \in Tokens, Link(v, n), Used(n)
      PROVE  j # v
  <2>1. v \notin valid /\ jar.refresh # v
    BY <1>9 DEF Sound, LinksOK
  <2>2. Used(v)
    BY <2>1 DEF Used
  <2> QED
    BY <1>1, <1>4, <1>5, <2>1, <2>2
<1>10. LinksOK'
  <2> SUFFICES ASSUME NEW v \in Tokens, NEW n \in Tokens, Link(v, n)'
               PROVE  /\ v # n /\ v \notin valid' /\ hist'.session[v] = hist'.session[n]
                      /\ Used(n)' => j # v
    BY DEF LinksOK, j
  <2>1. Link(v, n)
    BY <1>8
  <2>2. v # n /\ v \notin valid /\ hist.session[v] = hist.session[n]
    BY <2>1 DEF Sound, LinksOK
  <2> QED
    BY <1>1, <1>3, <1>6, <1>9, <2>1, <2>2 DEF SameSessions
<1>11. EntersOK'
  <2> SUFFICES ASSUME NEW p \in Requests, NEW m \in Tokens, Enters(p)', req'[p].res = m
               PROVE  /\ m \in valid' /\ j # m
                      /\ \A o \in Requests : req'[o].tok # m /\ (req'[o].res = m => o = p)
                      /\ \A u \in Replicas, v \in Tokens : recent'[u][v] # m
    BY DEF EntersOK, j
  <2>1. p # q /\ Enters(p) /\ req[p].res = m
    BY <1>1, <1>2, <1>6
  <2>2. /\ m \in valid /\ jar.refresh # m /\ c # m
        /\ \A o \in Requests : req[o].tok # m /\ (req[o].res = m => o = p)
        /\ \A u \in Replicas, v \in Tokens : recent[u][v] # m
    BY <2>1 DEF Sound, EntersOK, c
  <2> QED
    BY <1>1, <1>2, <1>4, <2>2
<1>12. CachedOK' /\ FlightOK' /\ OneOK' /\ EndedOK'
  BY <1>1, <1>3, <1>6 DEF Sound, CachedOK, FlightOK, OneOK, EndedOK, SameSessions
<1>13. GoOK'
  <2> SUFFICES ASSUME NEW p \in Requests, req'[p].at \in {"first", "refresh"}, req'[p].tok # Nil
               PROVE  Alive(req[p].tok) \/ \E u \in Replicas : recent[u][req[p].tok] # None
    BY <1>1, <1>2, <1>3 DEF GoOK, Alive, SameSessions
  <2>1. req'[p] = req[p]
    BY <1>2
  <2> QED
    BY <2>1 DEF Sound, GoOK
<1>14. CarriesOK'
  BY <1>1, <1>2, <1>6 DEF Sound, CarriesOK
<1>15. JarOK'
  <2> SUFFICES ASSUME j \in Tokens
               PROVE  Alive(j) \/ \E p \in Requests, n \in Tokens : Carries(p, j, n) /\ p # q
    <3>1. j \in Tokens \cup {Nil}
      BY <1>1, <1>4 DEF Jar
    <3> QED
      BY <1>1, <1>3, <1>7, <3>1 DEF JarOK, Alive, SameSessions, j
  <2>1. CASE j = jar.refresh
    <3> SUFFICES ASSUME NEW n \in Tokens, Carries(q, j, n)
                 PROVE  FALSE
      BY <1>1, <2>1 DEF Sound, JarOK
    <3>1. c = n /\ req[q].tok = j /\ ~ Enters(q)
      BY DEF Carries, c
    <3> QED
      BY <1>4, <1>5, <2>1, <3>1
  <2>2. CASE j # jar.refresh
    <3>1. c \in Tokens /\ j = c /\ jar.refresh = req[q].tok
      BY <1>1, <1>4, <2>2
    <3>2. c \in valid
      BY <1>5, <3>1 DEF Used
    <3> QED
      BY <3>1, <3>2 DEF Alive
  <2> QED
    BY <2>1, <2>2
<1>16. AloneOK'
  <2> SUFFICES ASSUME NEW p \in Requests, req'[p].at # "idle", req'[p].alone
               PROVE  /\ \A o \in Requests : req'[o].at # "idle" => o = p
                      /\ req'[p].kind = "logout" /\ req'[p].at = "upstream" => Alive(req'[p].tok)
    BY <1>1, <1>3 DEF AloneOK, Alive, SameSessions
  <2>1. p # q /\ req'[p] = req[p]
    BY <1>2
  <2> QED
    BY <1>2, <2>1 DEF Sound, AloneOK
<1>17. ExpelsOK'
  <2> SUFFICES ASSUME NEW p \in Requests, Expels(p)'
               PROVE  req'[p].tok = Nil \/ hist'.session[req'[p].tok] \in hist'.ended
    BY DEF ExpelsOK, Ended, SentIn
  <2>1. p # q /\ req'[p] = req[p] /\ Expels(p)
    BY <1>2 DEF Expels, IsAt
  <2> QED
    BY <1>3, <2>1 DEF Sound, ExpelsOK, Ended, SentIn, SameSessions
<1> QED
  BY <1>10, <1>11, <1>12, <1>13, <1>14, <1>15, <1>16, <1>17 DEF Sound

LEMMA TimeSound ==
  ASSUME Typed, Sound, hist'.steady,
         \/ AccessExpires \/ UNCHANGED vars
         \/ \E r \in Replicas, t \in Tokens : RecentExpires(r, t)
  PROVE  Sound'
<1>1. /\ SameSessions /\ UNCHANGED <<valid, inflight, req>> /\ jar'.refresh = jar.refresh
      /\ Nil # None
  BY HistoryKept, NilAssumption DEF AccessExpires, RecentExpires, vars, Typed, TypeOK
\* nobody who is under way was sent with a token whose entry expires
<1>2. \A u \in Replicas, v \in Tokens :
        recent'[u][v] = recent[u][v] \/ (recent'[u][v] = None /\ \A q \in Requests : req[q].tok # v)
  <2>1. CASE AccessExpires \/ UNCHANGED vars
    BY <2>1 DEF AccessExpires, vars
  <2>2. ASSUME NEW r \in Replicas, NEW t \in Tokens, RecentExpires(r, t)
        PROVE  <1>2
    <3> DEFINE b == hist.steady /\ ~ \E q \in Requests : Open(q) /\ req[q].tok = t
    <3>1. b \in BOOLEAN /\ hist' = [hist EXCEPT !.steady = b]
      <4>1. \A q \in Requests : [p \in Requests |-> req[p].tok = t][q] = (req[q].tok = t)
        OBVIOUS
      <4> QED
        BY <2>2, <4>1, Zenon DEF RecentExpires, Lapses
    <3>2. hist \in History
      BY DEF Typed, TypeOK, History
    <3>3. b => \A q \in Requests : Open(q) => req[q].tok # t
      OBVIOUS
    <3> HIDE DEF b
    <3>4. \A q \in Requests : Open(q) => req[q].tok # t
      BY <3>1, <3>2, <3>3 DEF History
    <3>5. \A q \in Requests : req[q].tok # t
      BY <3>4, NilAssumption DEF Typed, Tidy, Open
    <3>6. recent' = [recent EXCEPT ![r][t] = None] /\ recent \in [Replicas -> [Tokens -> Tokens \cup {Nil, None}]]
      BY <2>2 DEF RecentExpires, Typed, TypeOK
    <3> QED
      BY <3>5, <3>6
  <2> QED
    BY <2>1, <2>2
<1>3. /\ \A v : Alive(v)' <=> Alive(v)
      /\ \A p \in Requests : Enters(p)' <=> Enters(p)
      /\ \A n : Used(n)' <=> Used(n)
      /\ \A p, v, n : Carries(p, v, n)' <=> Carries(p, v, n)
  BY <1>1 DEF Alive, Enters, Used, Carries, SameSessions
<1>4. \A v, n \in Tokens : Link(v, n)' => Link(v, n)
  BY <1>2, <1>3, NilAssumption DEF Link
<1>5. LinksOK'
  BY <1>1, <1>3, <1>4 DEF Sound, LinksOK, SameSessions
<1>6. EntersOK'
  BY <1>1, <1>2, <1>3, NilAssumption DEF Sound, EntersOK
<1>7. CachedOK' /\ FlightOK' /\ OneOK' /\ EndedOK'
  BY <1>1, <1>2, <1>3 DEF Sound, CachedOK, FlightOK, OneOK, EndedOK, SameSessions
<1>8. GoOK' /\ CarriesOK'
  <2>1. \A p \in Requests : req[p].tok # Nil => req[p].tok \in Tokens
    BY DEF Typed, TypeOK
  <2> QED
    BY <1>1, <1>2, <1>3, <2>1 DEF Sound, GoOK, CarriesOK
<1>9. JarOK'
  BY <1>1, <1>3 DEF Sound, JarOK
<1>10. AloneOK' /\ ExpelsOK'
  BY <1>1, <1>3 DEF Sound, AloneOK, ExpelsOK, Expels, Ended, SentIn, IsAt, SameSessions
<1> QED
  BY <1>5, <1>6, <1>7, <1>8, <1>9, <1>10 DEF Sound

LEMMA FailsUnsteady ==
  ASSUME Typed, NEW r \in Replicas, NEW t \in Tokens, RefreshFails(r, t)
  PROVE  ~ hist'.steady
<1>1. hist \in History
  BY DEF Typed, TypeOK, History
<1>2. CASE Upset
  BY <1>2, HistoryKept DEF Typed
<1>3. ASSUME NEW n \in Tokens, hist' = [Derived(n, t) EXCEPT !.steady = FALSE]
      PROVE  ~ hist'.steady
  <2> DEFINE h == Derived(n, t)
  <2>1. h = [hist EXCEPT !.session = [hist.session EXCEPT ![n] = hist.session[t]]]
    BY DEF Derived
  <2>2. h \in [session : {h.session}, ended : {h.ended}, raced : {h.raced}, steady : {h.steady}]
    BY <1>1, <2>1 DEF History
  <2>3. hist' = [h EXCEPT !.steady = FALSE]
    BY <1>3
  <2> HIDE DEF h
  <2> QED
    BY <2>2, <2>3
<1> QED
  BY <1>2, <1>3 DEF RefreshFails

\* Nothing makes a run steady again.
LEMMA SteadyKept == Typed /\ [Next]_vars => (hist'.steady => hist.steady)
<1> SUFFICES ASSUME Typed, [Next]_vars PROVE hist'.steady => hist.steady
  OBVIOUS
<1>1. hist \in History
  BY DEF Typed, TypeOK, History
<1>2. SameSessions => (hist'.steady => hist.steady)
  BY DEF SameSessions
<1>3. (UNCHANGED hist \/ Upset \/ \E during : Lapses(during)) => SameSessions
  BY HistoryKept DEF Typed
<1>4. ASSUME NEW n \in Tokens, NEW s, hist' = [hist EXCEPT !.session[n] = s]
      PROVE  hist'.steady => hist.steady
  BY <1>1, <1>4 DEF History
<1>5. ASSUME NEW q \in Requests, \/ \E kind \in AllKinds, r \in Replicas : Send(q, kind, r)
                                 \/ Handle(q) \/ FetchRejects(q)
      PROVE  hist'.steady => hist.steady
  <2>1. CASE \E kind \in AllKinds, r \in Replicas : Send(q, kind, r)
    BY <1>2, <1>3, <2>1 DEF Send
  <2>2. CASE FirstAttempt(q) \/ Enter(q) \/ Retry(q) \/ LoginAsksForCode(q) \/ MfaRefused(q) \/ FetchRejects(q)
    BY <1>2, <1>3, <2>2 DEF FirstAttempt, Enter, Retry, LoginAsksForCode, MfaRefused, FetchRejects
  <2>3. CASE Logout(q)
    <3> DEFINE s == hist.session[req[q].tok]
               h == [hist EXCEPT !.ended = @ \cup {s}, !.raced = IF ~ req[q].alone THEN @ \cup {s} ELSE @]
    <3>1. h.steady = hist.steady
      BY <1>1 DEF History
    <3>2. hist' = h \/ hist' = [h EXCEPT !.steady = FALSE]
      BY <2>3 DEF Logout
    <3>3. h \in [session : {h.session}, ended : {h.ended}, raced : {h.raced}, steady : {h.steady}]
      BY <1>1 DEF History
    <3> HIDE DEF h
    <3> QED
      BY <3>1, <3>2, <3>3
  <2>4. CASE Deliver(q)
    <3>1. Upset \/ hist' = [hist EXCEPT !.steady = hist.steady /\ ~ Overtaken(req[q])]
      BY <2>4 DEF Deliver
    <3> DEFINE b == hist.steady /\ ~ Overtaken(req[q])
    <3>2. b => hist.steady
      OBVIOUS
    <3>3. Upset \/ hist' = [hist EXCEPT !.steady = b]
      BY <3>1
    <3> HIDE DEF b
    <3> QED
      BY <1>1, <1>2, <1>3, <3>2, <3>3 DEF History
  <2>5. ASSUME NEW n \in Tokens, Login(q, n) \/ MfaVerify(q, n)
        PROVE  hist'.steady => hist.steady
    BY <1>4, <2>5 DEF Login, MfaVerify, NewSession
  <2> QED
    BY <1>5, <2>1, <2>2, <2>3, <2>4, <2>5 DEF Handle
<1>6. ASSUME NEW r \in Replicas,
             \/ \E t \in Tokens : Upstream(r, t) \/ RefreshFails(r, t) \/ RecentExpires(r, t)
             \/ Restart(r)
      PROVE  hist'.steady => hist.steady
  <2>1. ASSUME NEW t \in Tokens, LookUp(r, t) \/ RecentExpires(r, t)
        PROVE  hist'.steady => hist.steady
    BY <1>2, <1>3, <2>1 DEF LookUp, RecentExpires
  <2>2. ASSUME NEW t \in Tokens, NEW n \in Tokens, Rotate(r, t, n)
        PROVE  hist'.steady => hist.steady
    BY <1>4, <2>2 DEF Rotate, Derived
  <2>3. ASSUME NEW t \in Tokens, RefreshFails(r, t)
        PROVE  ~ hist'.steady
    BY <2>3, FailsUnsteady
  <2> QED
    BY <1>2, <1>3, <1>6, <2>1, <2>2, <2>3 DEF Upstream, Restart
<1>7. CASE AccessExpires \/ UNCHANGED vars
  BY <1>2, <1>3, <1>7 DEF AccessExpires, vars
<1> QED
  BY <1>5, <1>6, <1>7 DEF Next

LEMMA SoundStep ==
  ASSUME OnlyOne, Typed, Sound, [Next]_vars, hist'.steady
  PROVE  Sound'
<1>1. ASSUME NEW q \in Requests, \/ \E kind \in AllKinds, r \in Replicas : Send(q, kind, r)
                                 \/ Handle(q) \/ FetchRejects(q)
      PROVE  Sound'
  BY <1>1, SendSound, AnswersSound, EnterSound, LoginSound, LogoutSound, DeliverSound DEF Handle
<1>2. ASSUME NEW r \in Replicas, NEW t \in Tokens, Upstream(r, t)
      PROVE  Sound'
  BY <1>2, LookUpSound, RefusedSound, RotateSound DEF Upstream
<1>3. ASSUME NEW r \in Replicas, Restart(r) \/ \E t \in Tokens : RefreshFails(r, t)
      PROVE  FALSE
  BY <1>3, HistoryKept, FailsUnsteady DEF Restart, Typed
<1>4. CASE AccessExpires \/ UNCHANGED vars \/ \E r \in Replicas, t \in Tokens : RecentExpires(r, t)
  BY <1>4, TimeSound
<1> QED
  BY <1>1, <1>2, <1>3, <1>4 DEF Next

-----------------------------------------------------------------------------
(* The theorems. *)

LEMMA InitTyped == Init => Typed /\ Sound
<1> SUFFICES ASSUME Init PROVE Typed /\ Sound
  OBVIOUS
<1>1. /\ jar = [access |-> FALSE, refresh |-> Nil, mfa |-> FALSE] /\ valid = {}
      /\ inflight = [r \in Replicas |-> [t \in Tokens |-> "none"]]
      /\ recent = [r \in Replicas |-> [t \in Tokens |-> None]]
      /\ req = [q \in Requests |-> Idle]
      /\ hist.session = [t \in Tokens |-> Nil] /\ hist.ended = {} /\ hist.raced = {} /\ hist \in History
  BY DEF Init, History
<1>2. Idle \in Row /\ Idle.at = "idle" /\ Idle.tok = Nil /\ Idle.res = Nil /\ Idle.kind = "page"
  BY DEF Idle, Row, Steps, AllKinds, Proxied
<1>3. Nil \notin Tokens /\ None \notin Tokens /\ Nil # None
  BY NilAssumption
<1>4. Minted = {}
  BY <1>1 DEF Minted
<1>5. TypeOK
  BY <1>1, <1>2, <1>4 DEF TypeOK, Row, History, Open, IsAt
<1>6. Tidy
  BY <1>1, <1>2, <1>3, <1>4 DEF Tidy
<1>7. Sound
  BY <1>1, <1>2, <1>3 DEF Sound, LinksOK, EntersOK, CachedOK, FlightOK, GoOK, CarriesOK, JarOK, OneOK,
                          AloneOK, EndedOK, ExpelsOK, Link, Carries, Enters, Expels, IsAt
<1> QED
  BY <1>5, <1>6, <1>7 DEF Typed

\* The variables keep their types, and a refresh in flight always has someone who waits for
\* it (refreshOnce), with any number of replicas and whatever fails.
THEOREM TypeCorrect == Spec => []TypeOK
<1>1. Init => Typed
  BY InitTyped
<1>2. Typed => TypeOK
  BY DEF Typed
<1> QED
  BY <1>1, <1>2, TypedStep, PTL DEF Spec

IInv == Typed /\ (hist.steady => Sound)

LEMMA Invariance ==
  ASSUME OnlyOne
  PROVE  Spec => []IInv
<1>1. Init => IInv
  BY InitTyped DEF IInv
<1>2. IInv /\ [Next]_vars => IInv'
  BY TypedStep, SteadyKept, SoundStep DEF IInv
<1> QED
  BY <1>1, <1>2, PTL DEF Spec

\* With one frontend replica, and as long as nothing fails and no request is overtaken or
\* outlasts a TTL, no handler clears the cookies of a session its user has not left,
\* however many requests refresh at the same time.
THEOREM NobodyIsExpelled ==
  ASSUME OnlyOne
  PROVE  Spec => []ValidUserStaysIn
<1>1. IInv => ValidUserStaysIn
  BY DEF IInv, Sound, ExpelsOK, ValidUserStaysIn
<1> QED
  BY <1>1, Invariance, PTL

\* Then too the browser's session can go on: its token is valid, or the one that replaced it
\* is, and is on its way.
THEOREM SessionsGoOn ==
  ASSUME OnlyOne
  PROVE  Spec => []SessionGoesOn
<1>1. IInv => SessionGoesOn
  <2> SUFFICES ASSUME IInv, hist.steady, jar.refresh # Nil, hist.session[jar.refresh] \notin hist.ended,
                      jar.refresh \notin valid
               PROVE  \E q \in Requests : req[q].res \in valid /\ hist.session[req[q].res] = hist.session[jar.refresh]
    BY DEF SessionGoesOn
  <2>1. PICK q \in Requests, n \in Tokens : Carries(q, jar.refresh, n)
    BY DEF IInv, Sound, JarOK, Alive
  <2>2. jar.refresh \in Tokens /\ Link(jar.refresh, n) /\ req[q].res = n
    BY <2>1 DEF IInv, Typed, TypeOK, Link, Carries
  <2>3. ~ Used(n) /\ hist.session[n] = hist.session[jar.refresh]
    BY <2>2 DEF IInv, Sound, LinksOK
  <2> QED
    BY <2>2, <2>3 DEF Used
<1> QED
  BY <1>1, Invariance, PTL

\* And a logout that overlapped no other request leaves no valid token of its session.
THEOREM LogoutsEndSessions ==
  ASSUME OnlyOne
  PROVE  Spec => []LogoutEndsSession
<1>1. IInv => LogoutEndsSession
  BY DEF IInv, Typed, TypeOK, Minted, Sound, EndedOK, LogoutEndsSession
<1> QED
  BY <1>1, Invariance, PTL
=============================================================================
