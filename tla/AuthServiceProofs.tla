-------------------------- MODULE AuthServiceProofs --------------------------
(* Proofs about AuthService, for any set of users, tokens and concurrent requests. *)
EXTENDS AuthService, FiniteSetTheorems, TLAPS

Tokens == RTokens \cup PTokens \cup CTokens
CallsOK == call \in [Calls -> Frame] /\ \A c \in Calls : WellFormed(call[c])

\* A request moves to a frame that fits its step.
LEMMA MoveType ==
  ASSUME CallsOK, NEW c \in Calls, NEW x \in Frame, WellFormed(x), call' = [call EXCEPT ![c] = x]
  PROVE  CallsOK'
BY DEF CallsOK

LEMMA BeginType ==
  ASSUME CallsOK, NEW c \in Calls, NEW step \in Steps, NEW u \in Users,
         NEW t \in Tokens \cup {Nil}, NEW v \in Passwords \cup Secrets \cup {Nil},
         WellFormed([at |-> step, user |-> u, tok |-> t, val |-> v]), Begin(c, step, u, t, v)
  PROVE  CallsOK'
BY MoveType DEF Begin, Frame, Tokens

LEMMA GotoType ==
  ASSUME CallsOK, NEW c \in Calls, NEW step \in Steps,
         WellFormed([call[c] EXCEPT !.at = step]), Goto(c, step)
  PROVE  CallsOK'
<1>1. [call[c] EXCEPT !.at = step] \in Frame
  BY DEF CallsOK, Frame
<1>2. call' = [call EXCEPT ![c] = [call[c] EXCEPT !.at = step]]
  BY DEF Goto
<1> QED
  BY <1>1, <1>2, MoveType

LEMMA FinishType ==
  ASSUME CallsOK, NEW c \in Calls, Finish(c)
  PROVE  CallsOK'
<1>1. Idle \in Frame /\ WellFormed(Idle)
  BY DEF Idle, Frame, WellFormed, Steps
<1> QED
  BY <1>1, MoveType DEF Finish

LEMMA DropType ==
  ASSUME NEW D, NEW R, NEW f \in [D -> R \cup {Nil}], NEW k
  PROVE  /\ Drop(f, k) \in [D -> R \cup {Nil}]
         /\ Dropped(f, k) \subseteq [D -> R \cup {Nil}]
BY DEF Drop, Dropped

\* One type lemma per action: first the ones that move a request.
LEMMA TypeLogin ==
  ASSUME TypeOK, NEW c \in Calls, NEW u \in Users,
         VerifyEmail(c, u) \/ Login(c, u) \/ RequestPasswordReset(c, u) \/ DeleteAccount(c, u)
  PROVE  TypeOK'
<1>1. CallsOK
  BY DEF TypeOK, CallsOK
<1>2. ASSUME NEW step \in {"verify", "issue", "challenge", "mint_reset", "delete"},
             Begin(c, step, u, Nil, Nil)
      PROVE  CallsOK'
  <2>1. WellFormed([at |-> step, user |-> u, tok |-> Nil, val |-> Nil]) /\ step \in Steps
    BY DEF WellFormed, Steps
  <2> QED
    BY <1>1, <1>2, <2>1, BeginType
<1>3. CallsOK'
  BY <1>2 DEF VerifyEmail, Login, RequestPasswordReset, DeleteAccount
<1>4. hist' \in History
  BY DEF VerifyEmail, Login, RequestPasswordReset, DeleteAccount, TypeOK, History
<1> QED
  BY <1>3, <1>4 DEF VerifyEmail, Login, RequestPasswordReset, DeleteAccount, TypeOK, CallsOK, stores

LEMMA TypePassword ==
  ASSUME TypeOK, NEW c \in Calls, NEW pw \in Passwords,
         \/ \E u \in Users : ChangePassword(c, u, pw)
         \/ \E t \in PTokens : ResetPassword(c, t, pw)
  PROVE  TypeOK'
<1>1. PICK u \in Users, t \in PTokens \cup {Nil} : Begin(c, "set_password", u, t, pw)
  BY DEF ChangePassword, ResetPassword, TypeOK
<1>2. WellFormed([at |-> "set_password", user |-> u, tok |-> t, val |-> pw]) /\ "set_password" \in Steps
  BY DEF WellFormed, Steps
<1>3. CallsOK'
  BY <1>1, <1>2, BeginType DEF TypeOK, CallsOK, Tokens
<1> QED
  BY <1>3 DEF ChangePassword, ResetPassword, TypeOK, CallsOK, stores

LEMMA TypeRedeem ==
  ASSUME TypeOK, NEW c \in Calls,
         \/ \E t \in RTokens : Refresh(c, t)
         \/ \E t \in CTokens : VerifyMFALogin(c, t)
  PROVE  TypeOK'
<1>1. PICK step \in {"refresh_user", "mfa_user"}, u \in Users, t \in RTokens \cup CTokens :
        /\ Begin(c, step, u, t, Nil)
        /\ step = "refresh_user" => t \in RTokens
        /\ step = "mfa_user" => t \in CTokens
  BY DEF Refresh, VerifyMFALogin, TypeOK
<1>2. WellFormed([at |-> step, user |-> u, tok |-> t, val |-> Nil]) /\ step \in Steps
  BY <1>1 DEF WellFormed, Steps
<1>3. CallsOK'
  BY <1>1, <1>2, BeginType DEF TypeOK, CallsOK, Tokens
<1> QED
  BY <1>3 DEF Refresh, VerifyMFALogin, TypeOK, CallsOK, stores

LEMMA TypeEnable ==
  ASSUME TypeOK, NEW c \in Calls, NEW u \in Users, VerifyAndEnableMFA(c, u)
  PROVE  TypeOK'
<1>1. pending[u] \in Secrets /\ Begin(c, "set_secret", u, Nil, pending[u])
  BY DEF VerifyAndEnableMFA, TypeOK
<1>2. WellFormed([at |-> "set_secret", user |-> u, tok |-> Nil, val |-> pending[u]]) /\ "set_secret" \in Steps
  BY <1>1 DEF WellFormed, Steps
<1>3. CallsOK'
  BY <1>1, <1>2, BeginType DEF TypeOK, CallsOK
<1>4. hist' \in History
  BY <1>1 DEF VerifyAndEnableMFA, TypeOK, History
<1> QED
  BY <1>3, <1>4 DEF VerifyAndEnableMFA, TypeOK, CallsOK, stores

\* A change of a row's columns keeps it a row.
LEMMA RowType ==
  ASSUME TypeOK, NEW u \in Users, Live(u)
  PROVE  users[u] \in Account
BY DEF TypeOK, Live

\* The bare logins are finitely many, and fewer of them are not more.
LEMMA BareFinite ==
  ASSUME NEW u
  PROVE  /\ IsFiniteSet(BareLogins(u)) /\ Cardinality(BareLogins(u)) \in Nat
         /\ \A S \in SUBSET BareLogins(u) :
              /\ Cardinality(S) \in Nat
              /\ Cardinality(S) <= Cardinality(BareLogins(u))
BY CallsAssumption, FS_Subset, FS_CardinalityType DEF BareLogins

LEMMA TypeRows ==
  ASSUME TypeOK, NEW c \in Calls, VerifyUser(c) \/ DeleteUser(c) \/ SetPassword(c) \/ SetMFASecret(c)
  PROVE  TypeOK'
<1> USE DEF IsAt
<1>1. CallsOK /\ WellFormed(call[c])
  BY DEF TypeOK, CallsOK
<1>2. CASE VerifyUser(c)
  <2>1. users' \in [Users -> Account \cup {Unborn, Deleted}]
    BY <1>2, RowType DEF VerifyUser, Marks, TypeOK, Account
  <2>2. CallsOK'
    BY <1>1, <1>2, FinishType DEF VerifyUser
  <2> QED
    BY <1>2, <2>1, <2>2 DEF VerifyUser, TypeOK, CallsOK, stores
<1>3. CASE DeleteUser(c)
  <2>1. users' \in [Users -> Account \cup {Unborn, Deleted}]
    BY <1>3 DEF DeleteUser, TypeOK
  <2>2. CallsOK'
    BY <1>1, <1>3, FinishType DEF DeleteUser
  <2>3. \A u \in Users : Cardinality(AboutToIssue(u)) \in Nat
    BY CallsAssumption, FS_Subset, FS_CardinalityType DEF AboutToIssue
  <2>4. hist' \in History
    BY <1>3, <2>3 DEF DeleteUser, TypeOK, History
  <2> QED
    BY <1>3, <2>1, <2>2, <2>4 DEF DeleteUser, TypeOK, CallsOK, stores
<1>4. CASE SetPassword(c)
  <2>1. users' \in [Users -> Account \cup {Unborn, Deleted}]
    <3>1. call[c].user \in Users /\ call[c].val \in Passwords
      BY <1>1, <1>4 DEF SetPassword, WellFormed
    <3>2. Live(call[c].user) => [users[call[c].user] EXCEPT !.pw = call[c].val] \in Account
      BY <3>1, RowType DEF Account
    <3> QED
      BY <1>4, <3>1, <3>2 DEF SetPassword, TypeOK
  <2>2. CallsOK'
    <3>1. CASE call[c].tok = Nil
      BY <1>1, <1>4, <3>1, FinishType DEF SetPassword
    <3>2. CASE call[c].tok # Nil
      <4>1. WellFormed([call[c] EXCEPT !.at = "reset_del"]) /\ "reset_del" \in Steps
        BY <1>1, <1>4, <3>2 DEF SetPassword, WellFormed, CallsOK, Frame, Steps
      <4> QED
        BY <1>1, <1>4, <3>2, <4>1, GotoType DEF SetPassword
    <3> QED
      BY <3>1, <3>2
  <2>3. hist' \in History
    BY <1>4 DEF SetPassword, TypeOK, History
  <2> QED
    BY <1>4, <2>1, <2>2, <2>3 DEF SetPassword, TypeOK, CallsOK, stores
<1>5. CASE SetMFASecret(c)
  <2>1. users' \in [Users -> Account \cup {Unborn, Deleted}]
    <3>1. call[c].user \in Users /\ call[c].val \in Secrets
      BY <1>1, <1>5 DEF SetMFASecret, WellFormed
    <3>2. Live(call[c].user) => [users[call[c].user] EXCEPT !.secret = call[c].val] \in Account
      BY <3>1, RowType DEF Account
    <3> QED
      BY <1>5, <3>1, <3>2 DEF SetMFASecret, SecretToStore, TypeOK
  <2>2. WellFormed([call[c] EXCEPT !.at = "pending_del"]) /\ "pending_del" \in Steps
    BY <1>1, <1>5 DEF SetMFASecret, WellFormed, CallsOK, Frame, Steps
  <2>3. CallsOK'
    BY <1>1, <1>5, <2>2, GotoType DEF SetMFASecret
  <2>4. \A u \in Users : Cardinality(BareLogins(u)) \in Nat
    BY BareFinite
  <2>5. hist' \in History
    BY <1>5, <2>4 DEF SetMFASecret, TypeOK, History
  <2> QED
    BY <1>5, <2>1, <2>3, <2>5 DEF SetMFASecret, TypeOK, CallsOK, stores
<1> QED
  BY <1>2, <1>3, <1>4, <1>5

\* Steps that write a token or take one away.
LEMMA TypeMint ==
  ASSUME TypeOK, NEW c \in Calls,
         \/ \E t \in CTokens : MintChallenge(c, t)
         \/ \E t \in PTokens : MintReset(c, t)
         \/ \E t \in RTokens : IssueTokens(c, t)
  PROVE  TypeOK'
<1> USE DEF IsAt
<1>1. CallsOK /\ WellFormed(call[c])
  BY DEF TypeOK, CallsOK
<1>2. CallsOK'
  BY <1>1, FinishType DEF MintChallenge, MintReset, IssueTokens
<1>3. call[c].user \in Users
  BY <1>1 DEF MintChallenge, MintReset, IssueTokens, WellFormed
<1>4. ASSUME NEW t \in RTokens, IssueTokens(c, t)  PROVE hist' \in History
  <2>1. call[c].tok \in RTokens \cup {Nil}
    BY <1>1, <1>4 DEF IssueTokens, WellFormed
  <2>2. hist \in History /\ call[c].user \in Users
    BY <1>3 DEF TypeOK
  <2> DEFINE x == IF Live(call[c].user) THEN hist.late[call[c].user]
                  ELSE hist.late[call[c].user] \cup {t}
  <2> DEFINE n == IF HasMFA(call[c].user) /\ c \in BareLogins(call[c].user)
                  THEN hist.unasked[call[c].user] + 1 ELSE hist.unasked[call[c].user]
  <2>3. x \in SUBSET RTokens /\ n \in Nat
    BY <2>2 DEF History
  <2>4. hist' = [hist EXCEPT !.parent[t] = call[c].tok, !.late[call[c].user] = x,
                             !.unasked[call[c].user] = n]
    BY <1>4 DEF IssueTokens
  <2> HIDE DEF x, n
  <2> QED
    BY <2>1, <2>2, <2>3, <2>4 DEF History
<1> QED
  BY <1>2, <1>3, <1>4 DEF MintChallenge, MintReset, IssueTokens, TypeOK, CallsOK

LEMMA TypeDrop ==
  ASSUME TypeOK, NEW c \in Calls,
         DropChallenge(c) \/ DropReset(c) \/ DropPending(c) \/ RefreshDel(c)
  PROVE  TypeOK'
<1> USE DEF IsAt
<1>1. CallsOK /\ WellFormed(call[c])
  BY DEF TypeOK, CallsOK
<1>2. CASE DropChallenge(c)
  <2>1. challenge' \in [CTokens -> Users \cup {Nil}]
    BY <1>2, DropType DEF DropChallenge, TypeOK
  <2>2. CallsOK'
    <3> DEFINE x == [call[c] EXCEPT !.at = "issue", !.tok = Nil]
    <3>1. x \in Frame /\ WellFormed(x)
      BY <1>1, <1>2 DEF DropChallenge, WellFormed, CallsOK, Frame, Steps
    <3>2. call' = [call EXCEPT ![c] = x]
      BY <1>1, <1>2 DEF DropChallenge, CallsOK, Frame
    <3> QED
      BY <1>1, <3>1, <3>2, MoveType
  <2> QED
    BY <1>2, <2>1, <2>2 DEF DropChallenge, TypeOK, CallsOK
<1>3. CASE DropReset(c)
  BY <1>1, <1>3, DropType, FinishType DEF DropReset, TypeOK, CallsOK
<1>4. CASE DropPending(c)
  BY <1>1, <1>4, DropType, FinishType DEF DropPending, TypeOK, CallsOK
<1>5. CASE RefreshDel(c)
  <2>1. refresh' \in [RTokens -> Users \cup {Nil}]
    BY <1>5, DropType DEF RefreshDel, TypeOK
  <2>2. call[c].tok \in RTokens
    BY <1>1, <1>5 DEF RefreshDel, WellFormed
  <2>3. WellFormed([call[c] EXCEPT !.at = "issue"]) /\ "issue" \in Steps
    BY <1>1, <1>5, <2>2 DEF RefreshDel, WellFormed, CallsOK, Frame, Steps
  <2>4. CallsOK'
    BY <1>1, <1>5, <2>3, GotoType DEF RefreshDel
  <2> QED
    BY <1>5, <2>1, <2>4 DEF RefreshDel, TypeOK, CallsOK
<1> QED
  BY <1>2, <1>3, <1>4, <1>5

\* Steps that only move a request on.
LEMMA TypeMove ==
  ASSUME TypeOK, NEW c \in Calls, VerifyMFACode(c) \/ RefreshUser(c) \/ IssueFails(c)
  PROVE  TypeOK'
<1> USE DEF IsAt
<1>1. CallsOK /\ WellFormed(call[c])
  BY DEF TypeOK, CallsOK
<1>2. CASE Finish(c)
  BY <1>1, <1>2, FinishType DEF VerifyMFACode, RefreshUser, IssueFails, TypeOK, CallsOK, stores
<1>3. CASE VerifyMFACode(c) /\ ~ Finish(c)
  <2> DEFINE u == call[c].user
             x == [call[c] EXCEPT !.at = "mfa_del", !.val = users[u].secret]
  <2>1. Live(u) /\ users[u].secret # Nil /\ call' = [call EXCEPT ![c].at = "mfa_del", ![c].val = users[u].secret]
    BY <1>3 DEF VerifyMFACode, Passes
  <2>2. u \in Users /\ call[c].tok \in CTokens
    BY <1>1, <1>3 DEF VerifyMFACode, WellFormed
  <2>3. users[u].secret \in Secrets
    BY <2>1, <2>2, RowType DEF Account
  <2>4. x \in Frame /\ WellFormed(x)
    BY <1>1, <2>2, <2>3 DEF WellFormed, CallsOK, Frame, Steps
  <2>5. call' = [call EXCEPT ![c] = x]
    BY <1>1, <2>1 DEF CallsOK, Frame
  <2>6. CallsOK'
    BY <1>1, <2>4, <2>5, MoveType
  <2> QED
    BY <1>3, <2>6 DEF VerifyMFACode, TypeOK, CallsOK, stores
<1>4. CASE RefreshUser(c) /\ Goto(c, "refresh_del")
  <2>1. WellFormed([call[c] EXCEPT !.at = "refresh_del"]) /\ "refresh_del" \in Steps
    BY <1>1, <1>4 DEF RefreshUser, WellFormed, CallsOK, Frame, Steps
  <2>2. CallsOK'
    BY <1>1, <1>4, <2>1, GotoType
  <2> QED
    BY <1>4, <2>2 DEF RefreshUser, TypeOK, CallsOK, stores
<1> QED
  BY <1>2, <1>3, <1>4 DEF RefreshUser, IssueFails

\* Operations of one statement, and time.
LEMMA TypeOneStep ==
  ASSUME TypeOK,
         \/ \E u \in Users, pw \in Passwords : Register(u, pw)
         \/ \E t \in RTokens : Logout(t)
         \/ \E u \in Users : DisableMFA(u) \/ \E k \in Secrets : SetupMFA(u, k)
         \/ Expire
  PROVE  TypeOK'
<1>1. ASSUME NEW u \in Users, NEW pw \in Passwords, Register(u, pw)  PROVE TypeOK'
  BY <1>1 DEF Register, TypeOK, Account, stores
<1>2. ASSUME NEW t \in RTokens, Logout(t)  PROVE TypeOK'
  BY <1>2, DropType DEF Logout, TypeOK
<1>3. ASSUME NEW u \in Users, DisableMFA(u)  PROVE TypeOK'
  <2>1. [users[u] EXCEPT !.secret = Nil] \in Account
    BY <1>3, RowType DEF DisableMFA, Account
  <2>2. hist' \in History
    BY <1>3 DEF DisableMFA, TypeOK, History
  <2> QED
    BY <1>3, <2>1, <2>2 DEF DisableMFA, TypeOK, stores
<1>4. ASSUME NEW u \in Users, NEW k \in Secrets, SetupMFA(u, k)  PROVE TypeOK'
  BY <1>4 DEF SetupMFA, TypeOK
<1>5. CASE Expire
  <2>1. /\ refresh' \in [RTokens -> Users \cup {Nil}]
        /\ reset' \in [PTokens -> Users \cup {Nil}]
    BY <1>5 DEF Expire, Drop, TypeOK
  <2>2. /\ challenge' \in [CTokens -> Users \cup {Nil}]
        /\ pending' \in [Users -> Secrets \cup {Nil}]
    BY <1>5 DEF Expire, Drop, TypeOK
  <2> QED
    BY <1>5, <2>1, <2>2 DEF Expire, TypeOK
<1> QED
  BY <1>1, <1>2, <1>3, <1>4, <1>5

LEMMA TypeStep ==
  ASSUME TypeOK, [Next]_vars
  PROVE  TypeOK'
<1>1. CASE UNCHANGED vars
  BY <1>1 DEF vars, stores, TypeOK
<1>2. ASSUME NEW c \in Calls, Serve(c)  PROVE TypeOK'
  BY <1>2, TypeLogin, TypePassword, TypeRedeem, TypeEnable, TypeRows, TypeMint, TypeDrop, TypeMove
     DEF Serve
<1> QED
  BY <1>1, <1>2, TypeOneStep DEF Next

(***************************************************************************)
(* Refresh tokens: one in Redis has been minted, and so has the one that a *)
(* Refresh presents.                                                       *)
(***************************************************************************)
TokensMinted ==
  /\ \A t \in RTokens : refresh[t] # Nil => t \in minted
  /\ \A c \in Calls : call[c].at \in {"refresh_user", "refresh_del"} => call[c].tok \in minted

\* A step that neither adds a refresh token nor moves a Refresh keeps it all.
LEMMA TokensKept ==
  ASSUME TypeOK, TokensMinted,
         \A t \in RTokens : refresh'[t] \in {refresh[t], Nil},
         minted \subseteq minted',
         \A c \in Calls : call'[c].at \in {"refresh_user", "refresh_del"} =>
           call[c].at \in {"refresh_user", "refresh_del"} /\ call'[c].tok = call[c].tok
  PROVE  TokensMinted'
BY DEF TokensMinted, TypeOK, History

LEMMA MintedStep ==
  ASSUME TypeOK, TokensMinted, [Next]_vars
  PROVE  TokensMinted'
<1> USE DEF IsAt
<1>1. call \in [Calls -> Frame] /\ hist \in History /\ refresh \in [RTokens -> Users \cup {Nil}]
  BY DEF TypeOK
<1>2. ASSUME NEW c \in Calls, NEW t \in RTokens, Refresh(c, t)  PROVE TokensMinted'
  BY <1>1, <1>2 DEF Refresh, Begin, stores, TokensMinted
<1>3. ASSUME NEW c \in Calls, RefreshDel(c)  PROVE TokensMinted'
  <2>1. \A t \in RTokens : refresh'[t] \in {refresh[t], Nil}
    BY <1>1, <1>3 DEF RefreshDel, Dropped, Drop
  <2>2. \A d \in Calls : call'[d].at \in {"refresh_user", "refresh_del"} => call'[d] = call[d]
    BY <1>1, <1>3 DEF RefreshDel, Goto, Frame
  <2> QED
    BY <1>3, <2>1, <2>2, TokensKept DEF RefreshDel
<1>4. ASSUME NEW c \in Calls, NEW t \in RTokens, IssueTokens(c, t)  PROVE TokensMinted'
  <2>1. refresh' = [refresh EXCEPT ![t] = call[c].user] /\ minted' = minted \cup {t}
    BY <1>4 DEF IssueTokens
  <2>2. \A d \in Calls : call'[d].at \in {"refresh_user", "refresh_del"} => call'[d] = call[d]
    BY <1>1, <1>4 DEF IssueTokens, Finish, Idle
  <2> QED
    BY <1>1, <2>1, <2>2 DEF TokensMinted
<1>5. ASSUME NEW c \in Calls, RefreshUser(c)  PROVE TokensMinted'
  <2>1. \A d \in Calls : call'[d].at \in {"refresh_user", "refresh_del"} =>
           call[d].at \in {"refresh_user", "refresh_del"} /\ call'[d].tok = call[d].tok
    BY <1>1, <1>5 DEF RefreshUser, Goto, Finish, Idle, Frame
  <2> QED
    BY <1>5, <2>1, TokensKept DEF RefreshUser, stores
<1>6. CASE Expire \/ \E t \in RTokens : Logout(t)
  <2>1. \A t \in RTokens : refresh'[t] \in {refresh[t], Nil}
    BY <1>1, <1>6 DEF Expire, Logout, Dropped, Drop
  <2> QED
    BY <1>6, <2>1, TokensKept DEF Expire, Logout
<1>7. ASSUME NEW c \in Calls, NEW u \in Users,
             VerifyEmail(c, u) \/ Login(c, u) \/ RequestPasswordReset(c, u)
               \/ DeleteAccount(c, u) \/ VerifyAndEnableMFA(c, u)
      PROVE  TokensMinted'
  <2>1. \A d \in Calls : call'[d].at \in {"refresh_user", "refresh_del"} => call'[d] = call[d]
    BY <1>1, <1>7 DEF VerifyEmail, Login, RequestPasswordReset, DeleteAccount, VerifyAndEnableMFA,
       Begin, Goto, Finish, Idle, Frame
  <2> QED
    BY <1>1, <1>7, <2>1, TokensKept DEF VerifyEmail, Login, RequestPasswordReset, DeleteAccount,
       VerifyAndEnableMFA, stores, History
<1>8. ASSUME NEW c \in Calls, NEW pw \in Passwords,
             \/ \E u \in Users : ChangePassword(c, u, pw)
             \/ \E t \in PTokens : ResetPassword(c, t, pw)
      PROVE  TokensMinted'
  <2>1. \A d \in Calls : call'[d].at \in {"refresh_user", "refresh_del"} => call'[d] = call[d]
    BY <1>1, <1>8 DEF ChangePassword, ResetPassword, Begin, Goto, Finish, Idle, Frame
  <2> QED
    BY <1>1, <1>8, <2>1, TokensKept DEF ChangePassword, ResetPassword, stores, History
<1>9. ASSUME NEW c \in Calls,
             \/ \E t \in CTokens : MintChallenge(c, t) \/ VerifyMFALogin(c, t)
             \/ \E t \in PTokens : MintReset(c, t)
      PROVE  TokensMinted'
  <2>1. \A d \in Calls : call'[d].at \in {"refresh_user", "refresh_del"} => call'[d] = call[d]
    BY <1>1, <1>9 DEF MintChallenge, VerifyMFALogin, MintReset, Begin, Goto, Finish, Idle, Frame
  <2> QED
    BY <1>1, <1>9, <2>1, TokensKept DEF MintChallenge, VerifyMFALogin, MintReset, stores, History
<1>10. ASSUME NEW c \in Calls, VerifyUser(c) \/ VerifyMFACode(c) \/ DropChallenge(c) \/ IssueFails(c)
      PROVE  TokensMinted'
  <2>1. \A d \in Calls : call'[d].at \in {"refresh_user", "refresh_del"} => call'[d] = call[d]
    BY <1>1, <1>10 DEF VerifyUser, VerifyMFACode, DropChallenge, IssueFails, Passes, Begin, Goto, Finish,
       Idle, Frame
  <2> QED
    BY <1>1, <1>10, <2>1, TokensKept DEF VerifyUser, VerifyMFACode, DropChallenge, IssueFails,
       stores, History
<1>11. ASSUME NEW c \in Calls, SetPassword(c) \/ DropReset(c) \/ DeleteUser(c) \/ SetMFASecret(c) \/ DropPending(c)
      PROVE  TokensMinted'
  <2>1. \A d \in Calls : call'[d].at \in {"refresh_user", "refresh_del"} => call'[d] = call[d]
    BY <1>1, <1>11 DEF SetPassword, DropReset, DeleteUser, SetMFASecret, DropPending, Begin, Goto,
       Finish, Idle, Frame
  <2> QED
    BY <1>1, <1>11, <2>1, TokensKept DEF SetPassword, DropReset, DeleteUser, SetMFASecret,
       DropPending, stores, History
<1>12. CASE \/ \E u \in Users, pw \in Passwords : Register(u, pw)
            \/ \E u \in Users : DisableMFA(u) \/ \E k \in Secrets : SetupMFA(u, k)
            \/ UNCHANGED vars
  BY <1>1, <1>12, TokensKept DEF Register, DisableMFA, SetupMFA, vars, stores
<1>13. ASSUME NEW c \in Calls, Serve(c)  PROVE TokensMinted'
  BY <1>2, <1>3, <1>4, <1>5, <1>7, <1>8, <1>9, <1>10, <1>11, <1>13 DEF Serve
<1> QED
  BY <1>6, <1>12, <1>13 DEF Next

\* What a user presented or proved is never forgotten.
LEMMA HistoryGrows ==
  ASSUME TypeOK, [Next]_vars
  PROVE  /\ hist.presented \subseteq hist'.presented
         /\ \A u \in Users : hist.proved[u] \subseteq hist'.proved[u]
<1> DEFINE Grows == /\ hist.presented \subseteq hist'.presented
                    /\ \A u \in Users : hist.proved[u] \subseteq hist'.proved[u]
<1>1. hist \in History
  BY DEF TypeOK
<1>2. ASSUME NEW c \in Calls, NEW u \in Users, VerifyEmail(c, u) \/ VerifyAndEnableMFA(c, u)
      PROVE  Grows
  BY <1>1, <1>2 DEF VerifyEmail, VerifyAndEnableMFA, History
<1>3. ASSUME NEW c \in Calls, SetMFASecret(c) \/ DeleteUser(c)
                              \/ \E t \in RTokens : IssueTokens(c, t)
      PROVE  Grows
  BY <1>1, <1>3 DEF SetMFASecret, DeleteUser, IssueTokens, History
<1>4. CASE UNCHANGED hist
  BY <1>4
<1>5. ASSUME NEW c \in Calls, Serve(c)  PROVE Grows
  BY <1>2, <1>3, <1>4, <1>5 DEF Serve, Login, RequestPasswordReset, DeleteAccount, ChangePassword,
     Refresh, MintChallenge, VerifyMFALogin, MintReset, ResetPassword, VerifyUser, VerifyMFACode,
     DropChallenge, IssueFails, RefreshUser, RefreshDel, SetPassword, DropReset, DropPending
<1>6. ASSUME NEW u \in Users, DisableMFA(u)  PROVE Grows
  BY <1>1, <1>6 DEF DisableMFA, History
<1> QED
  BY <1>4, <1>5, <1>6 DEF Next, Register, Logout, SetupMFA, Expire, vars

LEMMA WriteRow ==
  ASSUME TypeOK, NEW o \in Users, Live(o), NEW a \in Account, a.verified = users[o].verified,
         users' = [users EXCEPT ![o] = a], NEW u \in Users
  PROVE  /\ users[u] = Deleted => users'[u] = Deleted
         /\ Verified(u) => Verified(u)'
BY RowsAssumption DEF TypeOK, Live, Verified

\* How the rows of users change: only a registration, a verification, a new password, a new
\* secret and a deletion do, and all but the first keep a verified row verified.
LEMMA RowsStep ==
  ASSUME TypeOK, [Next]_vars, NEW u \in Users
  PROVE  /\ users[u] = Deleted => users'[u] = Deleted
         /\ Verified(u) => Verified(u)' \/ users'[u] = Deleted
<1> DEFINE Keeps == /\ users[u] = Deleted => users'[u] = Deleted
                    /\ Verified(u) => Verified(u)' \/ users'[u] = Deleted
<1>1. users \in [Users -> Account \cup {Unborn, Deleted}]
  BY DEF TypeOK
<1>2. Live(u) => users[u] \in Account
  BY RowType
<1> USE RowsAssumption DEF Live, Verified, Account
<1>3. ASSUME NEW o \in Users, NEW pw \in Passwords, Register(o, pw)  PROVE Keeps
  BY <1>1, <1>3 DEF Register
<1>4. ASSUME NEW c \in Calls, VerifyUser(c)  PROVE Keeps
  BY <1>1, <1>2, <1>4 DEF VerifyUser, Marks
<1>5. ASSUME NEW c \in Calls, DeleteUser(c)  PROVE Keeps
  BY <1>1, <1>5 DEF DeleteUser
<1>6. ASSUME NEW c \in Calls, SetPassword(c) \/ SetMFASecret(c)  PROVE Keeps
  <2>1. call[c].user \in Users
    BY <1>6 DEF SetPassword, SetMFASecret, IsAt, TypeOK, WellFormed
  <2>2. CASE ~ Live(call[c].user)
    BY <1>6, <2>2 DEF SetPassword, SetMFASecret
  <2>3. CASE Live(call[c].user) /\ SetPassword(c)
    <3>1. call[c].val \in Passwords
      BY <2>3 DEF SetPassword, IsAt, TypeOK, WellFormed
    <3>2. users' = [users EXCEPT ![call[c].user] = [users[call[c].user] EXCEPT !.pw = call[c].val]]
      BY <2>3 DEF SetPassword
    <3> QED
      BY <2>1, <2>3, <3>1, <3>2, RowType, WriteRow
  <2>4. CASE Live(call[c].user) /\ SetMFASecret(c)
    <3>1. call[c].val \in Secrets
      BY <2>4 DEF SetMFASecret, IsAt, TypeOK, WellFormed
    <3>2. users' = [users EXCEPT ![call[c].user] = [users[call[c].user] EXCEPT !.secret = call[c].val]]
      BY <2>4 DEF SetMFASecret, SecretToStore
    <3> QED
      BY <2>1, <2>4, <3>1, <3>2, RowType, WriteRow
  <2> QED
    BY <1>6, <2>2, <2>3, <2>4
<1>7. ASSUME NEW o \in Users, DisableMFA(o)  PROVE Keeps
  BY <1>1, <1>2, <1>7 DEF DisableMFA
<1>8. CASE UNCHANGED users
  BY <1>8
<1>9. ASSUME NEW c \in Calls, Serve(c)  PROVE Keeps
  BY <1>4, <1>5, <1>6, <1>8, <1>9 DEF Serve, VerifyEmail, Login, RequestPasswordReset, DeleteAccount,
     VerifyAndEnableMFA, ChangePassword, IssueTokens, Refresh, MintChallenge, VerifyMFALogin,
     MintReset, ResetPassword, VerifyMFACode, DropChallenge, IssueFails, RefreshUser, RefreshDel,
     DropReset, DropPending
<1> QED
  BY <1>3, <1>7, <1>8, <1>9 DEF Next, Logout, SetupMFA, Expire, vars

(***************************************************************************)
(* Tokens in Redis are of users who had verified their address, because    *)
(* the requests that write one begin with a look at such a user or at such *)
(* a token, and a row never goes back to unverified.                       *)
(***************************************************************************)
Was(u) == users[u] = Deleted \/ Verified(u)
Writing == {"challenge", "issue", "mfa_user", "mfa_del", "refresh_user", "refresh_del", "mint_reset"}

Eligible ==
  /\ \A t \in RTokens : refresh[t] # Nil => Was(refresh[t])
  /\ \A t \in PTokens : reset[t] # Nil => Was(reset[t])
  /\ \A t \in CTokens : challenge[t] # Nil => Was(challenge[t])
  /\ \A c \in Calls : call[c].at \in Writing => Was(call[c].user)

LEMMA WasStays ==
  ASSUME TypeOK, [Next]_vars
  PROVE  \A u \in Users : Was(u) => Was(u)'
BY RowsStep DEF Was

LEMMA StoresKept ==
  ASSUME TypeOK, Eligible, [Next]_vars,
         \A t \in RTokens : refresh'[t] # Nil => Was(refresh[t])' \/ refresh'[t] = refresh[t],
         \A t \in PTokens : reset'[t] # Nil => Was(reset[t])' \/ reset'[t] = reset[t],
         \A t \in CTokens : challenge'[t] # Nil => Was(challenge[t])' \/ challenge'[t] = challenge[t],
         \A c \in Calls : call'[c].at \in Writing =>
           \/ Was(call[c].user)'
           \/ call[c].at \in Writing /\ call'[c].user = call[c].user
  PROVE  Eligible'
<1>1. \A t \in RTokens : refresh[t] # Nil => refresh[t] \in Users
  BY DEF TypeOK
<1>2. \A t \in PTokens : reset[t] # Nil => reset[t] \in Users
  BY DEF TypeOK
<1>3. \A t \in CTokens : challenge[t] # Nil => challenge[t] \in Users
  BY DEF TypeOK
<1>4. \A c \in Calls : call[c].at \in Writing => call[c].user \in Users
  BY DEF TypeOK, WellFormed, Writing
<1> QED
  BY <1>1, <1>2, <1>3, <1>4, WasStays DEF Eligible

LEMMA EligibleStep ==
  ASSUME TypeOK, Eligible, [Next]_vars
  PROVE  Eligible'
<1> USE DEF IsAt
<1>1. /\ call \in [Calls -> Frame]
      /\ refresh \in [RTokens -> Users \cup {Nil}]
      /\ reset \in [PTokens -> Users \cup {Nil}]
      /\ challenge \in [CTokens -> Users \cup {Nil}]
  BY DEF TypeOK
<1>2. \A c \in Calls : call[c].at \in Writing => call[c].user \in Users /\ Was(call[c].user)
  BY DEF Eligible, TypeOK, WellFormed, Writing
<1>3. ASSUME NEW c \in Calls, NEW u \in Users, Login(c, u) \/ RequestPasswordReset(c, u)
      PROVE  Eligible'
  <2>1. Was(u)'
    BY <1>3, WasStays DEF Login, RequestPasswordReset, MayLogIn, Was
  <2>2. \A d \in Calls : IF d = c THEN call'[d].user = u ELSE call'[d] = call[d]
    BY <1>1, <1>3 DEF Login, RequestPasswordReset, Begin
  <2> QED
    BY <1>3, <2>1, <2>2, StoresKept DEF Login, RequestPasswordReset, stores
<1>4. ASSUME NEW c \in Calls,
             \/ \E t \in CTokens : MintChallenge(c, t)
             \/ \E t \in PTokens : MintReset(c, t)
             \/ \E t \in RTokens : IssueTokens(c, t)
      PROVE  Eligible'
  <2>1. PICK u \in Users : u = call[c].user /\ Was(u)'
    BY <1>2, <1>4, WasStays DEF MintChallenge, MintReset, IssueTokens, Writing
  <2>2. \A d \in Calls : call'[d].at \in Writing => call'[d] = call[d]
    <3>1. Finish(c)
      BY <1>4 DEF MintChallenge, MintReset, IssueTokens
    <3> QED
      BY <1>1, <3>1 DEF Finish, Idle, Frame, Writing
  <2>3. /\ \A t \in RTokens : refresh'[t] \in {refresh[t], u}
        /\ \A t \in PTokens : reset'[t] \in {reset[t], u}
        /\ \A t \in CTokens : challenge'[t] \in {challenge[t], u}
    BY <1>1, <1>4, <2>1 DEF MintChallenge, MintReset, IssueTokens
  <2>4. /\ \A t \in RTokens : refresh'[t] # Nil => Was(refresh[t])' \/ refresh'[t] = refresh[t]
        /\ \A t \in PTokens : reset'[t] # Nil => Was(reset[t])' \/ reset'[t] = reset[t]
        /\ \A t \in CTokens : challenge'[t] # Nil => Was(challenge[t])' \/ challenge'[t] = challenge[t]
    BY <2>1, <2>3
  <2> QED
    BY <2>2, <2>4, StoresKept
<1>5. ASSUME NEW c \in Calls,
             \/ \E t \in RTokens : Refresh(c, t)
             \/ \E t \in CTokens : VerifyMFALogin(c, t)
      PROVE  Eligible'
  <2>1. PICK u \in Users : Was(u)' /\ \E step, t : Begin(c, step, u, t, Nil)
    <3>1. ASSUME NEW t \in RTokens, Refresh(c, t)
          PROVE  refresh[t] \in Users /\ Was(refresh[t])
      BY <1>1, <3>1 DEF Refresh, Eligible
    <3>2. ASSUME NEW t \in CTokens, VerifyMFALogin(c, t)
          PROVE  challenge[t] \in Users /\ Was(challenge[t])
      BY <1>1, <3>2 DEF VerifyMFALogin, Eligible
    <3> QED
      BY <1>5, <3>1, <3>2, WasStays DEF Refresh, VerifyMFALogin
  <2>2. \A d \in Calls : IF d = c THEN call'[d].user = u ELSE call'[d] = call[d]
    BY <1>1, <2>1 DEF Begin
  <2> QED
    BY <1>5, <2>1, <2>2, StoresKept DEF Refresh, VerifyMFALogin, stores
<1>6. ASSUME NEW c \in Calls, DropChallenge(c) \/ RefreshDel(c) \/ DropReset(c)
      PROVE  Eligible'
  <2>1. \A d \in Calls : call'[d].at \in Writing =>
                         call[d].at \in Writing /\ call'[d].user = call[d].user
    BY <1>1, <1>6 DEF DropChallenge, RefreshDel, DropReset, Goto, Finish, Idle, Frame, Writing
  <2>2. /\ \A t \in RTokens : refresh'[t] \in {refresh[t], Nil}
        /\ \A t \in PTokens : reset'[t] \in {reset[t], Nil}
        /\ \A t \in CTokens : challenge'[t] \in {challenge[t], Nil}
    BY <1>1, <1>6 DEF DropChallenge, RefreshDel, DropReset, Dropped, Drop
  <2> QED
    BY <2>1, <2>2, StoresKept
<1>7. ASSUME NEW c \in Calls,
             \/ VerifyMFACode(c) \/ RefreshUser(c) \/ IssueFails(c) \/ VerifyUser(c) \/ DeleteUser(c)
             \/ SetPassword(c) \/ SetMFASecret(c) \/ DropPending(c)
      PROVE  Eligible'
  <2>1. \A d \in Calls : call'[d].at \in Writing =>
                         call[d].at \in Writing /\ call'[d].user = call[d].user
    BY <1>1, <1>7 DEF VerifyMFACode, RefreshUser, IssueFails, VerifyUser, DeleteUser, SetPassword,
       SetMFASecret, DropPending, Passes, Goto, Finish, Idle, Frame, Writing
  <2>2. UNCHANGED <<refresh, reset, challenge>>
    BY <1>7 DEF VerifyMFACode, RefreshUser, IssueFails, VerifyUser, DeleteUser, SetPassword,
       SetMFASecret, DropPending, stores
  <2> QED
    BY <2>1, <2>2, StoresKept
<1>8. ASSUME NEW c \in Calls,
             \/ \E u \in Users : VerifyEmail(c, u) \/ DeleteAccount(c, u) \/ VerifyAndEnableMFA(c, u)
             \/ \E u \in Users, pw \in Passwords : ChangePassword(c, u, pw)
             \/ \E t \in PTokens, pw \in Passwords : ResetPassword(c, t, pw)
      PROVE  Eligible'
  <2>1. \A d \in Calls : call'[d].at \in Writing => call'[d] = call[d]
    BY <1>1, <1>8 DEF VerifyEmail, DeleteAccount, VerifyAndEnableMFA, ChangePassword, ResetPassword,
       Begin, Writing
  <2>2. UNCHANGED <<refresh, reset, challenge>>
    BY <1>8 DEF VerifyEmail, DeleteAccount, VerifyAndEnableMFA, ChangePassword, ResetPassword, stores
  <2> QED
    BY <2>1, <2>2, StoresKept
<1>9. CASE \/ \E u \in Users, pw \in Passwords : Register(u, pw)
           \/ \E t \in RTokens : Logout(t)
           \/ \E u \in Users : DisableMFA(u) \/ \E k \in Secrets : SetupMFA(u, k)
           \/ Expire
           \/ UNCHANGED vars
  <2>1. call' = call
    BY <1>9 DEF Register, Logout, DisableMFA, SetupMFA, Expire, vars
  <2>2. /\ \A t \in RTokens : refresh'[t] \in {refresh[t], Nil}
        /\ \A t \in PTokens : reset'[t] \in {reset[t], Nil}
        /\ \A t \in CTokens : challenge'[t] \in {challenge[t], Nil}
    BY <1>1, <1>9 DEF Register, Logout, DisableMFA, SetupMFA, Expire, vars, stores, Dropped, Drop
  <2> QED
    BY <2>1, <2>2, StoresKept
<1>10. ASSUME NEW c \in Calls, Serve(c)  PROVE Eligible'
  BY <1>3, <1>4, <1>5, <1>6, <1>7, <1>8, <1>10 DEF Serve
<1> QED
  BY <1>9, <1>10 DEF Next

(***************************************************************************)
(* A verified row was verified by its own token, an enabled secret proved  *)
(* by its own user: the request that writes either carries what it read.   *)
(***************************************************************************)
CallVouched(c) ==
  /\ call[c].at = "verify" => call[c].user \in hist.presented
  /\ call[c].at = "set_secret" => call[c].val \in hist.proved[call[c].user]

Vouched ==
  /\ \A c \in Calls : CallVouched(c)
  /\ VerifiedByOwnToken
  /\ EnabledSecretWasProved

\* What a row must satisfy to be vouched for.
RowVouched(u) ==
  /\ Verified(u) => u \in hist.presented
  /\ (Live(u) /\ users[u].secret # Nil) => users[u].secret \in hist.proved[u]

LEMMA CallsVouched ==
  ASSUME TypeOK, Vouched, [Next]_vars
  PROVE  \A c \in Calls : CallVouched(c)'
<1> USE DEF IsAt, CallVouched
<1>1. call \in [Calls -> Frame] /\ hist \in History
  BY DEF TypeOK
<1>2. ASSUME NEW d \in Calls, call'[d].at \in {"verify", "set_secret"} => call'[d] = call[d]
      PROVE  CallVouched(d)'
  <2>1. call[d].at = "set_secret" => call[d].user \in Users
    BY DEF TypeOK, WellFormed
  <2>2. CASE call'[d].at = "verify"
    BY <1>2, <2>2, HistoryGrows DEF Vouched
  <2>3. CASE call'[d].at = "set_secret"
    <3>1. call'[d] = call[d] /\ call[d].val \in hist.proved[call[d].user]
      BY <1>2, <2>3 DEF Vouched
    <3> QED
      BY <2>1, <2>3, <3>1, HistoryGrows
  <2> QED
    BY <2>2, <2>3
<1>3. ASSUME NEW c \in Calls, NEW u \in Users, VerifyEmail(c, u)  PROVE \A d \in Calls : CallVouched(d)'
  <2>1. CallVouched(c)'
    BY <1>1, <1>3 DEF VerifyEmail, Begin, History
  <2>2. ASSUME NEW d \in Calls, d # c  PROVE CallVouched(d)'
    BY <1>1, <1>2, <1>3, <2>2 DEF VerifyEmail, Begin
  <2> QED
    BY <2>1, <2>2
<1>4. ASSUME NEW c \in Calls, NEW u \in Users, VerifyAndEnableMFA(c, u)
      PROVE  \A d \in Calls : CallVouched(d)'
  <2>1. CallVouched(c)'
    BY <1>1, <1>4 DEF VerifyAndEnableMFA, Begin, History
  <2>2. ASSUME NEW d \in Calls, d # c  PROVE CallVouched(d)'
    BY <1>1, <1>2, <1>4, <2>2 DEF VerifyAndEnableMFA, Begin
  <2> QED
    BY <2>1, <2>2
<1>5. CASE \A d \in Calls : call'[d].at \in {"verify", "set_secret"} => call'[d] = call[d]
  BY <1>2, <1>5
<1>6. ASSUME NEW c \in Calls,
             \/ \E u \in Users : Login(c, u) \/ RequestPasswordReset(c, u) \/ DeleteAccount(c, u)
             \/ \E u \in Users, pw \in Passwords : ChangePassword(c, u, pw)
             \/ \E t \in PTokens, pw \in Passwords : ResetPassword(c, t, pw)
             \/ \E t \in RTokens : Refresh(c, t)
             \/ \E t \in CTokens : VerifyMFALogin(c, t)
      PROVE  \A d \in Calls : CallVouched(d)'
  BY <1>1, <1>5, <1>6 DEF Login, RequestPasswordReset, DeleteAccount, ChangePassword, ResetPassword,
     Refresh, VerifyMFALogin, Begin
<1>7. ASSUME NEW c \in Calls,
             \/ \E t \in RTokens : IssueTokens(c, t)
             \/ \E t \in CTokens : MintChallenge(c, t)
             \/ \E t \in PTokens : MintReset(c, t)
             \/ VerifyUser(c) \/ IssueFails(c) \/ DropReset(c) \/ DeleteUser(c) \/ DropPending(c)
             \/ VerifyMFACode(c) \/ DropChallenge(c) \/ RefreshUser(c) \/ RefreshDel(c)
             \/ SetPassword(c) \/ SetMFASecret(c)
      PROVE  \A d \in Calls : CallVouched(d)'
  <2>1. ASSUME Finish(c)  PROVE \A d \in Calls : CallVouched(d)'
    BY <1>1, <1>5, <2>1 DEF Finish, Idle, Frame
  <2>2. ASSUME NEW step, step \notin {"verify", "set_secret"}, Goto(c, step)
        PROVE  \A d \in Calls : CallVouched(d)'
    BY <1>1, <1>5, <2>2 DEF Goto, Frame
  <2>3. ASSUME DropChallenge(c)  PROVE \A d \in Calls : CallVouched(d)'
    BY <1>1, <1>5, <2>3 DEF DropChallenge, Frame
  <2>4. ASSUME NEW secret, Passes(c, secret)  PROVE \A d \in Calls : CallVouched(d)'
    BY <1>1, <1>5, <2>4 DEF Passes, Frame
  <2> QED
    BY <1>7, <2>1, <2>2, <2>3, <2>4 DEF IssueTokens, MintChallenge, MintReset, VerifyUser, VerifyMFACode,
       IssueFails, RefreshUser, RefreshDel, SetPassword, DropReset, DeleteUser, SetMFASecret,
       DropPending
<1>8. CASE UNCHANGED call
  BY <1>5, <1>8
<1>9. ASSUME NEW c \in Calls, Serve(c)  PROVE \A d \in Calls : CallVouched(d)'
  BY <1>3, <1>4, <1>6, <1>7, <1>9 DEF Serve
<1> QED
  BY <1>8, <1>9 DEF Next, Register, Logout, DisableMFA, SetupMFA, Expire, vars

LEMMA RowsVouched ==
  ASSUME TypeOK, Vouched, [Next]_vars
  PROVE  \A u \in Users : RowVouched(u)'
<1> USE RowsAssumption DEF IsAt
<1>1. users \in [Users -> Account \cup {Unborn, Deleted}]
  BY DEF TypeOK
<1>2. ASSUME NEW u \in Users
      PROVE  RowVouched(u) /\ (Live(u) => users[u] \in Account)
  BY <1>2, RowType DEF RowVouched, Vouched, VerifiedByOwnToken, EnabledSecretWasProved, HasMFA
\* A row that is as it was, or with less to vouch for, stays vouched for.
<1>3. ASSUME NEW u \in Users,
             Verified(u)' => Verified(u),
             (Live(u)' /\ users'[u].secret # Nil) => Live(u) /\ users'[u].secret = users[u].secret
      PROVE  RowVouched(u)'
  BY <1>2, <1>3, HistoryGrows DEF RowVouched
<1>4. ASSUME NEW u \in Users, users'[u] = users[u]  PROVE RowVouched(u)'
  BY <1>3, <1>4 DEF Verified, Live
<1>5. ASSUME NEW o \in Users, NEW pw \in Passwords, Register(o, pw)
      PROVE  \A u \in Users : RowVouched(u)'
  BY <1>1, <1>3, <1>4, <1>5 DEF Register, Verified, Live
<1>6. ASSUME NEW c \in Calls, VerifyUser(c)  PROVE \A u \in Users : RowVouched(u)'
  <2>1. call[c].user \in hist'.presented
    BY <1>6, HistoryGrows DEF VerifyUser, Vouched, CallVouched
  <2>2. ASSUME NEW u \in Users, u # call[c].user  PROVE RowVouched(u)'
    BY <1>1, <1>4, <1>6, <2>2 DEF VerifyUser, Marks
  <2>3. ASSUME NEW u \in Users, u = call[c].user  PROVE RowVouched(u)'
    <3>1. CASE ~ Live(u)
      BY <1>1, <1>4, <1>6, <2>3, <3>1 DEF VerifyUser, Marks
    <3>2. CASE Live(u)
      <4>1. users'[u] = [users[u] EXCEPT !.verified = TRUE] /\ users'[u].secret = users[u].secret
        BY <1>1, <1>2, <1>6, <2>3, <3>2 DEF VerifyUser, Marks, Account
      <4> QED
        BY <1>2, <2>1, <2>3, <3>2, <4>1, HistoryGrows DEF RowVouched
    <3> QED
      BY <3>1, <3>2
  <2> QED
    BY <2>2, <2>3
<1>7. ASSUME NEW c \in Calls, DeleteUser(c)  PROVE \A u \in Users : RowVouched(u)'
  BY <1>1, <1>3, <1>4, <1>7 DEF DeleteUser, Verified, Live
<1>8. ASSUME NEW c \in Calls, SetPassword(c)  PROVE \A u \in Users : RowVouched(u)'
  <2>1. ASSUME NEW u \in Users, users'[u] # users[u]  PROVE RowVouched(u)'
    <3>1. Live(u) /\ users'[u] = [users[u] EXCEPT !.pw = call[c].val]
      BY <1>1, <1>8, <2>1 DEF SetPassword
    <3>2. users'[u].secret = users[u].secret /\ users'[u].verified = users[u].verified
      BY <1>2, <3>1 DEF Account
    <3> QED
      BY <1>3, <3>1, <3>2 DEF Verified
  <2> QED
    BY <1>4, <2>1
<1>9. ASSUME NEW c \in Calls, SetMFASecret(c)  PROVE \A u \in Users : RowVouched(u)'
  <2>1. ASSUME NEW u \in Users, users'[u] # users[u]  PROVE RowVouched(u)'
    <3>1. Live(u) /\ u = call[c].user /\ users'[u] = [users[u] EXCEPT !.secret = call[c].val]
      BY <1>1, <1>9, <2>1 DEF SetMFASecret, SecretToStore
    <3>2. users'[u].secret = call[c].val /\ users'[u].verified = users[u].verified
      BY <1>2, <3>1 DEF Account
    <3>3. call[c].val \in hist.proved[u]
      BY <1>9, <3>1 DEF SetMFASecret, Vouched, CallVouched
    <3> QED
      BY <1>2, <3>1, <3>2, <3>3, HistoryGrows DEF RowVouched, Verified
  <2> QED
    BY <1>4, <2>1
<1>10. ASSUME NEW o \in Users, DisableMFA(o)  PROVE \A u \in Users : RowVouched(u)'
  <2>1. ASSUME NEW u \in Users, users'[u] # users[u]  PROVE RowVouched(u)'
    <3>1. Live(u) /\ users'[u] = [users[u] EXCEPT !.secret = Nil]
      BY <1>1, <1>10, <2>1 DEF DisableMFA
    <3>2. users'[u].secret = Nil /\ users'[u].verified = users[u].verified
      BY <1>2, <3>1 DEF Account
    <3> QED
      BY <1>3, <3>1, <3>2 DEF Verified
  <2> QED
    BY <1>4, <2>1
<1>11. CASE UNCHANGED users
  BY <1>4, <1>11
<1>12. ASSUME NEW c \in Calls, Serve(c)  PROVE \A u \in Users : RowVouched(u)'
  BY <1>6, <1>7, <1>8, <1>9, <1>11, <1>12 DEF Serve, VerifyEmail, Login, RequestPasswordReset,
     DeleteAccount, VerifyAndEnableMFA, ChangePassword, IssueTokens, Refresh, MintChallenge,
     VerifyMFALogin, MintReset, ResetPassword, VerifyMFACode, DropChallenge, IssueFails, RefreshUser,
     RefreshDel, DropReset, DropPending
<1> QED
  BY <1>5, <1>10, <1>11, <1>12 DEF Next, Logout, SetupMFA, Expire, vars

LEMMA VouchedStep ==
  ASSUME TypeOK, Vouched, [Next]_vars
  PROVE  Vouched'
BY CallsVouched, RowsVouched DEF Vouched, RowVouched, VerifiedByOwnToken, EnabledSecretWasProved, HasMFA

(***************************************************************************)
(* What a deleted user is still issued: the requests that were past their  *)
(* look at the user when the row went are counted, each of them leaves the *)
(* count when it issues, no request joins them, and none of them gives up  *)
(* a token issued after the deletion.                                      *)
(***************************************************************************)
Awaiting == {"mfa_del", "refresh_del", "issue"}
Holding == {"refresh_del", "issue"}

CallGraced(c) ==
  call[c].at \in Holding =>
    /\ call[c].tok \in minted \cup {Nil}
    /\ call[c].tok \notin hist.late[call[c].user]

UserGraced(u) ==
  /\ IsFiniteSet(hist.late[u]) /\ hist.late[u] \subseteq minted
  /\ users[u] # Deleted => hist.late[u] = {}
  /\ users[u] = Deleted => Cardinality(hist.late[u]) + Cardinality(AboutToIssue(u)) <= hist.grace[u]
  /\ \A t \in hist.late[u] : hist.parent[t] \in (minted \cup {Nil}) \ hist.late[u]

Graced == (\A u \in Users : UserGraced(u)) /\ (\A c \in Calls : CallGraced(c))

\* The requests about to issue are finitely many, and fewer of them are not more.
LEMMA AboutFinite ==
  ASSUME NEW u
  PROVE  /\ IsFiniteSet(AboutToIssue(u)) /\ Cardinality(AboutToIssue(u)) \in Nat
         /\ \A S \in SUBSET AboutToIssue(u) :
              /\ Cardinality(S) \in Nat
              /\ Cardinality(S) <= Cardinality(AboutToIssue(u))
BY CallsAssumption, FS_Subset, FS_CardinalityType DEF AboutToIssue

\* Minted tokens are tokens, so Nil is not one of them.
LEMMA NilNotMinted ==
  ASSUME TypeOK
  PROVE  Nil \notin minted
BY NilAssumption DEF TypeOK

\* A step that issues nothing and deletes nobody keeps it, if the requests it puts behind
\* their look at the user found that user there.
LEMMA GracedKept ==
  ASSUME TypeOK, Eligible, Graced, minted \subseteq minted',
         hist'.late = hist.late, hist'.grace = hist.grace, hist'.parent = hist.parent,
         \A u \in Users : users'[u] = Deleted => users[u] = Deleted,
         \A u \in Users : users[u] = Deleted => users'[u] = Deleted,
         \A c \in Calls : call'[c].at \in Awaiting =>
           \/ call[c].at \in Awaiting /\ call'[c].user = call[c].user
           \/ call'[c].user \in Users /\ Live(call'[c].user),
         \A c \in Calls : call'[c].at \in Holding =>
           \/ call'[c].tok = Nil
           \/ call[c].at \in Holding /\ call'[c].tok = call[c].tok /\ call'[c].user = call[c].user
           \/ call'[c].tok \in minted /\ Live(call'[c].user),
         \A c \in Calls : call'[c].at \in Holding => call'[c].user \in Users
  PROVE  Graced'
<1>1. ASSUME NEW u \in Users  PROVE UserGraced(u)'
  <2>1. UserGraced(u)
    BY DEF Graced
  <2>2. IsFiniteSet(hist'.late[u]) /\ hist'.late[u] \subseteq minted'
    BY <2>1 DEF UserGraced
  <2>3. users'[u] # Deleted => hist'.late[u] = {}
    BY <2>1 DEF UserGraced
  <2>4. ASSUME users'[u] = Deleted
        PROVE  Cardinality(hist'.late[u]) + Cardinality(AboutToIssue(u)') <= hist'.grace[u]
    <3>1. users[u] = Deleted
      BY <2>4
    <3>2. AboutToIssue(u)' \subseteq AboutToIssue(u)
      BY <3>1 DEF AboutToIssue, Awaiting, Live
    <3>3. /\ Cardinality(AboutToIssue(u)') \in Nat
          /\ Cardinality(AboutToIssue(u)) \in Nat
          /\ Cardinality(AboutToIssue(u)') <= Cardinality(AboutToIssue(u))
      BY <3>2, AboutFinite
    <3>4. Cardinality(hist.late[u]) \in Nat /\ hist.grace[u] \in Nat
      BY <2>1, FS_CardinalityType DEF UserGraced, TypeOK, History
    <3> QED
      BY <2>1, <3>1, <3>3, <3>4 DEF UserGraced
  <2>5. \A t \in hist'.late[u] : hist'.parent[t] \in (minted' \cup {Nil}) \ hist'.late[u]
    BY <2>1 DEF UserGraced
  <2> QED
    BY <2>2, <2>3, <2>4, <2>5 DEF UserGraced
<1>2. ASSUME NEW c \in Calls, call'[c].at \in Holding
      PROVE  /\ call'[c].tok \in minted' \cup {Nil}
             /\ call'[c].tok \notin hist'.late[call'[c].user]
  <2>1. call'[c].user \in Users /\ UserGraced(call'[c].user)
    BY <1>2 DEF Graced
  <2>2. CASE call'[c].tok = Nil
    BY <2>1, <2>2, NilNotMinted DEF UserGraced
  <2>3. CASE call[c].at \in Holding /\ call'[c].tok = call[c].tok /\ call'[c].user = call[c].user
    BY <2>3 DEF Graced, CallGraced
  <2>4. CASE call'[c].tok \in minted /\ Live(call'[c].user)
    BY <2>1, <2>4 DEF UserGraced, Live
  <2> QED
    BY <1>2, <2>2, <2>3, <2>4
<1> QED
  BY <1>1, <1>2 DEF Graced, CallGraced

\* A request behind its look at the user issues a pair.
LEMMA GracedIssue ==
  ASSUME TypeOK, Eligible, Graced, NEW c \in Calls, NEW t \in RTokens, IssueTokens(c, t)
  PROVE  Graced'
<1> DEFINE u == call[c].user
           k == call[c].tok
           late == IF Live(u) THEN hist.late[u] ELSE hist.late[u] \cup {t}
<1>1. u \in Users /\ k \in RTokens \cup {Nil} /\ (Live(u) \/ users[u] = Deleted)
  BY DEF IssueTokens, IsAt, TypeOK, WellFormed, Eligible, Writing, Was, Verified
<1>2. t \notin minted /\ minted' = minted \cup {t} /\ users' = users /\ t # Nil
  BY NilAssumption DEF IssueTokens
<1>3. k \in minted \cup {Nil} /\ k \notin hist.late[u]
  BY DEF IssueTokens, IsAt, Graced, CallGraced, Holding
<1>4. hist \in History /\ call \in [Calls -> Frame]
  BY DEF TypeOK
<1>5. /\ hist'.parent = [hist.parent EXCEPT ![t] = k]
      /\ hist'.late = [hist.late EXCEPT ![u] = late]
      /\ hist'.grace = hist.grace
  BY <1>1, <1>4 DEF IssueTokens, History
<1>6. call' = [call EXCEPT ![c] = Idle] /\ call[c].at = "issue"
  BY DEF IssueTokens, Finish, IsAt
<1> HIDE DEF late
<1>7. ASSUME NEW o \in Users  PROVE UserGraced(o)'
  <2>1. UserGraced(o)
    BY DEF Graced
  <2>2. AboutToIssue(o)' = AboutToIssue(o) \ {c}
    BY <1>4, <1>6 DEF AboutToIssue, Idle
  <2>3. t \notin hist.late[o]
    BY <1>2, <2>1 DEF UserGraced
  <2>4. Cardinality(hist.late[o]) \in Nat /\ hist.grace[o] \in Nat
    BY <1>4, <2>1, FS_CardinalityType DEF UserGraced, History
  <2>5. CASE o = u /\ ~ Live(u)
    <3>1. users[o] = Deleted /\ hist'.late[o] = hist.late[o] \cup {t}
      BY <1>1, <1>4, <1>5, <2>5 DEF late, History
    <3>2. IsFiniteSet(hist'.late[o]) /\ Cardinality(hist'.late[o]) = Cardinality(hist.late[o]) + 1
      <4>1. IsFiniteSet(hist.late[o])
        BY <2>1 DEF UserGraced
      <4>2. /\ IsFiniteSet(hist.late[o] \cup {t})
            /\ Cardinality(hist.late[o] \cup {t}) = Cardinality(hist.late[o]) + 1
        BY <2>3, <4>1, FS_AddElement
      <4> QED
        BY <3>1, <4>2
    <3>3. c \in AboutToIssue(o)
      BY <1>6, <2>5 DEF AboutToIssue
    <3>4. Cardinality(AboutToIssue(o)') = Cardinality(AboutToIssue(o)) - 1
      BY <2>2, <3>3, AboutFinite, FS_RemoveElement
    <3>5. Cardinality(hist'.late[o]) + Cardinality(AboutToIssue(o)') <= hist'.grace[o]
      BY <1>5, <2>1, <2>4, <3>1, <3>2, <3>4, AboutFinite DEF UserGraced
    <3>6. hist'.late[o] \subseteq minted'
      BY <1>2, <2>1, <3>1 DEF UserGraced
    <3>7. ASSUME NEW r \in hist'.late[o]
          PROVE  hist'.parent[r] \in (minted' \cup {Nil}) \ hist'.late[o]
      <4>1. CASE r = t
        <5>1. hist'.parent[r] = k
          BY <1>4, <1>5, <4>1 DEF History
        <5> QED
          BY <1>2, <1>3, <2>5, <3>1, <5>1
      <4>2. CASE r # t
        <5>1. r \in hist.late[o] /\ hist'.parent[r] = hist.parent[r]
          BY <1>4, <1>5, <3>1, <4>2 DEF History
        <5>2. hist.parent[r] \in (minted \cup {Nil}) \ hist.late[o]
          BY <2>1, <5>1 DEF UserGraced
        <5> QED
          BY <1>2, <3>1, <5>1, <5>2
      <4> QED
        BY <4>1, <4>2
    <3> QED
      BY <1>2, <3>1, <3>2, <3>5, <3>6, <3>7 DEF UserGraced
  <2>6. CASE o # u \/ Live(u)
    <3>1. hist'.late[o] = hist.late[o]
      BY <1>1, <1>4, <1>5, <2>6 DEF late, History
    <3>2. \A r \in hist.late[o] : hist'.parent[r] = hist.parent[r]
      BY <1>4, <1>5, <2>3 DEF History
    <3>3. /\ Cardinality(AboutToIssue(o)') <= Cardinality(AboutToIssue(o))
          /\ Cardinality(AboutToIssue(o)') \in Nat /\ Cardinality(AboutToIssue(o)) \in Nat
      BY <2>2, AboutFinite
    <3>4. users[o] = Deleted =>
            Cardinality(hist'.late[o]) + Cardinality(AboutToIssue(o)') <= hist'.grace[o]
      BY <1>5, <2>1, <2>4, <3>1, <3>3 DEF UserGraced
    <3> QED
      BY <1>2, <2>1, <3>1, <3>2, <3>4 DEF UserGraced
  <2> QED
    BY <2>5, <2>6
<1>8. ASSUME NEW d \in Calls, call'[d].at \in Holding
      PROVE  /\ call'[d].tok \in minted' \cup {Nil}
             /\ call'[d].tok \notin hist'.late[call'[d].user]
  <2>1. call'[d] = call[d]
    BY <1>4, <1>6, <1>8 DEF Idle, Holding
  <2>2. call[d].user \in Users
    BY <1>8, <2>1 DEF TypeOK, WellFormed, Holding
  <2>3. call[d].tok \in minted \cup {Nil} /\ call[d].tok \notin hist.late[call[d].user]
    BY <1>8, <2>1 DEF Graced, CallGraced
  <2>4. hist'.late[call[d].user] \subseteq hist.late[call[d].user] \cup {t}
    BY <1>1, <1>4, <1>5, <2>2 DEF late, History
  <2> QED
    BY <1>2, <2>1, <2>3, <2>4
<1> QED
  BY <1>7, <1>8 DEF Graced, CallGraced

\* The row goes: its user's requests behind their look at it are counted.
LEMMA GracedDelete ==
  ASSUME TypeOK, Eligible, Graced, NEW c \in Calls, DeleteUser(c)
  PROVE  Graced'
<1> DEFINE u == call[c].user
<1>1. u \in Users /\ users \in [Users -> Account \cup {Unborn, Deleted}]
  BY DEF DeleteUser, IsAt, TypeOK, WellFormed
<1>2. hist \in History /\ call \in [Calls -> Frame]
  BY DEF TypeOK
<1>3. users' = [users EXCEPT ![u] = Deleted] /\ minted' = minted
  BY DEF DeleteUser
<1>4. /\ hist'.late = hist.late /\ hist'.parent = hist.parent
      /\ hist'.grace = IF Live(u) THEN [hist.grace EXCEPT ![u] = Cardinality(AboutToIssue(u))]
                       ELSE hist.grace
  BY <1>2 DEF DeleteUser, History
<1>5. call' = [call EXCEPT ![c] = Idle] /\ call[c].at = "delete"
  BY DEF DeleteUser, Finish, IsAt
<1>6. ASSUME NEW o \in Users  PROVE UserGraced(o)'
  <2>1. UserGraced(o)
    BY DEF Graced
  <2>2. AboutToIssue(o)' = AboutToIssue(o)
    BY <1>2, <1>5 DEF AboutToIssue, Idle
  <2>3. Cardinality(AboutToIssue(o)) \in Nat /\ hist.grace[o] \in Nat
    BY <1>2, AboutFinite DEF History
  <2>4. CASE o = u /\ Live(u)
    <3>1. hist.late[o] = {} /\ hist'.grace[o] = Cardinality(AboutToIssue(o))
      BY <1>2, <1>4, <2>1, <2>4 DEF UserGraced, Live, History
    <3>2. Cardinality(hist'.late[o]) = 0
      BY <1>4, <3>1, FS_EmptySet
    <3> QED
      BY <1>3, <1>4, <2>1, <2>2, <2>3, <3>1, <3>2 DEF UserGraced
  <2>5. CASE o = u /\ users[u] = Unborn
    <3>1. AboutToIssue(o) = {}
      BY <2>5, RowsAssumption DEF AboutToIssue, Eligible, Writing, Was, Verified, Live
    <3>2. hist.late[o] = {} /\ hist'.grace[o] = hist.grace[o]
      BY <1>4, <2>1, <2>5, RowsAssumption DEF UserGraced, Live
    <3>3. Cardinality(hist'.late[o]) = 0 /\ Cardinality(AboutToIssue(o)') = 0
      BY <1>4, <2>2, <3>1, <3>2, FS_EmptySet
    <3> QED
      BY <1>3, <1>4, <2>1, <2>3, <3>2, <3>3 DEF UserGraced
  <2>6. CASE o # u \/ users[u] = Deleted
    <3>1. users'[o] = users[o] /\ hist'.grace[o] = hist.grace[o]
      BY <1>1, <1>2, <1>3, <1>4, <2>6 DEF Live, History
    <3> QED
      BY <1>3, <1>4, <2>1, <2>2, <3>1 DEF UserGraced
  <2> QED
    BY <2>4, <2>5, <2>6 DEF Live
<1>7. ASSUME NEW d \in Calls, call'[d].at \in Holding  PROVE CallGraced(d)'
  <2>1. call'[d] = call[d]
    BY <1>2, <1>5, <1>7 DEF Idle, Holding
  <2> QED
    BY <1>3, <1>4, <1>7, <2>1 DEF Graced, CallGraced
<1> QED
  BY <1>6, <1>7 DEF Graced, CallGraced

\* Only a deletion deletes.
LEMMA OnlyDeleteDeletes ==
  ASSUME TypeOK, [Next]_vars, NEW u \in Users, users'[u] = Deleted, users[u] # Deleted
  PROVE  \E c \in Calls : DeleteUser(c)
<1> USE RowsAssumption DEF IsAt
<1>1. users \in [Users -> Account \cup {Unborn, Deleted}]
  BY DEF TypeOK
<1>2. ASSUME NEW o \in Users, NEW a \in Account, users' = [users EXCEPT ![o] = a]  PROVE FALSE
  BY <1>1, <1>2
<1>3. ASSUME NEW o \in Users, NEW pw \in Passwords, Register(o, pw)  PROVE FALSE
  <2>1. [verified |-> FALSE, pw |-> pw, secret |-> Nil] \in Account
    BY DEF Account
  <2> QED
    BY <1>2, <1>3, <2>1 DEF Register
<1>4. ASSUME NEW c \in Calls, VerifyUser(c)  PROVE FALSE
  <2>1. Live(u) /\ users'[u] = [users[u] EXCEPT !.verified = TRUE]
    BY <1>1, <1>4 DEF VerifyUser, Marks
  <2>2. users'[u] \in Account
    BY <2>1, RowType DEF Account
  <2> QED
    BY <2>2
<1>5. ASSUME NEW c \in Calls, SetPassword(c)  PROVE FALSE
  <2>1. call[c].user \in Users /\ call[c].val \in Passwords
    BY <1>5 DEF SetPassword, TypeOK, WellFormed
  <2>2. Live(call[c].user) => [users[call[c].user] EXCEPT !.pw = call[c].val] \in Account
    BY <2>1, RowType DEF Account
  <2> QED
    BY <1>2, <1>5, <2>1, <2>2 DEF SetPassword
<1>6. ASSUME NEW c \in Calls, SetMFASecret(c)  PROVE FALSE
  <2>1. call[c].user \in Users /\ call[c].val \in Secrets
    BY <1>6 DEF SetMFASecret, TypeOK, WellFormed
  <2>2. Live(call[c].user) => [users[call[c].user] EXCEPT !.secret = call[c].val] \in Account
    BY <2>1, RowType DEF Account
  <2> QED
    BY <1>2, <1>6, <2>1, <2>2 DEF SetMFASecret, SecretToStore
<1>7. ASSUME NEW o \in Users, DisableMFA(o)  PROVE FALSE
  <2>1. [users[o] EXCEPT !.secret = Nil] \in Account
    BY <1>7, RowType DEF DisableMFA, Account
  <2> QED
    BY <1>2, <1>7, <2>1 DEF DisableMFA
<1>8. users' # users
  OBVIOUS
<1>9. ASSUME NEW c \in Calls, Serve(c)  PROVE DeleteUser(c)
  BY <1>4, <1>5, <1>6, <1>8, <1>9 DEF Serve, VerifyEmail, Login, RequestPasswordReset, DeleteAccount,
     VerifyAndEnableMFA, ChangePassword, IssueTokens, Refresh, MintChallenge, VerifyMFALogin,
     MintReset, ResetPassword, VerifyMFACode, DropChallenge, IssueFails, RefreshUser, RefreshDel,
     DropReset, DropPending
<1> QED
  BY <1>3, <1>7, <1>8, <1>9 DEF Next, Logout, SetupMFA, Expire, vars

LEMMA GracedStep ==
  ASSUME TypeOK, TokensMinted, Eligible, Graced, [Next]_vars
  PROVE  Graced'
<1> USE DEF IsAt
<1>1. hist \in History /\ call \in [Calls -> Frame] /\ (\A c \in Calls : WellFormed(call[c]))
  BY DEF TypeOK
<1> DEFINE Quiet == /\ minted \subseteq minted'
                    /\ hist'.late = hist.late
                    /\ hist'.grace = hist.grace
                    /\ hist'.parent = hist.parent
           Moved == /\ \A c \in Calls : call'[c].at \in Awaiting =>
                         \/ call[c].at \in Awaiting /\ call'[c].user = call[c].user
                         \/ call'[c].user \in Users /\ Live(call'[c].user)
                    /\ \A c \in Calls : call'[c].at \in Holding =>
                         \/ call'[c].tok = Nil
                         \/ call[c].at \in Holding /\ call'[c].tok = call[c].tok
                            /\ call'[c].user = call[c].user
                         \/ call'[c].tok \in minted /\ Live(call'[c].user)
<1>2. \A c \in Calls : call[c].at \in Awaiting \cup {"refresh_user", "mfa_user"} => call[c].user \in Users
  BY <1>1 DEF WellFormed, Awaiting
<1>3. ASSUME Quiet, Moved, \A c \in Calls : ~ DeleteUser(c)  PROVE Graced'
  <2>1. \A u \in Users : users'[u] = Deleted => users[u] = Deleted
    BY <1>3, OnlyDeleteDeletes
  <2>2. \A u \in Users : users[u] = Deleted => users'[u] = Deleted
    BY RowsStep
  <2>3. \A c \in Calls : call'[c].at \in Holding => call'[c].user \in Users
    BY <1>2, <1>3 DEF Awaiting, Holding
  <2> QED
    BY <1>3, <2>1, <2>2, <2>3, GracedKept
\* Requests that begin behind a look at the user, or go behind it.
<1>4. ASSUME NEW c \in Calls, NEW u \in Users, Login(c, u)  PROVE Quiet /\ Moved
  BY <1>1, <1>4 DEF Login, MayLogIn, Verified, Begin, Awaiting, Holding
<1>5. ASSUME NEW c \in Calls, VerifyMFACode(c)  PROVE Quiet /\ Moved
  <2>1. CASE Finish(c)
    BY <1>1, <1>5, <2>1 DEF VerifyMFACode, Finish, Idle, Awaiting, Holding
  <2>2. CASE Live(call[c].user) /\ \E secret : Passes(c, secret)
    BY <1>1, <1>2, <1>5, <2>2 DEF VerifyMFACode, Passes, Frame, Awaiting, Holding
  <2> QED
    BY <1>5, <2>1, <2>2 DEF VerifyMFACode
<1>6. ASSUME NEW c \in Calls, RefreshUser(c)  PROVE Quiet /\ Moved
  <2>1. CASE Finish(c)
    BY <1>1, <1>6, <2>1 DEF RefreshUser, Finish, Idle, Awaiting, Holding
  <2>2. CASE Live(call[c].user) /\ Goto(c, "refresh_del")
    <3>1. call[c].tok \in minted
      BY <1>6 DEF RefreshUser, TokensMinted
    <3> QED
      BY <1>1, <1>2, <1>6, <2>2, <3>1 DEF RefreshUser, Goto, Frame, Awaiting, Holding
  <2> QED
    BY <1>6, <2>1, <2>2 DEF RefreshUser
<1>7. ASSUME NEW c \in Calls, DropChallenge(c) \/ RefreshDel(c)  PROVE Quiet /\ Moved
  <2>1. Moved
    BY <1>1, <1>7 DEF DropChallenge, RefreshDel, Goto, Frame, Awaiting, Holding
  <2> QED
    BY <1>1, <1>7, <2>1 DEF DropChallenge, RefreshDel, History
<1>8. ASSUME NEW c \in Calls,
             \/ \E u \in Users : VerifyEmail(c, u) \/ RequestPasswordReset(c, u)
                                 \/ DeleteAccount(c, u) \/ VerifyAndEnableMFA(c, u)
             \/ \E u \in Users, pw \in Passwords : ChangePassword(c, u, pw)
             \/ \E t \in RTokens : Refresh(c, t)
             \/ \E t \in CTokens : VerifyMFALogin(c, t)
             \/ \E t \in PTokens, pw \in Passwords : ResetPassword(c, t, pw)
      PROVE  Quiet /\ Moved
  <2>1. \A d \in Calls : call'[d].at \in Awaiting => call'[d] = call[d]
    BY <1>1, <1>8 DEF VerifyEmail, RequestPasswordReset, DeleteAccount, VerifyAndEnableMFA,
       ChangePassword, Refresh, VerifyMFALogin, ResetPassword, Begin, Awaiting
  <2>2. Quiet
    BY <1>1, <1>8 DEF VerifyEmail, RequestPasswordReset, DeleteAccount, VerifyAndEnableMFA,
       ChangePassword, Refresh, VerifyMFALogin, ResetPassword, History
  <2> QED
    BY <2>1, <2>2 DEF Awaiting, Holding
\* Requests that end, or do something else.
<1>9. ASSUME NEW c \in Calls,
             \/ \E t \in CTokens : MintChallenge(c, t)
             \/ \E t \in PTokens : MintReset(c, t)
             \/ VerifyUser(c) \/ IssueFails(c) \/ SetPassword(c) \/ DropReset(c)
             \/ SetMFASecret(c) \/ DropPending(c)
      PROVE  Quiet /\ Moved
  <2>1. \/ Finish(c)
        \/ \E step \in {"reset_del", "pending_del"} : Goto(c, step)
    BY <1>9 DEF MintChallenge, MintReset, VerifyUser, IssueFails, SetPassword, DropReset,
       SetMFASecret, DropPending
  <2>2. \A d \in Calls : call'[d].at \in Awaiting => call'[d] = call[d]
    BY <1>1, <2>1 DEF Finish, Goto, Idle, Frame, Awaiting
  <2>3. Quiet
    BY <1>1, <1>9 DEF History, MintChallenge, MintReset, VerifyUser, IssueFails, SetPassword, DropReset,
       SetMFASecret, DropPending
  <2> QED
    BY <2>2, <2>3 DEF Awaiting, Holding
<1>10. ASSUME NEW c \in Calls, Serve(c), \A d \in Calls : ~ DeleteUser(d)
       PROVE  (Quiet /\ Moved) \/ \E t \in RTokens : IssueTokens(c, t)
  BY <1>4, <1>5, <1>6, <1>7, <1>8, <1>9, <1>10 DEF Serve
<1>11. ASSUME \/ \E u \in Users, pw \in Passwords : Register(u, pw)
              \/ \E t \in RTokens : Logout(t)
              \/ \E u \in Users : DisableMFA(u) \/ \E s \in Secrets : SetupMFA(u, s)
              \/ Expire
              \/ UNCHANGED vars
       PROVE  Quiet /\ Moved
  <2>1. call' = call /\ minted' = minted /\ Quiet
    BY <1>1, <1>11 DEF Register, Logout, DisableMFA, SetupMFA, Expire, vars, History
  <2> QED
    BY <2>1 DEF Awaiting, Holding
<1>12. CASE \E c \in Calls : DeleteUser(c)
  BY <1>12, GracedDelete
<1>13. CASE \A c \in Calls : ~ DeleteUser(c)
  <2>1. CASE \E c \in Calls, t \in RTokens : IssueTokens(c, t)
    BY <2>1, GracedIssue
  <2>2. CASE Quiet /\ Moved
    BY <1>3, <1>13, <2>2
  <2> QED
    BY <1>10, <1>11, <1>13, <2>1, <2>2 DEF Next
<1> QED
  BY <1>12, <1>13

(***************************************************************************)
(* The second factor: the bare logins under way when it is enabled are     *)
(* counted, each of them leaves the count when it issues, and no request   *)
(* joins them while it is enabled.                                         *)
(***************************************************************************)
UserAsked(u) == HasMFA(u) => Cardinality(BareLogins(u)) + hist.unasked[u] <= hist.looked[u]
Asked == \A u \in Users : UserAsked(u)

\* A step after which the user still has a second factor, with no more bare logins.
LEMMA AskedKept ==
  ASSUME TypeOK, NEW u \in Users, UserAsked(u),
         HasMFA(u)' => /\ HasMFA(u) /\ BareLogins(u)' \subseteq BareLogins(u)
                       /\ hist'.looked[u] = hist.looked[u] /\ hist'.unasked[u] = hist.unasked[u]
  PROVE  UserAsked(u)'
<1> SUFFICES ASSUME HasMFA(u)'
             PROVE  Cardinality(BareLogins(u)') + hist'.unasked[u] <= hist'.looked[u]
  BY DEF UserAsked
<1>1. /\ Cardinality(BareLogins(u)') \in Nat
      /\ Cardinality(BareLogins(u)) \in Nat
      /\ Cardinality(BareLogins(u)') <= Cardinality(BareLogins(u))
  BY BareFinite
<1>2. hist.looked[u] \in Nat /\ hist.unasked[u] \in Nat
  BY DEF TypeOK, History
<1> QED
  BY <1>1, <1>2 DEF UserAsked

\* A bare login issues its pair.
LEMMA AskedIssue ==
  ASSUME TypeOK, Asked, NEW c \in Calls, NEW t \in RTokens, IssueTokens(c, t)
  PROVE  Asked'
<1> SUFFICES ASSUME NEW u \in Users  PROVE UserAsked(u)'
  BY DEF Asked
<1>1. call \in [Calls -> Frame] /\ hist \in History
  BY DEF TypeOK
<1>2. /\ HasMFA(u)' <=> HasMFA(u)
      /\ hist'.looked[u] = hist.looked[u]
      /\ hist'.unasked[u] = IF u = call[c].user /\ HasMFA(u) /\ c \in BareLogins(u)
                            THEN hist.unasked[u] + 1 ELSE hist.unasked[u]
  BY <1>1 DEF IssueTokens, History, HasMFA, Live
<1>3. BareLogins(u)' = BareLogins(u) \ {c}
  BY <1>1 DEF IssueTokens, Finish, Idle, BareLogins, IsAt
<1>4. CASE HasMFA(u) /\ c \in BareLogins(u)
  <2>1. u = call[c].user
    BY <1>4 DEF BareLogins
  <2>2. Cardinality(BareLogins(u)') = Cardinality(BareLogins(u)) - 1
    BY <1>3, <1>4, BareFinite, FS_RemoveElement
  <2>3. hist.looked[u] \in Nat /\ hist.unasked[u] \in Nat /\ Cardinality(BareLogins(u)) \in Nat
    BY <1>1, BareFinite DEF History
  <2>4. Cardinality(BareLogins(u)) + hist.unasked[u] <= hist.looked[u]
    BY <1>4 DEF Asked, UserAsked
  <2>5. Cardinality(BareLogins(u)') + hist'.unasked[u] <= hist'.looked[u]
    BY <1>2, <1>4, <2>1, <2>2, <2>3, <2>4
  <2> QED
    BY <2>5 DEF UserAsked
<1>5. CASE ~ (HasMFA(u) /\ c \in BareLogins(u))
  BY <1>2, <1>3, <1>5, AskedKept DEF Asked
<1> QED
  BY <1>4, <1>5

\* The second factor is enabled, or its secret replaced.
LEMMA AskedEnable ==
  ASSUME TypeOK, Asked, NEW c \in Calls, SetMFASecret(c)
  PROVE  Asked'
<1> SUFFICES ASSUME NEW u \in Users  PROVE UserAsked(u)'
  BY DEF Asked
<1>1. call \in [Calls -> Frame] /\ hist \in History /\ users \in [Users -> Account \cup {Unborn, Deleted}]
  BY DEF TypeOK
<1>2. BareLogins(u)' \subseteq BareLogins(u)
  BY <1>1 DEF SetMFASecret, Goto, BareLogins, IsAt, Frame
<1>3. CASE u = call[c].user /\ Live(u) /\ ~ HasMFA(u)
  <2>1. hist'.looked[u] = Cardinality(BareLogins(u)) /\ hist'.unasked[u] = 0
    BY <1>1, <1>3 DEF SetMFASecret, History
  <2>2. /\ Cardinality(BareLogins(u)') \in Nat
        /\ Cardinality(BareLogins(u)) \in Nat
        /\ Cardinality(BareLogins(u)') <= Cardinality(BareLogins(u))
    BY <1>2, BareFinite
  <2> QED
    BY <2>1, <2>2 DEF UserAsked
<1>4. CASE u = call[c].user /\ (~ Live(u) \/ HasMFA(u))
  <2>1. hist' = hist /\ (~ Live(u) => users' = users)
    BY <1>4 DEF SetMFASecret, HasMFA
  <2>2. HasMFA(u)' => HasMFA(u)
    BY <1>4, <2>1 DEF HasMFA, Live
  <2> QED
    BY <1>2, <2>1, <2>2, AskedKept DEF Asked
<1>5. CASE u # call[c].user
  <2>1. /\ users'[u] = users[u]
        /\ hist'.looked[u] = hist.looked[u] /\ hist'.unasked[u] = hist.unasked[u]
    BY <1>1, <1>5 DEF SetMFASecret, History
  <2> QED
    BY <1>2, <2>1, AskedKept DEF Asked, HasMFA, Live
<1> QED
  BY <1>3, <1>4, <1>5

\* No other step gives a user a second factor.
LEMMA OnlyEnableEnables ==
  ASSUME TypeOK, [Next]_vars, \A c \in Calls : ~ SetMFASecret(c), NEW u \in Users, HasMFA(u)'
  PROVE  HasMFA(u)
<1> USE RowsAssumption DEF IsAt, HasMFA, Live
<1>1. users \in [Users -> Account \cup {Unborn, Deleted}]
  BY DEF TypeOK
<1>2. CASE users'[u] = users[u]
  BY <1>2
<1>3. ASSUME NEW o \in Users, NEW pw \in Passwords, Register(o, pw)  PROVE HasMFA(u)
  BY <1>1, <1>2, <1>3 DEF Register
<1>4. ASSUME NEW c \in Calls, VerifyUser(c)  PROVE HasMFA(u)
  <2>1. CASE u \in Marks(call[c].user)
    <3>1. Live(u) /\ users'[u] = [users[u] EXCEPT !.verified = TRUE] /\ users[u] \in Account
      BY <1>4, <2>1, RowType DEF VerifyUser, Marks
    <3> QED
      BY <3>1 DEF Account
  <2>2. CASE u \notin Marks(call[c].user)
    BY <1>2, <1>4, <2>2 DEF VerifyUser
  <2> QED
    BY <2>1, <2>2
<1>5. ASSUME NEW c \in Calls, SetPassword(c)  PROVE HasMFA(u)
  <2>1. CASE users'[u] # users[u]
    <3>1. Live(u) /\ users'[u] = [users[u] EXCEPT !.pw = call[c].val] /\ users[u] \in Account
      BY <1>1, <1>5, <2>1, RowType DEF SetPassword
    <3> QED
      BY <3>1 DEF Account
  <2> QED
    BY <1>2, <2>1
<1>6. ASSUME NEW c \in Calls, DeleteUser(c)  PROVE HasMFA(u)
  BY <1>1, <1>2, <1>6 DEF DeleteUser
<1>7. ASSUME NEW o \in Users, DisableMFA(o)  PROVE HasMFA(u)
  <2>1. CASE u = o
    <3>1. users'[u] = [users[u] EXCEPT !.secret = Nil] /\ users[u] \in Account
      BY <1>1, <1>7, <2>1, RowType DEF DisableMFA
    <3> QED
      BY <3>1 DEF Account
  <2> QED
    BY <1>1, <1>2, <1>7, <2>1 DEF DisableMFA
<1>8. CASE UNCHANGED users
  BY <1>2, <1>8
<1>9. ASSUME NEW c \in Calls, Serve(c)  PROVE HasMFA(u)
  BY <1>4, <1>5, <1>6, <1>8, <1>9 DEF Serve, VerifyEmail, Login, RequestPasswordReset, DeleteAccount,
     VerifyAndEnableMFA, ChangePassword, IssueTokens, Refresh, MintChallenge, VerifyMFALogin,
     MintReset, ResetPassword, VerifyMFACode, DropChallenge, IssueFails, RefreshUser, RefreshDel,
     DropReset, DropPending
<1> QED
  BY <1>3, <1>7, <1>8, <1>9 DEF Next, Logout, SetupMFA, Expire, vars

\* No step adds a bare login of a user who has a second factor: Login asks for a code, the
\* code was checked against a secret, and a Refresh carries its token.
LEMMA NoMoreBare ==
  ASSUME TypeOK, [Next]_vars, NEW u \in Users, HasMFA(u)
  PROVE  BareLogins(u)' \subseteq BareLogins(u)
<1> USE NilAssumption DEF IsAt
<1>1. call \in [Calls -> Frame] /\ \A c \in Calls : WellFormed(call[c])
  BY DEF TypeOK
<1> SUFFICES ASSUME NEW d \in Calls, call'[d] # call[d], call'[d].user = u,
                    call'[d].at = "issue", call'[d].tok = Nil, call'[d].val = Nil
             PROVE  FALSE
  BY DEF BareLogins
<1>2. ASSUME NEW c \in Calls, NEW step, step # "issue", Goto(c, step)  PROVE FALSE
  BY <1>1, <1>2 DEF Goto, Frame
<1>3. ASSUME NEW c \in Calls, Finish(c)  PROVE FALSE
  BY <1>1, <1>3 DEF Finish, Idle
<1>4. ASSUME NEW c \in Calls, NEW o \in Users, Login(c, o)  PROVE FALSE
  BY <1>1, <1>4 DEF Login, Begin, HasMFA
<1>5. ASSUME NEW c \in Calls, DropChallenge(c)  PROVE FALSE
  BY <1>1, <1>5 DEF DropChallenge, WellFormed, Frame
<1>6. ASSUME NEW c \in Calls, RefreshDel(c)  PROVE FALSE
  BY <1>1, <1>6 DEF RefreshDel, Goto, WellFormed, Frame
<1>7. ASSUME NEW c \in Calls, VerifyMFACode(c)  PROVE FALSE
  BY <1>1, <1>3, <1>7 DEF VerifyMFACode, Passes, Frame
<1>8. ASSUME NEW c \in Calls,
             \/ \E o \in Users : VerifyEmail(c, o) \/ RequestPasswordReset(c, o) \/ DeleteAccount(c, o)
                                 \/ VerifyAndEnableMFA(c, o)
             \/ \E o \in Users, pw \in Passwords : ChangePassword(c, o, pw)
             \/ \E t \in RTokens : Refresh(c, t)
             \/ \E t \in CTokens : VerifyMFALogin(c, t)
             \/ \E t \in PTokens, pw \in Passwords : ResetPassword(c, t, pw)
      PROVE  FALSE
  BY <1>1, <1>8 DEF VerifyEmail, RequestPasswordReset, DeleteAccount, VerifyAndEnableMFA,
     ChangePassword, Refresh, VerifyMFALogin, ResetPassword, Begin
<1>9. ASSUME NEW c \in Calls,
             \/ \E t \in RTokens : IssueTokens(c, t)
             \/ \E t \in CTokens : MintChallenge(c, t)
             \/ \E t \in PTokens : MintReset(c, t)
             \/ VerifyUser(c) \/ IssueFails(c) \/ RefreshUser(c) \/ SetPassword(c) \/ DropReset(c)
             \/ DeleteUser(c) \/ SetMFASecret(c) \/ DropPending(c)
      PROVE  FALSE
  <2>1. \/ Finish(c)
        \/ \E step \in {"refresh_del", "reset_del", "pending_del"} : Goto(c, step)
    BY <1>9 DEF IssueTokens, MintChallenge, MintReset, VerifyUser, IssueFails, RefreshUser,
       SetPassword, DropReset, DeleteUser, SetMFASecret, DropPending
  <2> QED
    BY <1>2, <1>3, <2>1
<1>10. ASSUME NEW c \in Calls, Serve(c)  PROVE FALSE
  BY <1>4, <1>5, <1>6, <1>7, <1>8, <1>9, <1>10 DEF Serve
<1>11. call' # call
  OBVIOUS
<1> QED
  BY <1>10, <1>11 DEF Next, Register, Logout, DisableMFA, SetupMFA, Expire, vars

LEMMA AskedStep ==
  ASSUME TypeOK, Asked, [Next]_vars
  PROVE  Asked'
<1>1. CASE \E c \in Calls, t \in RTokens : IssueTokens(c, t)
  BY <1>1, AskedIssue
<1>2. CASE \E c \in Calls : SetMFASecret(c)
  BY <1>2, AskedEnable
<1>3. CASE /\ \A c \in Calls, t \in RTokens : ~ IssueTokens(c, t)
           /\ \A c \in Calls : ~ SetMFASecret(c)
  <2>1. hist \in History
    BY DEF TypeOK
  <2>2. ASSUME NEW u \in Users, ~ DisableMFA(u)
        PROVE  hist'.looked[u] = hist.looked[u] /\ hist'.unasked[u] = hist.unasked[u]
    <3>1. ASSUME NEW c \in Calls, Serve(c)
          PROVE  hist'.looked = hist.looked /\ hist'.unasked = hist.unasked
      BY <1>3, <2>1, <3>1 DEF History, Serve, VerifyEmail, Login, RequestPasswordReset, DeleteAccount,
         VerifyAndEnableMFA, ChangePassword, Refresh, MintChallenge, VerifyMFALogin, MintReset,
         ResetPassword, VerifyUser, VerifyMFACode, DropChallenge, IssueFails, RefreshUser, RefreshDel,
         SetPassword, DropReset, DeleteUser, DropPending
    <3>2. ASSUME NEW o \in Users, o # u, DisableMFA(o)
          PROVE  hist'.looked[u] = hist.looked[u] /\ hist'.unasked[u] = hist.unasked[u]
      BY <2>1, <3>2 DEF DisableMFA, History
    <3> QED
      BY <2>2, <3>1, <3>2 DEF Next, Register, Logout, SetupMFA, Expire, vars
  <2>3. ASSUME NEW u \in Users, ~ DisableMFA(u)  PROVE UserAsked(u)'
    <3>1. HasMFA(u)' => HasMFA(u)
      BY <1>3, OnlyEnableEnables
    <3>2. HasMFA(u) => BareLogins(u)' \subseteq BareLogins(u)
      BY NoMoreBare
    <3> QED
      BY <2>2, <2>3, <3>1, <3>2, AskedKept DEF Asked
  <2>4. ASSUME NEW u \in Users, DisableMFA(u)  PROVE UserAsked(u)'
    <3>1. users'[u].secret = Nil
      BY <2>4, RowType DEF DisableMFA, TypeOK, Account
    <3> QED
      BY <3>1 DEF UserAsked, HasMFA
  <2> QED
    BY <2>3, <2>4 DEF Asked
<1> QED
  BY <1>1, <1>2, <1>3

(***************************************************************************)
(* The inductive invariant, and what follows.                              *)
(***************************************************************************)
IInv == TypeOK /\ TokensMinted /\ Eligible /\ Vouched /\ Graced /\ Asked

LEMMA InitHolds == Init => IInv
<1> SUFFICES ASSUME Init  PROVE IInv
  OBVIOUS
<1>1. TypeOK
  BY DEF Init, TypeOK, Idle, Frame, Steps, WellFormed, History
<1>2. TokensMinted
  BY DEF Init, TokensMinted, Idle
<1>3. Eligible
  BY DEF Init, Eligible, Idle, Writing
<1>4. Vouched
  BY DEF Init, Vouched, VerifiedByOwnToken, EnabledSecretWasProved, CallVouched, Verified, HasMFA, Live, Idle
<1>5. Graced
  <2>1. \A u \in Users : hist.late[u] = {} /\ users[u] = Unborn
    BY DEF Init
  <2>2. \A c \in Calls : call[c].at = "idle"
    BY DEF Init, Idle
  <2> QED
    BY <2>1, <2>2, FS_EmptySet, RowsAssumption DEF Graced, UserGraced, CallGraced, Holding
<1>6. Asked
  BY RowsAssumption DEF Init, Asked, UserAsked, HasMFA, Live
<1> QED
  BY <1>1, <1>2, <1>3, <1>4, <1>5, <1>6 DEF IInv

\* Every reachable state satisfies the inductive invariant.
THEOREM Invariance == Spec => []IInv
<1>1. IInv /\ [Next]_vars => IInv'
  BY TypeStep, MintedStep, EligibleStep, VouchedStep, GracedStep, AskedStep DEF IInv
<1> QED
  BY InitHolds, <1>1, PTL DEF Spec

\* auth-service's rows, keys and requests in progress have their types.
THEOREM TypeCorrect == Spec => []TypeOK
BY Invariance, PTL DEF IInv

\* Every token in Redis is of a user who had verified the address.
THEOREM TokensAreOfVerified == Spec => []TokensOnlyForVerified
<1>1. IInv => TokensOnlyForVerified
  BY RowsAssumption DEF IInv, TypeOK, Eligible, Was, TokensOnlyForVerified, Holders, Live
<1> QED
  BY Invariance, <1>1, PTL

\* An account is verified by its own verification token only.
THEOREM AccountsVerifyThemselves == Spec => []VerifiedByOwnToken
BY Invariance, PTL DEF IInv, Vouched

\* Every token in Redis is of a user whose address was verified by that user's own mail.
THEOREM OnlyMailReadersGetSessions == Spec => []SessionsAreOfMailReaders
BY TokensAreOfVerified, AccountsVerifyThemselves, PTL DEF SessionsAreOfMailReaders

\* An enabled MFA secret is one its user gave a valid code for.
THEOREM SecretsAreProved == Spec => []EnabledSecretWasProved
BY Invariance, PTL DEF IInv, Vouched

\* A deleted user is issued at most one pair for every request that was past its look at the
\* user when the row went, and no pair issued after the deletion is traded for another.
THEOREM SessionsEnd == Spec => []DeletedUserSessionsEnd
<1>1. ASSUME IInv, NEW u \in Users, users[u] = Deleted
      PROVE  /\ \A t \in hist.late[u] : hist.parent[t] \notin hist.late[u]
             /\ Cardinality(hist.late[u]) <= hist.grace[u]
  <2>1. UserGraced(u) /\ hist \in History
    BY <1>1 DEF IInv, Graced, TypeOK
  <2>2. Cardinality(hist.late[u]) \in Nat /\ Cardinality(AboutToIssue(u)) \in Nat /\ hist.grace[u] \in Nat
    BY <2>1, AboutFinite, FS_CardinalityType DEF UserGraced, History
  <2> QED
    BY <1>1, <2>1, <2>2 DEF UserGraced
<1>2. IInv => DeletedUserSessionsEnd
  BY <1>1 DEF DeletedUserSessionsEnd
<1> QED
  BY Invariance, <1>2, PTL

\* A password alone gives a pair, while the second factor is enabled, at most to the logins
\* that had looked at the user before it was.
THEOREM CodesAreAsked == Spec => []SecondFactorIsAsked
<1>1. ASSUME IInv, NEW u \in Users, HasMFA(u)  PROVE hist.unasked[u] <= hist.looked[u]
  <2>1. Cardinality(BareLogins(u)) + hist.unasked[u] <= hist.looked[u]
    BY <1>1 DEF IInv, Asked, UserAsked
  <2>2. Cardinality(BareLogins(u)) \in Nat /\ hist.unasked[u] \in Nat /\ hist.looked[u] \in Nat
    BY <1>1, BareFinite DEF IInv, TypeOK, History
  <2> QED
    BY <2>1, <2>2
<1>2. IInv => SecondFactorIsAsked
  BY <1>1 DEF SecondFactorIsAsked
<1> QED
  BY Invariance, <1>2, PTL

-----------------------------------------------------------------------------
(* The refinement of TokenGrants. *)

GrantsStay == UNCHANGED <<Members, Former, refresh, Given, hist.parent, Claims>>

\* Claims depend on the calls alone, and one call that moves changes one claim.
LEMMA ClaimsStay ==
  ASSUME \A d \in Calls : ClaimOf(call'[d]) = ClaimOf(call[d])
  PROVE  Claims' = Claims
BY DEF Claims

LEMMA OneClaims ==
  ASSUME NEW c \in Calls, NEW x, ClaimOf(call'[c]) = x, \A d \in Calls : d # c => call'[d] = call[d]
  PROVE  Claims' = [Claims EXCEPT ![c] = x]
BY DEF Claims

LEMMA NoneClaimed ==
  ASSUME NEW x, x.at \notin Claiming
  PROVE  ClaimOf(x) = [user |-> Nil, tok |-> Nil, good |-> FALSE]
<1>1. ~ (x.at \in Claiming) /\ ~ (x.at \in Claiming \ {"mfa_del"}) /\ ~ (x.at \in Claiming \ {"refresh_user"})
  OBVIOUS
<1>2. (x.at \in Claiming \ {"refresh_user"}) = FALSE
  BY <1>1
<1> QED
  BY <1>1, <1>2, Zenon DEF ClaimOf

LEMMA ClaimedAt ==
  ASSUME NEW x
  PROVE  /\ x.at = "refresh_user" => ClaimOf(x) = [user |-> x.user, tok |-> x.tok, good |-> FALSE]
         /\ x.at = "mfa_del" => ClaimOf(x) = [user |-> x.user, tok |-> Nil, good |-> TRUE]
         /\ x.at \in {"refresh_del", "issue"} => ClaimOf(x) = [user |-> x.user, tok |-> x.tok, good |-> TRUE]
<1>1. ASSUME x.at = "refresh_user" PROVE ClaimOf(x) = [user |-> x.user, tok |-> x.tok, good |-> FALSE]
  <2>1. x.at \in Claiming /\ x.at \in Claiming \ {"mfa_del"} /\ (x.at \in Claiming \ {"refresh_user"}) = FALSE
    BY <1>1 DEF Claiming
  <2> QED
    BY <2>1, Zenon DEF ClaimOf
<1>2. ASSUME x.at = "mfa_del" PROVE ClaimOf(x) = [user |-> x.user, tok |-> Nil, good |-> TRUE]
  <2>1. x.at \in Claiming /\ ~ (x.at \in Claiming \ {"mfa_del"}) /\ (x.at \in Claiming \ {"refresh_user"}) = TRUE
    BY <1>2 DEF Claiming
  <2> QED
    BY <2>1, Zenon DEF ClaimOf
<1>3. ASSUME x.at \in {"refresh_del", "issue"} PROVE ClaimOf(x) = [user |-> x.user, tok |-> x.tok, good |-> TRUE]
  <2>1. x.at \in Claiming /\ x.at \in Claiming \ {"mfa_del"} /\ (x.at \in Claiming \ {"refresh_user"}) = TRUE
    BY <1>3 DEF Claiming
  <2> QED
    BY <2>1, Zenon DEF ClaimOf
<1> QED
  BY <1>1, <1>2, <1>3

\* A row that stays verified or not, and deleted or not, is of a member or a former one as before.
LEMMA MembersStay ==
  ASSUME \A u \in Users : (Verified(u)' <=> Verified(u)) /\ (users'[u] = Deleted <=> users[u] = Deleted)
  PROVE  UNCHANGED <<Members, Former>>
<1>1. Members' = {u \in Users : Verified(u)'} /\ Former' = {u \in Users : users'[u] = Deleted}
  BY DEF Members, Former
<1> QED
  BY <1>1 DEF Members, Former

LEMMA SameMembers == UNCHANGED users => UNCHANGED <<Members, Former>>
<1> SUFFICES ASSUME UNCHANGED users PROVE UNCHANGED <<Members, Former>>
  OBVIOUS
<1>1. \A u \in Users : Verified(u)' <=> Verified(u)
  BY DEF Verified, Live
<1> QED
  BY <1>1, MembersStay

\* A step of a request that has no claim and gets none, of no refresh token and no row.
LEMMA NoClaims ==
  ASSUME TypeOK, NEW c \in Calls,
         \A d \in Calls : d # c => call'[d] = call[d],
         call[c].at \notin Claiming, call'[c].at \notin Claiming,
         UNCHANGED <<refresh, users>>, Given' = Given, hist'.parent = hist.parent
  PROVE  GrantsStay
<1>1. \A d \in Calls : ClaimOf(call'[d]) = ClaimOf(call[d])
  BY NoneClaimed
<1> QED
  BY <1>1, ClaimsStay, SameMembers DEF GrantsStay

\* Requests that begin without a claim.
LEMMA BeginsStay ==
  ASSUME TypeOK, NEW c \in Calls,
         \/ \E u \in Users : \/ VerifyEmail(c, u) \/ RequestPasswordReset(c, u) \/ DeleteAccount(c, u)
                             \/ VerifyAndEnableMFA(c, u) \/ \E pw \in Passwords : ChangePassword(c, u, pw)
         \/ \E t \in CTokens : VerifyMFALogin(c, t)
         \/ \E t \in PTokens, pw \in Passwords : ResetPassword(c, t, pw)
  PROVE  GrantsStay
<1>1. call \in [Calls -> Frame] /\ hist \in History
  BY DEF TypeOK
<1>2. PICK step \in Steps \ Claiming : \E u, t, v : Begin(c, step, u, t, v)
  BY DEF VerifyEmail, RequestPasswordReset, DeleteAccount, VerifyAndEnableMFA, ChangePassword,
         VerifyMFALogin, ResetPassword, Steps, Claiming
<1>3. \A d \in Calls : IF d = c THEN call[d].at = "idle" /\ call'[d].at = step ELSE call'[d] = call[d]
  BY <1>1, <1>2 DEF Begin, IsAt
<1>4. UNCHANGED <<refresh, users, minted>> /\ hist'.parent = hist.parent
  BY <1>1 DEF VerifyEmail, RequestPasswordReset, DeleteAccount, VerifyAndEnableMFA, ChangePassword,
              VerifyMFALogin, ResetPassword, stores, History
<1> QED
  BY <1>3, <1>4, NoClaims DEF Given, Claiming

\* Later steps of such requests.
LEMMA StepsStay ==
  ASSUME TypeOK, NEW c \in Calls,
         \/ \E t \in CTokens : MintChallenge(c, t)
         \/ \E t \in PTokens : MintReset(c, t)
         \/ DropReset(c) \/ DropPending(c)
  PROVE  GrantsStay
<1>1. call \in [Calls -> Frame] /\ hist \in History
  BY DEF TypeOK
<1>2. \A d \in Calls : IF d = c THEN call[d].at \notin Claiming /\ call'[d].at = "idle" ELSE call'[d] = call[d]
  BY <1>1 DEF MintChallenge, MintReset, DropReset, DropPending, Finish, Idle, IsAt, Claiming
<1>3. UNCHANGED <<refresh, users>> /\ hist'.parent = hist.parent
  BY DEF MintChallenge, MintReset, DropReset, DropPending
<1>4. Given' = Given
  BY KindsAssumption DEF MintChallenge, MintReset, DropReset, DropPending, Given
<1> QED
  BY <1>2, <1>3, <1>4, NoClaims DEF Claiming

\* Steps that change the rows: who is a member changes with the mail read and the row deleted only.
LEMMA RowsGrants ==
  ASSUME TypeOK, NEW c \in Calls, SetPassword(c) \/ SetMFASecret(c) \/ VerifyUser(c) \/ DeleteUser(c)
  PROVE  GrantsStay \/ \E u \in Users : Grants!Join(u) \/ Grants!Leave(u)
<1>1. call \in [Calls -> Frame] /\ hist \in History /\ WellFormed(call[c])
      /\ users \in [Users -> Account \cup {Unborn, Deleted}]
  BY DEF TypeOK
<1>2. PICK u \in Users : u = call[c].user
  BY <1>1 DEF SetPassword, SetMFASecret, VerifyUser, DeleteUser, IsAt, WellFormed
<1>3. \A d \in Calls : IF d = c THEN call[d].at \notin Claiming /\ call'[d].at \notin Claiming ELSE call'[d] = call[d]
  <2>1. \A d \in Calls : d # c => call'[d] = call[d]
    BY <1>1 DEF SetPassword, SetMFASecret, VerifyUser, DeleteUser, Goto, Finish
  <2>2. call[c].at \notin Claiming
    BY DEF SetPassword, SetMFASecret, VerifyUser, DeleteUser, IsAt, Claiming
  <2>3. call'[c].at \in {"idle", "reset_del", "pending_del"}
    <3>1. ASSUME NEW step \in {"reset_del", "pending_del"}, Goto(c, step) PROVE call'[c].at = step
      BY <1>1, <3>1 DEF Goto, Frame
    <3>2. Finish(c) => call'[c].at = "idle"
      BY <1>1 DEF Finish, Idle
    <3> QED
      BY <3>1, <3>2 DEF SetPassword, SetMFASecret, VerifyUser, DeleteUser
  <2> QED
    BY <2>1, <2>2, <2>3 DEF Claiming
<1>4. UNCHANGED <<refresh, Given>> /\ hist'.parent = hist.parent
  BY <1>1 DEF SetPassword, SetMFASecret, VerifyUser, DeleteUser, stores, Given, History
<1>5. Claims' = Claims
  <2>1. \A d \in Calls : ClaimOf(call'[d]) = ClaimOf(call[d])
    BY <1>3, NoneClaimed
  <2> QED
    BY <2>1, ClaimsStay
<1>6. CASE SetPassword(c) \/ SetMFASecret(c)
  <2>1. CASE ~ Live(u)
    <3>1. users' = users
      BY <1>2, <1>6, <2>1 DEF SetPassword, SetMFASecret
    <3> QED
      BY <1>4, <1>5, <3>1, SameMembers DEF GrantsStay
  <2>2. CASE Live(u)
    <3>1. \/ \E x \in Passwords : users' = [users EXCEPT ![u].pw = x]
          \/ \E x \in Secrets : users' = [users EXCEPT ![u].secret = x]
      <4>1. ASSUME SetPassword(c) PROVE \E x \in Passwords : users' = [users EXCEPT ![u].pw = x]
        BY <1>1, <1>2, <2>2, <4>1 DEF SetPassword, IsAt, WellFormed
      <4>2. ASSUME SetMFASecret(c) PROVE \E x \in Secrets : users' = [users EXCEPT ![u].secret = x]
        BY <1>1, <1>2, <2>2, <4>2 DEF SetMFASecret, SecretToStore, IsAt, WellFormed
      <4> QED
        BY <1>6, <4>1, <4>2
    <3>2. users[u] \in Account /\ users'[u] \in Account /\ users'[u].verified = users[u].verified
      <4>1. users[u] \in Account
        BY <2>2, RowType
      <4>2. ASSUME NEW x \in Passwords, users' = [users EXCEPT ![u].pw = x]
            PROVE  users'[u] \in Account /\ users'[u].verified = users[u].verified
        BY <1>1, <4>1, <4>2 DEF Account
      <4>3. ASSUME NEW x \in Secrets, users' = [users EXCEPT ![u].secret = x]
            PROVE  users'[u] \in Account /\ users'[u].verified = users[u].verified
        BY <1>1, <4>1, <4>3 DEF Account
      <4> QED
        BY <3>1, <4>1, <4>2, <4>3
    <3>3. \A o \in Users : o # u => users'[o] = users[o]
      BY <1>1, <3>1
    <3>4. \A o \in Users : (Verified(o)' <=> Verified(o)) /\ (users'[o] = Deleted <=> users[o] = Deleted)
      BY <3>2, <3>3, RowsAssumption DEF Verified, Live
    <3> QED
      BY <1>4, <1>5, <3>4, MembersStay DEF GrantsStay
  <2> QED
    BY <2>1, <2>2
<1>7. CASE VerifyUser(c)
  <2>1. users' = [o \in Users |-> IF o \in Marks(u) THEN [users[o] EXCEPT !.verified = TRUE] ELSE users[o]]
    BY <1>2, <1>7 DEF VerifyUser
  <2>2. CASE Live(u)
    <3>1. \A o \in Users : IF o = u THEN users'[o] = [users[o] EXCEPT !.verified = TRUE] ELSE users'[o] = users[o]
      BY <2>1, <2>2 DEF Marks
    <3>2. users'[u] \in Account /\ users'[u].verified /\ users[u] # Deleted
      BY <2>2, <3>1, RowType DEF Account, Live
    <3>3. \A o \in Users : (Verified(o)' <=> Verified(o) \/ o = u) /\ (users'[o] = Deleted <=> users[o] = Deleted)
      BY <3>1, <3>2, RowsAssumption DEF Verified, Live
    <3>4. Members' = Members \cup {u} /\ Former' = Former /\ u \notin Former
      <4>1. Members' = {o \in Users : Verified(o)'} /\ Former' = {o \in Users : users'[o] = Deleted}
        BY DEF Members, Former
      <4> QED
        BY <3>2, <3>3, <4>1 DEF Members, Former
    <3> QED
      BY <1>4, <1>5, <3>4 DEF Grants!Join
  <2>3. CASE ~ Live(u)
    <3>1. users' = users
      BY <1>1, <2>1, <2>3 DEF Marks
    <3> QED
      BY <1>4, <1>5, <3>1, SameMembers DEF GrantsStay
  <2> QED
    BY <2>2, <2>3
<1>8. CASE DeleteUser(c)
  <2>1. users' = [users EXCEPT ![u] = Deleted]
    BY <1>2, <1>8 DEF DeleteUser
  <2>2. \A o \in Users : /\ Verified(o)' <=> Verified(o) /\ o # u
                         /\ users'[o] = Deleted <=> users[o] = Deleted \/ o = u
    BY <1>1, <2>1 DEF Verified, Live
  <2>3. Members' = Members \ {u} /\ Former' = Former \cup {u}
    <3>1. Members' = {o \in Users : Verified(o)'} /\ Former' = {o \in Users : users'[o] = Deleted}
      BY DEF Members, Former
    <3> QED
      BY <2>2, <3>1 DEF Members, Former
  <2> QED
    BY <1>4, <1>5, <2>3 DEF Grants!Leave
<1> QED
  BY <1>6, <1>7, <1>8

\* Who signs in is a member: the password is checked of a verified row, and the code of one
\* that was verified when the challenge was issued.
LEMMA AdmitStep ==
  ASSUME IInv, NEW c \in Calls, (\E u \in Users : Login(c, u)) \/ VerifyMFACode(c)
  PROVE  GrantsStay \/ \E u \in Users : Grants!Admit(c, u)
<1>1. call \in [Calls -> Frame] /\ WellFormed(call[c])
  BY DEF IInv, TypeOK
<1>2. UNCHANGED <<users, refresh, Given, hist>> /\ UNCHANGED <<Members, Former>>
  BY SameMembers DEF Login, VerifyMFACode, stores, Given
<1>3. \A d \in Calls : d # c => call'[d] = call[d]
  BY <1>1 DEF Login, VerifyMFACode, Passes, Begin, Finish
<1>4. call[c].at \notin Claiming
  BY DEF Login, VerifyMFACode, Begin, IsAt, Claiming
<1>5. CASE call'[c].at \notin Claiming
  BY <1>2, <1>3, <1>4, <1>5, NoClaims DEF IInv
<1>6. CASE call'[c].at \in Claiming
  <2>1. PICK u \in Users : /\ Verified(u)
                           /\ call'[c].user = u
                           /\ \/ call'[c].at = "mfa_del"
                              \/ call'[c].at = "issue" /\ call'[c].tok = Nil
    <3>1. ASSUME NEW u \in Users, Login(c, u) PROVE Verified(u) /\ call'[c].user = u /\ call'[c].at = "issue" /\ call'[c].tok = Nil
      BY <1>1, <1>6, <3>1 DEF Login, Begin, MayLogIn, Claiming
    <3>2. ASSUME VerifyMFACode(c)
          PROVE  call[c].user \in Users /\ Verified(call[c].user) /\ call'[c].user = call[c].user /\ call'[c].at = "mfa_del"
      <4>1. call[c].at = "mfa_user" /\ call[c].user \in Users /\ Was(call[c].user)
        BY <1>1, <3>2 DEF IInv, Eligible, Writing, VerifyMFACode, IsAt, WellFormed
      <4>2. Live(call[c].user) /\ \E secret : Passes(c, secret)
        BY <1>1, <1>6, <3>2 DEF VerifyMFACode, Finish, Idle, Claiming
      <4> QED
        BY <1>1, <4>1, <4>2 DEF Passes, Was, Live, Frame
    <3> QED
      BY <3>1, <3>2
  <2>2. ClaimOf(call'[c]) = [user |-> u, tok |-> Nil, good |-> TRUE] /\ ClaimOf(call[c]) = [user |-> Nil, tok |-> Nil, good |-> FALSE]
    BY <1>4, <2>1, NoneClaimed, ClaimedAt
  <2>3. Claims' = [Claims EXCEPT ![c] = [user |-> u, tok |-> Nil, good |-> TRUE]]
    BY <1>3, <2>2, OneClaims
  <2>4. Claims[c] = [user |-> Nil, tok |-> Nil, good |-> FALSE] /\ u \in Members
    BY <2>1, <2>2 DEF Claims, Members
  <2> QED
    BY <1>2, <2>3, <2>4 DEF Grants!Admit, Grants!Claims, Grants!SignIn, Grants!NoClaim
<1> QED
  BY <1>5, <1>6

\* A refresh: its token is found, its user is found a member, its token is given up.
LEMMA PresentStep ==
  ASSUME IInv, NEW c \in Calls, NEW t \in RTokens, Refresh(c, t)
  PROVE  Grants!Present(c, t)
<1>1. call \in [Calls -> Frame]
  BY DEF IInv, TypeOK
<1>2. UNCHANGED <<users, refresh, Given, hist>> /\ UNCHANGED <<Members, Former>>
  BY SameMembers DEF Refresh, stores, Given
<1>3. /\ \A d \in Calls : d # c => call'[d] = call[d]
      /\ call[c].at = "idle" /\ call'[c].at = "refresh_user" /\ call'[c].user = refresh[t] /\ call'[c].tok = t
  BY <1>1 DEF Refresh, Begin, IsAt
<1>4. /\ ClaimOf(call'[c]) = [user |-> refresh[t], tok |-> t, good |-> FALSE]
      /\ ClaimOf(call[c]) = [user |-> Nil, tok |-> Nil, good |-> FALSE]
  BY <1>3, NoneClaimed, ClaimedAt DEF Claiming
<1>5. Claims' = [Claims EXCEPT ![c] = [user |-> refresh[t], tok |-> t, good |-> FALSE]]
      /\ Claims[c] = [user |-> Nil, tok |-> Nil, good |-> FALSE]
  BY <1>3, <1>4, OneClaims DEF Claims
<1> QED
  BY <1>2, <1>5 DEF Refresh, Grants!Present, Grants!Claims, Grants!NoClaim

LEMMA ConfirmStep ==
  ASSUME IInv, NEW c \in Calls, RefreshUser(c)
  PROVE  Grants!Confirm(c) \/ Grants!GiveUp(c)
<1>1. call \in [Calls -> Frame] /\ WellFormed(call[c])
  BY DEF IInv, TypeOK
<1>2. UNCHANGED <<users, refresh, Given, hist>> /\ UNCHANGED <<Members, Former>>
  BY SameMembers DEF RefreshUser, stores, Given
<1>3. call[c].at = "refresh_user" /\ call[c].user \in Users /\ Was(call[c].user)
  BY <1>1 DEF IInv, Eligible, Writing, RefreshUser, IsAt, WellFormed
<1>4. Claims[c] = [user |-> call[c].user, tok |-> call[c].tok, good |-> FALSE]
  BY <1>3, ClaimedAt DEF Claims
<1>5. CASE Live(call[c].user)
  <2>1. call' = [call EXCEPT ![c].at = "refresh_del"] /\ call[c].user \in Members
    BY <1>3, <1>5 DEF RefreshUser, Goto, Was, Members, Live
  <2>2. /\ \A d \in Calls : d # c => call'[d] = call[d]
        /\ call'[c].at = "refresh_del" /\ call'[c].user = call[c].user /\ call'[c].tok = call[c].tok
    BY <1>1, <2>1 DEF Frame
  <2>3. ClaimOf(call'[c]) = [user |-> call[c].user, tok |-> call[c].tok, good |-> TRUE]
    BY <2>2, ClaimedAt
  <2>4. Claims' = [Claims EXCEPT ![c] = [user |-> call[c].user, tok |-> call[c].tok, good |-> TRUE]]
    BY <2>2, <2>3, OneClaims
  <2>5. Claims[c].user = call[c].user /\ Claims[c].tok = call[c].tok
    BY <1>4
  <2> QED
    BY <1>2, <2>1, <2>4, <2>5 DEF Grants!Confirm, Grants!Claims
<1>6. CASE ~ Live(call[c].user)
  <2>1. (\A d \in Calls : d # c => call'[d] = call[d]) /\ call'[c].at = "idle"
    BY <1>1, <1>6 DEF RefreshUser, Finish, Idle
  <2>2. ClaimOf(call'[c]) = [user |-> Nil, tok |-> Nil, good |-> FALSE]
    BY <2>1, NoneClaimed DEF Claiming
  <2>3. Claims' = [Claims EXCEPT ![c] = [user |-> Nil, tok |-> Nil, good |-> FALSE]]
    BY <2>1, <2>2, OneClaims
  <2> QED
    BY <1>2, <2>3 DEF Grants!GiveUp, Grants!Claims, Grants!NoClaim
<1> QED
  BY <1>5, <1>6

\* The Del of the old token, which may fail, and the code that was used: the claim is kept.
LEMMA GivenUpStep ==
  ASSUME IInv, NEW c \in Calls, RefreshDel(c) \/ DropChallenge(c)
  PROVE  GrantsStay \/ \E t \in RTokens : Grants!End(t)
<1>1. call \in [Calls -> Frame] /\ WellFormed(call[c]) /\ hist \in History
  BY DEF IInv, TypeOK
<1>2. UNCHANGED <<users, Given>> /\ UNCHANGED <<Members, Former>> /\ hist'.parent = hist.parent
  BY <1>1, SameMembers DEF RefreshDel, DropChallenge, Given, History
<1>3. /\ \A d \in Calls : d # c => call'[d] = call[d]
      /\ call'[c].at = "issue" /\ call'[c].user = call[c].user
      /\ \/ call[c].at = "refresh_del" /\ call'[c].tok = call[c].tok
         \/ call[c].at = "mfa_del" /\ call'[c].tok = Nil
  BY <1>1 DEF RefreshDel, DropChallenge, Goto, IsAt, Frame
<1>4. \A d \in Calls : ClaimOf(call'[d]) = ClaimOf(call[d])
  BY <1>3, ClaimedAt
<1>5. Claims' = Claims
  BY <1>4, ClaimsStay
<1>6. refresh' = refresh \/ \E t \in RTokens : refresh' = [refresh EXCEPT ![t] = Nil]
  BY <1>1 DEF RefreshDel, DropChallenge, Dropped, Drop, IsAt, WellFormed
<1> QED
  BY <1>2, <1>5, <1>6 DEF GrantsStay, Grants!End

LEMMA IssueStep ==
  ASSUME IInv, NEW c \in Calls, NEW t \in RTokens, IssueTokens(c, t)
  PROVE  Grants!Issue(c, t)
<1>1. call \in [Calls -> Frame] /\ WellFormed(call[c]) /\ hist \in History
  BY DEF IInv, TypeOK
<1>2. UNCHANGED <<Members, Former>>
  BY SameMembers DEF IssueTokens
<1>3. /\ refresh' = [refresh EXCEPT ![t] = call[c].user]
      /\ t \notin Given /\ Given' = Given \cup {t}
      /\ hist'.parent = [hist.parent EXCEPT ![t] = call[c].tok]
  BY <1>1 DEF IssueTokens, Given, History
<1>4. /\ \A d \in Calls : d # c => call'[d] = call[d]
      /\ call[c].at = "issue" /\ call'[c].at = "idle"
  BY <1>1 DEF IssueTokens, Finish, Idle, IsAt
<1>5. Claims[c] = [user |-> call[c].user, tok |-> call[c].tok, good |-> TRUE]
  BY <1>4, ClaimedAt DEF Claims
<1>6. ClaimOf(call'[c]) = [user |-> Nil, tok |-> Nil, good |-> FALSE]
  BY <1>4, NoneClaimed DEF Claiming
<1>7. Claims' = [Claims EXCEPT ![c] = [user |-> Nil, tok |-> Nil, good |-> FALSE]]
  BY <1>4, <1>6, OneClaims
<1> QED
  BY <1>2, <1>3, <1>5, <1>7 DEF Grants!Issue, Grants!Claims, Grants!NoClaim

LEMMA GiveUpStep ==
  ASSUME IInv, NEW c \in Calls, IssueFails(c)
  PROVE  Grants!GiveUp(c)
<1>1. call \in [Calls -> Frame]
  BY DEF IInv, TypeOK
<1>2. UNCHANGED <<users, refresh, Given, hist>> /\ UNCHANGED <<Members, Former>>
  BY SameMembers DEF IssueFails, stores, Given
<1>3. (\A d \in Calls : d # c => call'[d] = call[d]) /\ call'[c].at = "idle"
  BY <1>1 DEF IssueFails, Finish, Idle
<1>4. ClaimOf(call'[c]) = [user |-> Nil, tok |-> Nil, good |-> FALSE]
  BY <1>3, NoneClaimed DEF Claiming
<1>5. Claims' = [Claims EXCEPT ![c] = [user |-> Nil, tok |-> Nil, good |-> FALSE]]
  BY <1>3, <1>4, OneClaims
<1> QED
  BY <1>2, <1>5 DEF Grants!GiveUp, Grants!Claims, Grants!NoClaim

\* What no request carries: registrations, logouts, MFA settings and TTLs.
LEMMA OtherGrants ==
  ASSUME IInv, \/ \E u \in Users, pw \in Passwords : Register(u, pw)
               \/ \E t \in RTokens : Logout(t)
               \/ \E u \in Users : DisableMFA(u) \/ \E s \in Secrets : SetupMFA(u, s)
               \/ Expire \/ UNCHANGED vars
  PROVE  GrantsStay \/ \E t \in RTokens : Grants!End(t)
<1>1. users \in [Users -> Account \cup {Unborn, Deleted}] /\ refresh \in [RTokens -> Users \cup {Nil}]
  BY DEF IInv, TypeOK
<1>2. UNCHANGED <<call, Given>> /\ hist'.parent = hist.parent
  BY DEF Register, Logout, DisableMFA, SetupMFA, Expire, vars, Given, IInv, TypeOK, History
<1>3. Claims' = Claims
  <2>1. \A d \in Calls : ClaimOf(call'[d]) = ClaimOf(call[d])
    BY <1>2
  <2> QED
    BY <2>1, ClaimsStay
<1>4. UNCHANGED <<Members, Former>>
  <2>1. CASE UNCHANGED users
    BY <2>1, SameMembers
  <2>2. ASSUME NEW u \in Users, NEW pw \in Passwords, Register(u, pw) PROVE UNCHANGED <<Members, Former>>
    <3>1. \A o \in Users : (Verified(o)' <=> Verified(o)) /\ (users'[o] = Deleted <=> users[o] = Deleted)
      <4>1. /\ users[u] = Unborn
            /\ users' = [users EXCEPT ![u] = [verified |-> FALSE, pw |-> pw, secret |-> Nil]]
        BY <2>2 DEF Register
      <4>2. [verified |-> FALSE, pw |-> pw, secret |-> Nil] \in Account
        BY DEF Account
      <4>3. ~ Verified(u)' /\ ~ Verified(u) /\ users'[u] # Deleted /\ users[u] # Deleted
        BY <1>1, <4>1, <4>2, RowsAssumption DEF Verified, Live
      <4>4. \A o \in Users : o # u => users'[o] = users[o]
        BY <1>1, <4>1
      <4> QED
        BY <4>3, <4>4 DEF Verified, Live
    <3> QED
      BY <3>1, MembersStay
  <2>3. ASSUME NEW u \in Users, DisableMFA(u) PROVE UNCHANGED <<Members, Former>>
    <3>1. \A o \in Users : (Verified(o)' <=> Verified(o)) /\ (users'[o] = Deleted <=> users[o] = Deleted)
      <4>1. users' = [users EXCEPT ![u] = [users[u] EXCEPT !.secret = Nil]] /\ Live(u)
        BY <2>3 DEF DisableMFA
      <4>2. users[u] \in Account
        BY <4>1, RowType DEF IInv
      <4>3. users'[u] \in Account /\ users'[u].verified = users[u].verified
        BY <1>1, <4>1, <4>2 DEF Account
      <4>4. \A o \in Users : o # u => users'[o] = users[o]
        BY <1>1, <4>1
      <4> QED
        BY <4>2, <4>3, <4>4, RowsAssumption DEF Verified, Live
    <3> QED
      BY <3>1, MembersStay
  <2> QED
    BY <2>1, <2>2, <2>3 DEF Logout, SetupMFA, Expire, vars
<1>5. refresh' = refresh \/ \E t \in RTokens : refresh' = [refresh EXCEPT ![t] = Nil]
  BY DEF Register, Logout, DisableMFA, SetupMFA, Expire, vars, stores, Dropped, Drop
<1> QED
  BY <1>2, <1>3, <1>4, <1>5 DEF GrantsStay, Grants!End

\* auth-service implements TokenGrants, for any users, tokens and requests: every step of a
\* request, of a Redis command that fails, or of a TTL is one of the grants or changes nothing
\* of them.
THEOREM TokensGranted == Spec => TokensAreGranted
<1>1. Init => Grants!GrantInit
  <2> SUFFICES ASSUME Init PROVE Grants!GrantInit
    OBVIOUS
  <2>1. Members = {} /\ Former = {}
    BY RowsAssumption DEF Init, Members, Former, Verified, Live
  <2>2. Claims = [c \in Calls |-> [user |-> Nil, tok |-> Nil, good |-> FALSE]]
    <3>1. \A c \in Calls : ClaimOf(call[c]) = [user |-> Nil, tok |-> Nil, good |-> FALSE]
      BY NoneClaimed DEF Init, Idle, Claiming
    <3> QED
      BY <3>1 DEF Claims
  <2>3. Given = {} /\ refresh = [t \in RTokens |-> Nil] /\ hist.parent = [t \in RTokens |-> Nil]
    BY DEF Init, Given
  <2> QED
    BY <2>1, <2>2, <2>3 DEF Grants!GrantInit, Grants!NoClaim
<1>2. IInv /\ [Next]_vars => [Grants!GrantNext]_(Grants!grantVars)
  <2> SUFFICES ASSUME IInv, [Next]_vars PROVE GrantsStay \/ Grants!GrantNext
    BY DEF GrantsStay, Grants!grantVars
  <2> USE DEF Grants!GrantNext
  <2>1. ASSUME NEW c \in Calls, Serve(c) PROVE GrantsStay \/ Grants!GrantNext
    <3>1. ASSUME NEW t \in RTokens, IssueTokens(c, t) \/ Refresh(c, t) PROVE Grants!GrantNext
      BY <3>1, IssueStep, PresentStep
    <3>2. CASE RefreshUser(c) \/ IssueFails(c)
      BY <3>2, ConfirmStep, GiveUpStep
    <3>3. CASE RefreshDel(c) \/ DropChallenge(c)
      BY <3>3, GivenUpStep
    <3>4. CASE (\E u \in Users : Login(c, u)) \/ VerifyMFACode(c)
      BY <3>4, AdmitStep
    <3>5. CASE SetPassword(c) \/ SetMFASecret(c) \/ VerifyUser(c) \/ DeleteUser(c)
      BY <3>5, RowsGrants DEF IInv
    <3>6. CASE \/ \E t \in CTokens : MintChallenge(c, t)
               \/ \E t \in PTokens : MintReset(c, t)
               \/ DropReset(c) \/ DropPending(c)
      BY <3>6, StepsStay DEF IInv
    <3>7. CASE \/ \E u \in Users : \/ VerifyEmail(c, u) \/ RequestPasswordReset(c, u) \/ DeleteAccount(c, u)
                                   \/ VerifyAndEnableMFA(c, u) \/ \E pw \in Passwords : ChangePassword(c, u, pw)
               \/ \E t \in CTokens : VerifyMFALogin(c, t)
               \/ \E t \in PTokens, pw \in Passwords : ResetPassword(c, t, pw)
      BY <3>7, BeginsStay DEF IInv
    <3> QED
      BY <2>1, <3>1, <3>2, <3>3, <3>4, <3>5, <3>6, <3>7 DEF Serve
  <2>2. ASSUME ~ \E c \in Calls : Serve(c) PROVE GrantsStay \/ Grants!GrantNext
    BY <2>2, OtherGrants DEF Next
  <2> QED
    BY <2>1, <2>2
<1> QED
  BY Invariance, <1>1, <1>2, PTL DEF Spec, TokensAreGranted, Grants!GrantSpec
==============================================================================
