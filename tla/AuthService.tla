---------------------------- MODULE AuthService ----------------------------
(***************************************************************************)
(* auth-service: accounts in PostgreSQL, and the opaque tokens it keeps in *)
(* Redis (refresh tokens, password reset tokens, MFA challenges, pending   *)
(* MFA secrets).  Requests run concurrently, on any number of replicas;    *)
(* every SQL statement and every Redis command is a step of its own, since *)
(* no operation holds a lock or a transaction over two of them (the one    *)
(* transaction, in CreateUserWithCredential, is one step).                 *)
(*                                                                         *)
(* A request that is refused before it changed anything is left out: a     *)
(* wrong password or a bad code changes no state.                          *)
(***************************************************************************)
EXTENDS Naturals, FiniteSets

CONSTANTS
  Users,       \* user ids
  EmailOf,     \* the address of a user id; a deleted account frees it for another id
  Passwords, Secrets,
  RTokens, PTokens, CTokens,   \* random refresh, reset and challenge tokens
  Calls,       \* requests in progress
  Nil,
  Unborn, Deleted,   \* what users holds for an account not created yet, and for a removed one
  Ops,         \* the operations the clients of this instance call
  RedisFails   \* Redis commands may fail

ASSUME NilAssumption == Nil \notin Users \cup Secrets \cup RTokens \cup PTokens \cup CTokens
ASSUME CallsAssumption == IsFiniteSet(Calls)
\* a random refresh token is not the same as one of another kind
ASSUME KindsAssumption == RTokens \cap (PTokens \cup CTokens) = {}

VARIABLES
  users,      \* SQL rows: users joined with user_credentials
  refresh,    \* Redis refresh:<token> -> user
  reset,      \* Redis password_reset:<token> -> user
  challenge,  \* Redis mfa_challenge:<token> -> user
  pending,    \* Redis mfa_pending:<user> -> secret
  minted,     \* tokens handed out so far: random ones never repeat
  authed,     \* users who hold an access JWT (nothing revokes one)
  call,       \* request -> its next step and its local variables
  hist        \* history, see Init

stores == <<refresh, reset, challenge, pending>>
vars == <<users, refresh, reset, challenge, pending, minted, authed, call, hist>>

Account == [verified : BOOLEAN, pw : Passwords, secret : Secrets \cup {Nil}]
ASSUME RowsAssumption == Unborn \notin Account /\ Deleted \notin Account /\ Unborn # Deleted

Live(u) == users[u] \notin {Unborn, Deleted}
Verified(u) == Live(u) /\ users[u].verified

Steps == {"idle", "verify", "challenge", "issue", "mfa_user", "mfa_del", "refresh_user",
          "refresh_del", "set_password", "reset_del", "mint_reset", "delete", "set_secret",
          "pending_del"}

Idle == [at |-> "idle", user |-> Nil, tok |-> Nil, val |-> Nil]
IsAt(c, step) == call[c].at = step
Begin(c, step, u, t, v) ==
  /\ IsAt(c, "idle")
  /\ call' = [call EXCEPT ![c] = [at |-> step, user |-> u, tok |-> t, val |-> v]]
Goto(c, step) == call' = [call EXCEPT ![c].at = step]
Finish(c) == call' = [call EXCEPT ![c] = Idle]

\* A Redis command whose error the code ignores may have no effect.
Drop(f, k) == [f EXCEPT ![k] = Nil]
Dropped(f, k) == {Drop(f, k)} \cup (IF RedisFails THEN {f} ELSE {})

Init ==
  /\ users = [u \in Users |-> Unborn]
  /\ refresh = [t \in RTokens |-> Nil]
  /\ reset = [t \in PTokens |-> Nil]
  /\ challenge = [t \in CTokens |-> Nil]
  /\ pending = [u \in Users |-> Nil]
  /\ minted = {}
  /\ authed = {}
  /\ call = [c \in Calls |-> Idle]
  /\ hist = [parent    |-> [t \in RTokens |-> Nil],  \* the refresh token a token replaced
             presented |-> {},                       \* users whose verification token was presented
             proved    |-> [u \in Users |-> {}],     \* secrets a user gave a valid code for
             grace     |-> [u \in Users |-> 0],      \* requests about to issue when u was deleted
             late      |-> [u \in Users |-> {}],     \* refresh tokens issued to a deleted user
             looked    |-> [u \in Users |-> 0],      \* bare logins under way when MFA was enabled
             unasked   |-> [u \in Users |-> 0]]      \* pairs issued to bare logins since then

(***************************************************************************)
(* Registration and e-mail verification.                                   *)
(***************************************************************************)
Register(u, pw) ==
  /\ "register" \in Ops
  /\ users[u] = Unborn
  /\ \A o \in Users : EmailOf[o] = EmailOf[u] => ~ Live(o)
  /\ users' = [users EXCEPT ![u] = [verified |-> FALSE, pw |-> pw, secret |-> Nil]]
  /\ UNCHANGED <<stores, minted, authed, call, hist>>

\* the verification token is set exactly while the user is not verified
VerifyEmail(c, u) ==
  /\ Live(u) /\ ~ Verified(u)
  /\ Begin(c, "verify", u, Nil, Nil)
  /\ hist' = [hist EXCEPT !.presented = @ \cup {u}]
  /\ UNCHANGED <<users, stores, minted, authed>>

MarksByEmail(u) == {o \in Users : Live(o) /\ EmailOf[o] = EmailOf[u]}
Marks(u) == {o \in Users : Live(o) /\ o = u}

VerifyUser(c) ==
  /\ IsAt(c, "verify")
  /\ users' = [u \in Users |->
       IF u \in Marks(call[c].user) THEN [users[u] EXCEPT !.verified = TRUE] ELSE users[u]]
  /\ Finish(c)
  /\ UNCHANGED <<stores, minted, authed, hist>>

(***************************************************************************)
(* Login, the second factor, issueTokens().                                *)
(***************************************************************************)
MayLogIn(u) == Verified(u)

Login(c, u) ==
  /\ "login" \in Ops
  /\ MayLogIn(u)
  /\ Begin(c, IF users[u].secret = Nil THEN "issue" ELSE "challenge", u, Nil, Nil)
  /\ UNCHANGED <<users, stores, minted, authed, hist>>

MintChallenge(c, t) ==
  /\ IsAt(c, "challenge")
  /\ t \notin minted
  /\ challenge' = [challenge EXCEPT ![t] = call[c].user]
  /\ minted' = minted \cup {t}
  /\ Finish(c)
  /\ UNCHANGED <<users, refresh, reset, pending, authed, hist>>

VerifyMFALogin(c, t) ==
  /\ challenge[t] # Nil
  /\ Begin(c, "mfa_user", challenge[t], t, Nil)
  /\ UNCHANGED <<users, stores, minted, authed, hist>>

\* The request goes on with the secret that the code was checked against.
Passes(c, secret) == call' = [call EXCEPT ![c].at = "mfa_del", ![c].val = secret]

\* a variant that does not ask whether the user still has a second factor
VerifyAnyCode(c) ==
  LET u == call[c].user IN
  /\ IsAt(c, "mfa_user")
  /\ \/ Live(u) /\ Passes(c, users[u].secret)
     \/ Finish(c)
  /\ UNCHANGED <<users, stores, minted, authed, hist>>

\* The challenge survives a wrong code, a deleted user and a user without MFA.
VerifyMFACode(c) ==
  LET u == call[c].user IN
  /\ IsAt(c, "mfa_user")
  /\ \/ Live(u) /\ users[u].secret # Nil /\ Passes(c, users[u].secret)
     \/ Finish(c)
  /\ UNCHANGED <<users, stores, minted, authed, hist>>

DropChallenge(c) ==
  /\ IsAt(c, "mfa_del")
  /\ challenge' \in Dropped(challenge, call[c].tok)
  /\ call' = [call EXCEPT ![c].at = "issue", ![c].tok = Nil]
  /\ UNCHANGED <<users, refresh, reset, pending, minted, authed, hist>>

\* Requests that found no second factor at Login and are about to issue on the password alone.
BareLogins(u) ==
  {c \in Calls : call[c].user = u /\ IsAt(c, "issue") /\ call[c].tok = Nil /\ call[c].val = Nil}

HasMFA(u) == Live(u) /\ users[u].secret # Nil

IssueTokens(c, t) ==
  LET u == call[c].user IN
  /\ IsAt(c, "issue")
  /\ t \notin minted
  /\ refresh' = [refresh EXCEPT ![t] = u]
  /\ minted' = minted \cup {t}
  /\ authed' = authed \cup {u}
  /\ Finish(c)
  /\ hist' = [hist EXCEPT !.parent[t] = call[c].tok,
                          !.late[u] = IF Live(u) THEN @ ELSE @ \cup {t},
                          !.unasked[u] = IF HasMFA(u) /\ c \in BareLogins(u) THEN @ + 1 ELSE @]
  /\ UNCHANGED <<users, reset, challenge, pending>>

\* a variant that puts the old one back
IssueFailsBack(c) ==
  /\ RedisFails
  /\ IsAt(c, "issue")
  /\ refresh' = IF call[c].tok = Nil THEN refresh ELSE [refresh EXCEPT ![call[c].tok] = call[c].user]
  /\ Finish(c)
  /\ UNCHANGED <<users, reset, challenge, pending, minted, authed, hist>>

\* the Set of the new token fails: a Refresh has already given up the old one
IssueFails(c) ==
  /\ RedisFails
  /\ IsAt(c, "issue")
  /\ Finish(c)
  /\ UNCHANGED <<users, stores, minted, authed, hist>>

(***************************************************************************)
(* Refresh: get the token, get the user, delete the token, issue a pair.   *)
(***************************************************************************)
Refresh(c, t) ==
  /\ "refresh" \in Ops
  /\ refresh[t] # Nil
  /\ Begin(c, "refresh_user", refresh[t], t, Nil)
  /\ UNCHANGED <<users, stores, minted, authed, hist>>

\* a variant without the user lookup
RefreshAnyUser(c) ==
  /\ IsAt(c, "refresh_user")
  /\ Goto(c, "refresh_del")
  /\ UNCHANGED <<users, stores, minted, authed, hist>>

\* the token is kept when its user is gone
RefreshUser(c) ==
  /\ IsAt(c, "refresh_user")
  /\ IF Live(call[c].user) THEN Goto(c, "refresh_del") ELSE Finish(c)
  /\ UNCHANGED <<users, stores, minted, authed, hist>>

RefreshDel(c) ==
  /\ IsAt(c, "refresh_del")
  /\ refresh' \in Dropped(refresh, call[c].tok)
  /\ Goto(c, "issue")
  /\ UNCHANGED <<users, reset, challenge, pending, minted, authed, hist>>

Logout(t) ==
  /\ "refresh" \in Ops
  /\ refresh[t] # Nil
  /\ refresh' \in Dropped(refresh, t)
  /\ UNCHANGED <<users, reset, challenge, pending, minted, authed, call, hist>>

(***************************************************************************)
(* Passwords and account deletion.  The current password is compared in    *)
(* the first step; the hash is written in a later one.                     *)
(***************************************************************************)
ChangePassword(c, u, pw) ==
  /\ "password" \in Ops
  /\ u \in authed /\ Live(u)
  /\ Begin(c, "set_password", u, Nil, pw)
  /\ UNCHANGED <<users, stores, minted, authed, hist>>

RequestPasswordReset(c, u) ==
  /\ "password" \in Ops
  /\ Verified(u)
  /\ Begin(c, "mint_reset", u, Nil, Nil)
  /\ UNCHANGED <<users, stores, minted, authed, hist>>

MintReset(c, t) ==
  /\ IsAt(c, "mint_reset")
  /\ t \notin minted
  /\ reset' = [reset EXCEPT ![t] = call[c].user]
  /\ minted' = minted \cup {t}
  /\ Finish(c)
  /\ UNCHANGED <<users, refresh, challenge, pending, authed, hist>>

ResetPassword(c, t, pw) ==
  /\ reset[t] # Nil
  /\ Begin(c, "set_password", reset[t], t, pw)
  /\ UNCHANGED <<users, stores, minted, authed, hist>>

\* an UPDATE that matches no row is not an error
SetPassword(c) ==
  LET u == call[c].user IN
  /\ IsAt(c, "set_password")
  /\ users' = IF Live(u) THEN [users EXCEPT ![u].pw = call[c].val] ELSE users
  /\ \/ /\ call[c].tok = Nil
        /\ Finish(c)
     \/ /\ call[c].tok # Nil
        /\ Goto(c, "reset_del")
  /\ UNCHANGED <<stores, minted, authed, hist>>

DropReset(c) ==
  /\ IsAt(c, "reset_del")
  /\ reset' \in Dropped(reset, call[c].tok)
  /\ Finish(c)
  /\ UNCHANGED <<users, refresh, challenge, pending, minted, authed, hist>>

DeleteAccount(c, u) ==
  /\ "delete" \in Ops
  /\ u \in authed /\ Live(u)
  /\ Begin(c, "delete", u, Nil, Nil)
  /\ UNCHANGED <<users, stores, minted, authed, hist>>

\* Requests that are past their look at the user when the row goes.
AboutToIssue(u) == {c \in Calls : call[c].user = u /\ call[c].at \in {"mfa_del", "refresh_del", "issue"}}

\* DELETE cascades to the credential; tokens in Redis stay.
DeleteUser(c) ==
  LET u == call[c].user IN
  /\ IsAt(c, "delete")
  /\ users' = [users EXCEPT ![u] = Deleted]
  /\ hist' = IF Live(u) THEN [hist EXCEPT !.grace[u] = Cardinality(AboutToIssue(u))] ELSE hist
  /\ Finish(c)
  /\ UNCHANGED <<stores, minted, authed>>

(***************************************************************************)
(* MFA enrolment: the secret waits in Redis until a code proves it.        *)
(***************************************************************************)
SetupMFA(u, s) ==
  /\ "mfa" \in Ops
  /\ u \in authed
  /\ pending' = [pending EXCEPT ![u] = s]
  /\ UNCHANGED <<users, refresh, reset, challenge, minted, authed, call, hist>>

VerifyAndEnableMFA(c, u) ==
  /\ u \in authed /\ pending[u] # Nil
  /\ Begin(c, "set_secret", u, Nil, pending[u])
  /\ hist' = [hist EXCEPT !.proved[u] = @ \cup {pending[u]}]
  /\ UNCHANGED <<users, stores, minted, authed>>

\* a variant that reads the pending secret again
SecretReread(c) == pending[call[c].user]
SecretToStore(c) == call[c].val

SetMFASecret(c) ==
  LET u == call[c].user IN
  /\ IsAt(c, "set_secret")
  /\ users' = IF Live(u) THEN [users EXCEPT ![u].secret = SecretToStore(c)] ELSE users
  /\ hist' = IF Live(u) /\ ~ HasMFA(u)
             THEN [hist EXCEPT !.looked[u] = Cardinality(BareLogins(u)), !.unasked[u] = 0]
             ELSE hist
  /\ Goto(c, "pending_del")
  /\ UNCHANGED <<stores, minted, authed>>

DropPending(c) ==
  /\ IsAt(c, "pending_del")
  /\ pending' \in Dropped(pending, call[c].user)
  /\ Finish(c)
  /\ UNCHANGED <<users, refresh, reset, challenge, minted, authed, hist>>

DisableMFA(u) ==
  /\ "mfa" \in Ops
  /\ u \in authed /\ Live(u)
  /\ users' = [users EXCEPT ![u].secret = Nil]
  /\ hist' = [hist EXCEPT !.looked[u] = 0, !.unasked[u] = 0]
  /\ UNCHANGED <<stores, minted, authed, call>>

\* TTLs: refresh 7 d, reset 1 h, challenge 5 min, pending secret 10 min.
Expire ==
  /\ \/ /\ \E t \in RTokens : refresh[t] # Nil /\ refresh' = Drop(refresh, t)
        /\ UNCHANGED <<reset, challenge, pending>>
     \/ /\ \E t \in PTokens : reset[t] # Nil /\ reset' = Drop(reset, t)
        /\ UNCHANGED <<refresh, challenge, pending>>
     \/ /\ \E t \in CTokens : challenge[t] # Nil /\ challenge' = Drop(challenge, t)
        /\ UNCHANGED <<refresh, reset, pending>>
     \/ /\ \E u \in Users : pending[u] # Nil /\ pending' = Drop(pending, u)
        /\ UNCHANGED <<refresh, reset, challenge>>
  /\ UNCHANGED <<users, minted, authed, call, hist>>

\* A request takes a step.
Serve(c) ==
  \/ \E u \in Users :
       \/ VerifyEmail(c, u) \/ Login(c, u) \/ RequestPasswordReset(c, u)
       \/ DeleteAccount(c, u) \/ VerifyAndEnableMFA(c, u)
       \/ \E pw \in Passwords : ChangePassword(c, u, pw)
  \/ \E t \in RTokens : IssueTokens(c, t) \/ Refresh(c, t)
  \/ \E t \in CTokens : MintChallenge(c, t) \/ VerifyMFALogin(c, t)
  \/ \E t \in PTokens : MintReset(c, t) \/ \E pw \in Passwords : ResetPassword(c, t, pw)
  \/ VerifyUser(c) \/ VerifyMFACode(c) \/ DropChallenge(c) \/ IssueFails(c)
  \/ RefreshUser(c) \/ RefreshDel(c) \/ SetPassword(c) \/ DropReset(c) \/ DeleteUser(c)
  \/ SetMFASecret(c) \/ DropPending(c)

Next ==
  \/ \E u \in Users, pw \in Passwords : Register(u, pw)
  \/ \E c \in Calls : Serve(c)
  \/ \E t \in RTokens : Logout(t)
  \/ \E u \in Users : DisableMFA(u) \/ \E s \in Secrets : SetupMFA(u, s)
  \/ Expire

Spec == Init /\ [][Next]_vars

----------------------------------------------------------------------------
\* What a request carries into its next step.
Frame == [at   : Steps,
          user : Users \cup {Nil},
          tok  : RTokens \cup PTokens \cup CTokens \cup {Nil},
          val  : Passwords \cup Secrets \cup {Nil}]

WellFormed(x) ==
  /\ x.at # "idle" => x.user \in Users
  /\ x.at \in {"refresh_user", "refresh_del"} => x.tok \in RTokens
  /\ x.at \in {"mfa_user", "mfa_del"} => x.tok \in CTokens
  /\ x.at = "issue" => x.tok \in RTokens \cup {Nil}
  /\ x.at = "reset_del" => x.tok \in PTokens
  /\ x.at = "set_password" => x.tok \in PTokens \cup {Nil} /\ x.val \in Passwords
  /\ x.at \in {"mfa_del", "set_secret"} => x.val \in Secrets

History == [parent    : [RTokens -> RTokens \cup {Nil}],
            presented : SUBSET Users,
            proved    : [Users -> SUBSET Secrets],
            grace     : [Users -> Nat],
            late      : [Users -> SUBSET RTokens],
            looked    : [Users -> Nat],
            unasked   : [Users -> Nat]]

\* Type correctness, with the local variables a request carries into its next step.
TypeOK ==
  /\ users \in [Users -> Account \cup {Unborn, Deleted}]
  /\ refresh \in [RTokens -> Users \cup {Nil}]
  /\ reset \in [PTokens -> Users \cup {Nil}]
  /\ challenge \in [CTokens -> Users \cup {Nil}]
  /\ pending \in [Users -> Secrets \cup {Nil}]
  /\ minted \subseteq RTokens \cup PTokens \cup CTokens
  /\ authed \subseteq Users
  /\ call \in [Calls -> Frame] /\ \A c \in Calls : WellFormed(call[c])
  /\ hist \in History

Holders(f) == {f[t] : t \in DOMAIN f} \ {Nil}

\* Every refresh token, reset token and challenge in Redis is of a user who had verified
\* the e-mail address by then, whatever happened to the account since.
TokensOnlyForVerified ==
  \A u \in Holders(refresh) \cup Holders(reset) \cup Holders(challenge) :
    Live(u) => Verified(u)

\* A verification token verifies its own account only: not an account registered later
\* with the same address after the first one was deleted.
VerifiedByOwnToken == \A u \in Users : Verified(u) => u \in hist.presented

\* Nobody has a session, or can get one, for an address whose mail they did not read.
SessionsAreOfMailReaders == TokensOnlyForVerified /\ VerifiedByOwnToken

\* An enabled MFA secret is one for which the user gave a valid code, however setups and
\* verifications overlap.
EnabledSecretWasProved ==
  \A u \in Users : HasMFA(u) => users[u].secret \in hist.proved[u]

\* mfa_enabled is read once, at Login or when the code is checked: while a second factor is
\* enabled, a password alone gives a token pair at most to the logins that had looked at the
\* user before it was, however enabling and disabling it overlap logins, challenges and codes.
SecondFactorIsAsked == \A u \in Users : HasMFA(u) => hist.unasked[u] <= hist.looked[u]

\* A deleted user is issued at most the token pairs of the requests that had already
\* looked the user up: no session outlives its account by being refreshed.
DeletedUserSessionsEnd ==
  \A u \in Users : users[u] = Deleted =>
    /\ \A t \in hist.late[u] : hist.parent[t] \notin hist.late[u]
    /\ Cardinality(hist.late[u]) <= hist.grace[u]

\* A request has a claim on a token from the password or the code that was accepted, or from
\* the refresh token that was found, until it has issued one or ends.
Claiming == {"mfa_del", "refresh_user", "refresh_del", "issue"}
ClaimOf(x) ==
  [user |-> IF x.at \in Claiming THEN x.user ELSE Nil,
   tok  |-> IF x.at \in Claiming \ {"mfa_del"} THEN x.tok ELSE Nil,
   good |-> x.at \in Claiming \ {"refresh_user"}]

Members == {u \in Users : Verified(u)}
Former == {u \in Users : users[u] = Deleted}
Given == minted \cap RTokens
Claims == [c \in Calls |-> ClaimOf(call[c])]

Grants == INSTANCE TokenGrants WITH
  Tokens <- RTokens, members <- Members, former <- Former, holder <- refresh, given <- Given,
  from <- hist.parent, claim <- Claims

\* Whatever runs at the same time and whichever Redis command fails, refresh tokens are
\* issued as TokenGrants says: one for each sign-in, or for each time a valid one was
\* presented, to its user and while the account exists, and none comes back.
TokensAreGranted == Grants!GrantSpec

\* apps/frontend/src/lib/bff/refresh.ts:12: "The refresh token is single-use and rotated
\* server-side": no two tokens replaced the same one.
RefreshIsSingleUse ==
  \A s, t \in RTokens : (s # t /\ hist.parent[s] # Nil) => hist.parent[s] # hist.parent[t]
============================================================================
