---------------------------- MODULE TokenGrants ----------------------------
(***************************************************************************)
(* What the refresh tokens of auth-service promise, with no word of        *)
(* passwords, codes, mails or of the steps a request takes.  A token is    *)
(* issued only on a claim: a member's who signs in, or, once it is seen    *)
(* that its user still is one, that of a token which was valid when it was *)
(* presented.  A claim is good for one token, of the user it is of.  Who   *)
(* leaves claims nothing more and does not come back, and a token that is  *)
(* no longer valid never is again.                                         *)
(***************************************************************************)
CONSTANTS Users, Tokens, Calls, Nil

VARIABLES
  members,  \* users who may sign in
  former,   \* users who left
  holder,   \* the user of a token that is valid
  given,    \* the tokens issued so far
  from,     \* the token that one was issued for
  claim     \* what a request has a claim on: a token of a user, for a token or none

grantVars == <<members, former, holder, given, from, claim>>

NoClaim == [user |-> Nil, tok |-> Nil, good |-> FALSE]
SignIn(u) == [user |-> u, tok |-> Nil, good |-> TRUE]

GrantInit ==
  /\ members = {} /\ former = {} /\ given = {}
  /\ holder = [t \in Tokens |-> Nil] /\ from = [t \in Tokens |-> Nil]
  /\ claim = [c \in Calls |-> NoClaim]

Claims(c, x) == claim' = [claim EXCEPT ![c] = x]

Join(u) ==
  /\ u \notin former
  /\ members' = members \cup {u}
  /\ UNCHANGED <<former, holder, given, from, claim>>

Leave(u) ==
  /\ members' = members \ {u} /\ former' = former \cup {u}
  /\ UNCHANGED <<holder, given, from, claim>>

Admit(c, u) ==
  /\ claim[c] = NoClaim /\ u \in members
  /\ Claims(c, SignIn(u))
  /\ UNCHANGED <<members, former, holder, given, from>>

Present(c, t) ==
  /\ claim[c] = NoClaim /\ holder[t] # Nil
  /\ Claims(c, [user |-> holder[t], tok |-> t, good |-> FALSE])
  /\ UNCHANGED <<members, former, holder, given, from>>

Confirm(c) ==
  /\ claim[c].user \in members
  /\ Claims(c, [user |-> claim[c].user, tok |-> claim[c].tok, good |-> TRUE])
  /\ UNCHANGED <<members, former, holder, given, from>>

Issue(c, t) ==
  /\ claim[c].good /\ t \notin given
  /\ holder' = [holder EXCEPT ![t] = claim[c].user]
  /\ given' = given \cup {t}
  /\ from' = [from EXCEPT ![t] = claim[c].tok]
  /\ Claims(c, NoClaim)
  /\ UNCHANGED <<members, former>>

GiveUp(c) ==
  /\ Claims(c, NoClaim)
  /\ UNCHANGED <<members, former, holder, given, from>>

End(t) ==
  /\ holder' = [holder EXCEPT ![t] = Nil]
  /\ UNCHANGED <<members, former, given, from, claim>>

GrantNext ==
  \/ \E u \in Users : Join(u) \/ Leave(u) \/ \E c \in Calls : Admit(c, u)
  \/ \E c \in Calls : Confirm(c) \/ GiveUp(c) \/ \E t \in Tokens : Present(c, t) \/ Issue(c, t)
  \/ \E t \in Tokens : End(t)

GrantSpec == GrantInit /\ [][GrantNext]_grantVars
=============================================================================
