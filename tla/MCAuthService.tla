--------------------------- MODULE MCAuthService ---------------------------
(* Instances of AuthService.  A behaviour is one of two mixes of traffic: sessions, those *)
(* of one account with its refreshes and its second factor; or accounts, two of one     *)
(* address, one after the other, with password changes and resets.  Tokens, secrets and *)
(* requests are interchangeable.                                                         *)
EXTENDS AuthService, TLC

CONSTANTS u1, u2

VARIABLE mix

MCEmailOf == [u \in Users |-> "e1"]
Symmetry ==
  Permutations(RTokens) \cup Permutations(PTokens) \cup Permutations(CTokens)
    \cup Permutations(Calls) \cup Permutations(Secrets) \cup Permutations(Passwords)

Doing(steps) == \E c \in Calls : call[c].at \in steps

Sessions ==
  /\ users[u2] = Unborn
  /\ ~ Doing({"set_password", "mint_reset"})

Accounts ==
  /\ Cardinality(minted \cap RTokens) <= 2
  /\ ~ Doing({"refresh_user", "set_secret"})
  /\ \A u \in Users : pending[u] = Nil /\ (Live(u) => users[u].secret = Nil)

Within == CASE mix = "sessions" -> Sessions
            [] mix = "accounts" -> Accounts

MCInit == Init /\ mix \in {"sessions", "accounts"}
MCNext == Next /\ UNCHANGED mix /\ Within'
MCSpec == MCInit /\ [][MCNext]_<<vars, mix>>
============================================================================
