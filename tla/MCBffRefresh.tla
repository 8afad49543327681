---------------------------- MODULE MCBffRefresh ----------------------------
(* An instance of BffRefresh.  Tokens are interchangeable: the behaviours that issue them  *)
(* in their order stand for all.  Three are for every request and every fault; the fourth, *)
(* for the third refresh of a session, comes where nothing has failed and no second factor *)
(* is asked for.                                                                           *)
EXTENDS BffRefresh

CONSTANTS t1, t2, t3, t4

IssuedInOrder ==
  /\ t2 \in Minted => t1 \in Minted
  /\ t3 \in Minted => t2 \in Minted
  /\ t4 \in Minted => t3 \in Minted

Plain ==
  /\ hist.steady /\ ~ jar.mfa
  /\ \A q \in Requests : Open(q) => req[q].kind \in {"page", "refresh", "login", "logout"}

Sends == \E q \in Requests : ~ Open(q) /\ Open(q)'

ThreeTokens ==
  /\ Sends => Cardinality(Minted) + Cardinality({q \in Requests : Open(q)}) < 3
  /\ t4 \notin Minted'

ThreeUnlessPlain == ThreeTokens \/ Plain'
============================================================================
