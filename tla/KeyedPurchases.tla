--------------------------- MODULE KeyedPurchases ---------------------------
(***************************************************************************)
(* What an Idempotency-Key promises, with no word of claims, TTLs or of    *)
(* how the answer comes about: per key at most one attempt buys, its       *)
(* result once kept is the result, and only a purchase that was made is    *)
(* ever reported as one.  The promise about a key can be broken off, as    *)
(* when its memory expires; from then on the key promises nothing but that *)
(* reports stay true.                                                      *)
(***************************************************************************)
CONSTANTS
  Keys,
  Attempts,
  NoResult  \* no attempt

VARIABLES
  made,    \* the attempts that bought, per key
  result,  \* the attempt whose result a key keeps
  told,    \* the attempts whose success was reported, to whomever, per key
  unkept   \* the keys whose promise was broken off

registerVars == <<made, result, told, unkept>>

RegisterInit ==
  /\ made = [k \in Keys |-> {}]
  /\ result = [k \in Keys |-> NoResult]
  /\ told = [k \in Keys |-> {}]
  /\ unkept = {}

\* A purchase may break the promise off as it is made; a second one needs it broken off before.
Purchase(k, a) ==
  /\ a \notin made[k]
  /\ made' = [made EXCEPT ![k] = @ \cup {a}]
  /\ unkept' \in {unkept, unkept \cup {k}}
  /\ made[k] = {} \/ k \in unkept
  /\ UNCHANGED <<result, told>>

Keep(k, a) ==
  /\ a \in made[k]
  /\ result[k] = NoResult \/ k \in unkept
  /\ result' = [result EXCEPT ![k] = a]
  /\ UNCHANGED <<made, told, unkept>>

Report(k, a) ==
  /\ a \in made[k]
  /\ told' = [told EXCEPT ![k] = @ \cup {a}]
  /\ UNCHANGED <<made, result, unkept>>

BreakOff(k) ==
  /\ unkept' = unkept \cup {k}
  /\ result' \in {result, [result EXCEPT ![k] = NoResult]}
  /\ UNCHANGED <<made, told>>

RegisterNext ==
  \E k \in Keys :
    \/ BreakOff(k)
    \/ \E a \in Attempts : Purchase(k, a) \/ Keep(k, a) \/ Report(k, a)

RegisterSpec == RegisterInit /\ [][RegisterNext]_registerVars
=============================================================================
