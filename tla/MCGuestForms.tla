---------------------------- MODULE MCGuestForms ----------------------------
(* Instances of the pages for guests: one address with two passwords, one link and two calls *)
(* side by side, or two addresses with one good password, one that is too short, two links   *)
(* and one call at a time.  One timer of the reset page is under way at most.  No definition *)
(* tells one call, or one link, from another: they are taken in order.                       *)
EXTENDS GuestForms

CONSTANTS e1, pw1, k1, k2, g1, g2

GuestMixes == {"passwords", "addresses"}

Only(addresses, passwords) ==
  /\ \A e \in Addresses : /\ e \notin addresses => account[e] = Unknown
                          /\ account[e].pw \in passwords \cup {Nobody}
  /\ page.entries.address \in addresses \cup {Nobody}
  /\ {page.entries.password, page.entries.confirm} \subseteq passwords \cup {Nobody}
OneCall == Cardinality({c \in Posts : post[c] # NoPost}) <= 1

OneAddress == Only({e1}, Passwords \ Short) /\ link[k2] = NoLink /\ redirects <= 1
TwoAddresses ==
  /\ Only(Addresses, {pw1} \cup Short) /\ OneCall /\ redirects <= 1
  /\ page.entries.confirm \notin Short
  /\ page.entries.password \in Short => link[k2] = NoLink

InOrder ==
  /\ link'[k2] # NoLink => link'[k1] # NoLink
  /\ post'[g2] # NoPost => post[g1] # NoPost \/ post[g2] # NoPost
=============================================================================
