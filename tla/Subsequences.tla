---------------------------- MODULE Subsequences ----------------------------
(* The part of a sequence at some of its positions, which is what filter() keeps of a list. *)
EXTENDS Naturals, Sequences, FiniteSets

\* The k-th smallest of a set of numbers.
Nth(S, k) == CHOOSE i \in S : Cardinality({j \in S : j < i}) = k - 1

Picked(s, S) == [k \in 1..Cardinality(S) |-> s[Nth(S, k)]]

\* What of a list is in a set, in the order of the list.
Among(s, T) == Picked(s, {i \in DOMAIN s : s[i] \in T})
=============================================================================
