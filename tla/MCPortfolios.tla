---------------------------- MODULE MCPortfolios ----------------------------
(* Instances of Portfolios: two purchases of symbol A and a batch of A and B, all into *)
(* portfolio p1, which may be new, may hold A with a price, or A from before prices    *)
(* were seeded.                                                                        *)
EXTENDS Portfolios

CONSTANTS b1, b2, b3, p1, A, B

Lot(s, n, v) == [symbol |-> s, shares |-> n, price |-> v]
Held(v) == <<[symbol |-> A, shares |-> 1, cost |-> 1, per |-> 1, latest |-> v]>>

MCTargetOf == [b \in Buys |-> p1]
MCBatches == [b \in Buys |-> CASE b = b1 -> <<Lot(A, 2, 1)>>
                               [] b = b2 -> <<Lot(A, 1, 2)>>
                               [] b = b3 -> <<Lot(A, 1, 1), Lot(B, 1, 1)>>]
MCAnyRows == {<<>>, Held(1), Held(NoPrice)}
MCPricedRows == {<<>>, Held(1)}
=============================================================================
