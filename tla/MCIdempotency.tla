--------------------------- MODULE MCIdempotency ---------------------------
(* Instances of Idempotency: attempts r1 and r2 are a purchase and its retry, r3 *)
(* reuses their key with another body, r4 sends no header, r5 a bad one.         *)
EXTENDS Idempotency, TLC

CONSTANTS r1, r2, r3, r4, r5, k1, b1, b2

MCKeyOf == [r \in Requests |-> CASE r \in {r1, r2, r3} -> k1
                                 [] r = r4 -> NoKey
                                 [] OTHER -> BadKey]
MCTraffic == {{r1, r2, r3}, {r1, r4, r5}}
MCBodyOf == [r \in Requests |-> IF r = r3 THEN b2 ELSE b1]
============================================================================
