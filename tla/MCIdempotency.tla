--------------------------- MODULE MCIdempotency ---------------------------
(***************************************************************************)
(* A small instance of Idempotency for TLC: a request and its repetition,  *)
(* and one that uses the same key for another body.                        *)
(***************************************************************************)
EXTENDS Idempotency, TLC

CONSTANTS r1, r2, r3, k1, b1, b2

OneKey == [r \in Requests |-> k1]

TwoBodies == [r \in Requests |-> IF r = r3 THEN b2 ELSE b1]
=============================================================================
