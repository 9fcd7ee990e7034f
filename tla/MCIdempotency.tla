-------------------------- MODULE MCIdempotency --------------------------
(* TLC instances of Idempotency.  Requests are interchangeable, and so are *)
(* keys and bodies.                                                        *)
EXTENDS Idempotency, TLC
CONSTANTS r1, r2, r3, r4, k1, k2, b1, b2

RequestSymmetry == Permutations(Requests)
AllSymmetry == Permutations(Requests) \cup Permutations(Keys) \cup Permutations(Bodies)
=============================================================================
