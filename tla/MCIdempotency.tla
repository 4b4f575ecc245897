---------------------------- MODULE MCIdempotency ----------------------------
(* Small instances of IdempotencyEngine for TLC: one scope retried four     *)
(* times, the fourth delivery with another body under the same key.         *)
EXTENDS IdempotencyEngine, TLC

CONSTANTS r1, r2, r3, r4, k1, f1, f2

MCRequests     == {r1, r2, r3, r4}
MCKeyOf        == [r \in Requests |-> k1]
MCFpOf         == [r \in Requests |-> IF r = r4 THEN f2 ELSE f1]
MCKeys         == {k1}
MCFingerprints == {f1, f2}

\* The deliveries with the same body are interchangeable.
Symmetric == Permutations({r1, r2, r3})
=============================================================================
