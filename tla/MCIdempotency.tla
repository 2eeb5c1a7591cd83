---------------------------- MODULE MCIdempotency ----------------------------
EXTENDS Idempotency, TLC

CONSTANTS t1, t2, t3, k1, k2, b1, b2

Symmetric == Permutations(Task) \cup Permutations(Key) \cup Permutations(Body)
=============================================================================
