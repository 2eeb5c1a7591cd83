--------------------------- MODULE MCPoolTransport ---------------------------
EXTENDS PoolTransport

CONSTANTS c1, c2, t1, t2, t3, hA, hB, hC

Symmetric == Permutations(Task) \cup Permutations(Conn)
=============================================================================
