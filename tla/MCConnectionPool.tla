-------------------------- MODULE MCConnectionPool --------------------------
EXTENDS ConnectionPool

CONSTANTS c1, c2, c3, t1, t2, t3, hA, hB

Symmetric == Permutations(Task) \cup Permutations(Conn)
=============================================================================
