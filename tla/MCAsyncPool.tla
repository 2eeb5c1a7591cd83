---------------------------- MODULE MCAsyncPool ----------------------------
EXTENDS AsyncPool

CONSTANTS c1, c2, c3, c4, t1, t2, t3, t4, hA, hB

Symmetric == Permutations(Task) \cup Permutations(Conn)
=============================================================================
