---------------------------- MODULE MCSingleflight ----------------------------
EXTENDS Singleflight, TLC

CONSTANTS t1, t2, t3, t4, k1, k2, f1, f2, f3, f4

Symmetric == Permutations(Task) \cup Permutations(Flight) \cup Permutations(Fingerprint)
=============================================================================
