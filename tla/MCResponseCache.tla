--------------------------- MODULE MCResponseCache ---------------------------
EXTENDS ResponseCache, TLC

CONSTANTS r1, w1, w2, n1, n2, a

\* The later version is the larger one.
Heavier == [v \in Version |-> v + 1]

Symmetry == Permutations(Worker)
=============================================================================
