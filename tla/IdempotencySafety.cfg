SPECIFICATION Spec
CONSTANTS
  t1 = t1
  t2 = t2
  t3 = t3
  k1 = k1
  k2 = k2
  b1 = b1
  b2 = b2
  NoEntry = NoEntry
  Task = {t1, t2, t3}
  Key = {k1, k2}
  Body = {b1, b2}
  MaxSends = 4
SYMMETRY Symmetric
INVARIANTS
  PromiseKept
  ReplayMatches
\* The model stops when MaxSends requests have gone out.
CHECK_DEADLOCK FALSE
