SPECIFICATION FairSpec
CONSTANTS
  r1 = r1
  r2 = r2
  w1 = w1
  w2 = w2
  n1 = n1
  n2 = n2
  NoEntry = NoEntry
  Request = {r1}
  Worker = {w1, w2}
  Name = {n1, n2}
  MaxEntries = 1
  MaxVersion = 1
  Negative = TRUE
  Events = {"raise", "error", "cancel", "refresh", "invalidate", "clear", "destroy"}
INVARIANTS
  OneRevalidation
  ConnectionsExact
  OnlyOverlapGoesBack
PROPERTIES
  StaleRefreshed
\* After destroy() nothing may be left to do.
CHECK_DEADLOCK FALSE
