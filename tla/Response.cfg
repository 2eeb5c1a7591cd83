SPECIFICATION Spec
CONSTANTS
  r1 = r1
  w1 = w1
  w2 = w2
  n1 = n1
  n2 = n2
  a = a
  Bare = Bare
  Anyone = Anyone
  Varies = {n1}
  NoEntry = NoEntry
  NoTag = NoTag
  Idle = Idle
  Weight <- Heavier
  Request = {r1}
  Worker = {w1, w2}
  Url = {n1, n2}
  Variant = {a, Bare}
  MaxVersion = 1
  MaxSize = 1
  MaxEntries = 2
  MaxEntrySize = 2
  OwnTags = FALSE
  Events = {"raise", "invalidate", "clear", "close"}
INVARIANTS
  OneBackground
  OnlyOverlapMixes
SYMMETRY Symmetry
\* After close() nothing may be left to do.
CHECK_DEADLOCK FALSE
