SPECIFICATION FairSpec
CONSTANTS
  r1 = r1
  r2 = r2
  r3 = r3
  Request = {r1, r2, r3}
  High = {r1, r2}
  Dated = {r2}
  Impatient = {r1}
  Stamps = {1, 2}
  MaxRequests = 1
  Concurrency = 1
  MaxQueue = 2
  MaxRetries = 1
  MaxKicks = 2
INVARIANTS
  Accounted
  NobodyForgotten
  LimitsNearly
PROPERTIES
  
  EveryRequestAnswered
\* After destroy() nothing may be left to do.
CHECK_DEADLOCK FALSE
