SPECIFICATION PathFairSpec
CONSTANTS
  q1 = q1
  q2 = q2
  q3 = q3
  Call = {q1, q2}
  Unsafe = {q2}
  TransportRetries = 2
  LimiterRetries = 1
  Waits = {1, 2}
  Backoffs = {1}
INVARIANTS
  SendsBounded
PROPERTIES
  PauseRespected
  EveryRequestEnds
