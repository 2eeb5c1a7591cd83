SPECIFICATION FairTransportSpec
CONSTANTS
  c1 = c1
  c2 = c2
  t1 = t1
  t2 = t2
  t3 = t3
  hA = hA
  hB = hB
  hC = hC
  NoConn = NoConn
  NoTask = NoTask
  Conn = {c1, c2}
  Task = {t1, t2, t3}
  Host = {hA, hB, hC}
  Priority = {0}
  MaxConnections = 2
  MaxPerHost = 1
  MaxIdle = 2
  MaxQueue = 2
  QueueRequests = TRUE
  Timed = {t3}
  Events = {"fail", "age", "close"}
  MaxDrift = 1
INVARIANTS
  NoOrphan
PROPERTIES
  EveryWaitEnds
  OnlyThenLeftBehind
  FailedStaysOut
  TransportLeaseSpec
CHECK_DEADLOCK FALSE
