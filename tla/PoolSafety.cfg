SPECIFICATION Spec
CONSTANTS
  c1 = c1
  c2 = c2
  c3 = c3
  t1 = t1
  t2 = t2
  t3 = t3
  hA = hA
  hB = hB
  NoConn = NoConn
  NoTask = NoTask
  Conn = {c1, c2, c3}
  Task = {t1, t2, t3}
  Host = {hA, hB}
  Priority = {0, 1}
  MaxConnections = 2
  MaxPerHost = 1
  MaxIdle = 1
  MaxQueue = 2
  QueueRequests = TRUE
  Timed = {t1, t2, t3}
  Events = {"fail", "cancel", "age", "rest", "drain"}
SYMMETRY Symmetric
INVARIANTS
  Capacity
  ExclusiveUse
  StatsAgree
PROPERTIES
  ServedInOrder
  LeaseSpec
CHECK_DEADLOCK FALSE
