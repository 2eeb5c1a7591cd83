SPECIFICATION Spec
CONSTANTS
  c1 = c1
  c2 = c2
  c3 = c3
  c4 = c4
  t1 = t1
  t2 = t2
  t3 = t3
  t4 = t4
  hA = hA
  hB = hB
  NoConn = NoConn
  NoTask = NoTask
  Conn = {c1, c2}
  Task = {t1, t2, t3}
  Host = {hA}
  Priority = {0}
  MaxConnections = 1
  MaxPerHost = 2
  MaxIdle = 1
  MaxQueue = 2
  Events = {"abort", "age", "close", "error", "fail", "sweep"}
SYMMETRY Symmetric
INVARIANTS
  ExclusiveUse
  OverbookedByCrowd
  LostByDisturbance
  LeakedByDisturbance
CHECK_DEADLOCK FALSE
