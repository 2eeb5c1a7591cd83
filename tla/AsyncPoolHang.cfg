SPECIFICATION FairSpec
CONSTANTS
  c1 = c1
  c2 = c2
  c3 = c3
  c4 = c4
  t1 = t1
  t2 = t2
  t3 = t3
  t4 = t4
  hA = hA
  hB = hB
  NoConn = NoConn
  NoTask = NoTask
  Conn = {c1}
  Task = {t1, t2, t3}
  Host = {hA}
  Priority = {0, 1}
  MaxConnections = 1
  MaxPerHost = 1
  MaxIdle = 1
  MaxQueue = 2
  Events = {}
PROPERTY EveryWaitEnds
CHECK_DEADLOCK FALSE
