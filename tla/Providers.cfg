SPECIFICATION HealthSpec
CONSTANTS
  t1 = t1
  t2 = t2
  s1 = s1
  s2 = s2
  r1 = r1
  Task = {t1, t2}
  Script = {s1, s2}
  Prober = {s1, s2}
  Server = {r1}
  MaxEngines = 3
  MaxPools = 5
  MaxIssued = 2
  Setup <- HealthSetups
  Scene <- AllScenes
SYMMETRY Symmetric
INVARIANTS
  HeadersAgree
  ClearedStaysCleared
  HealthMissesRegistryOnly
  AsksAsConfigured
  NothingLeftOpen
CHECK_DEADLOCK FALSE
