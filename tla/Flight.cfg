SPECIFICATION FairSpec
CONSTANTS
  t1 = t1
  t2 = t2
  t3 = t3
  t4 = t4
  k1 = k1
  k2 = k2
  f1 = f1
  f2 = f2
  f3 = f3
  f4 = f4
  NoFlight = NoFlight
  NoKey = NoKey
  Task = {t1, t2, t3}
  Flight = {f1, f2, f3}
  Fingerprint = {k1, k2}
  MaxSubscribers = 1
  Events = {"raise", "cancel", "clear"}
INVARIANTS
  OneExecution
  EntryIsPending
  EveryFlightLed
PROPERTIES
  UncancelledCallsEnd
  SharedSpec
