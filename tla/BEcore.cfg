SPECIFICATION FairSpec
CONSTANTS
  s1 = s1
  s2 = s2
  r1 = r1
  tx = tx
  rx = rx
  None = None
  SendrThreads = {s1, s2}
  RecvrThreads = {r1}
  MainTx = tx
  MainRx = rx
  TTLs <- AllTTLs
  Panicking = {s1, r1}
  MaxTime = 1
  MaxIds = 1
CHECK_DEADLOCK FALSE
INVARIANT EventsInsideRun
INVARIANT IdsLoggedOnce
INVARIANT SomethingIsMeasured
INVARIANT LatencyNotNegative
INVARIANT EveryCallLogged
PROPERTY RunEnds
