SPECIFICATION Spec
CONSTANTS
  r1 = r1
  r2 = r2
  w1 = w1
  w2 = w2
  w3 = w3
  NoVal = NoVal
  Readers = {r1}
  FirstReaders = {r1}
  Writers = {w1}
  FirstWriters = {w1}
  Cap = 3
  MaxCap = 6
  MaxPush <- Push4
  MaxClosed = 1
  MaxReceived = 6
VIEW LiveState
CHECK_DEADLOCK FALSE
INVARIANT NoLossToReaders
