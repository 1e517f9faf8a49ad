SPECIFICATION AloneOrHeirs
CONSTANTS
  r1 = r1
  r2 = r2
  w1 = w1
  w2 = w2
  w3 = w3
  NoVal = NoVal
  Readers = {r1, r2}
  FirstReaders = {r1}
  Writers = {w1, w2, w3}
  FirstWriters = {w1}
  Cap = 2
  MaxCap = 8
  MaxPush <- Push620
  MaxClosed = 1
  MaxReceived = 6
VIEW LiveChannel
CHECK_DEADLOCK FALSE
INVARIANT ReaderInCurrentVec
INVARIANT NoWriterPanic
INVARIANT NoLossBeforeResize
PROPERTY OrderBeforeResize
PROPERTY SendSeesReceivers
PROPERTY ClosedIsFinal
