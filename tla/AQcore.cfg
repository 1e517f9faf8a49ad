SPECIFICATION Spec
CONSTANTS
  r1 = r1
  r2 = r2
  w1 = w1
  w2 = w2
  w3 = w3
  NoVal = NoVal
  Readers = {r1}
  FirstReaders = {r1}
  Writers = {w1, w2}
  FirstWriters = {w1}
  Cap = 1
  MaxCap = 8
  MaxPush <- Push31
  MaxClosed = 1
  MaxReceived = 2
VIEW LiveState
CHECK_DEADLOCK FALSE
INVARIANT TypeOK
INVARIANT ReaderExclusion
INVARIANT NoReaderPanic
INVARIANT AtMostOnce
INVARIANT OneResizer
INVARIANT FirstResizeExclusive
