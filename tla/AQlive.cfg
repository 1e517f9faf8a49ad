SPECIFICATION AloneOrRivals
CONSTANTS
  r1 = r1
  r2 = r2
  w1 = w1
  w2 = w2
  w3 = w3
  NoVal = NoVal
  Readers = {r1, r2}
  FirstReaders = {r1}
  Writers = {w1, w2}
  FirstWriters = {w1}
  Cap = 1
  MaxCap = 2
  MaxPush <- Push31
  MaxClosed = 1
  MaxReceived = 2
CHECK_DEADLOCK FALSE
PROPERTY FilledSlotServed
PROPERTY FirstResizePerformed
