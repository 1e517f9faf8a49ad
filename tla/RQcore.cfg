SPECIFICATION Spec
VIEW LiveState
CHECK_DEADLOCK FALSE
CONSTANTS
  s1 = s1
  s2 = s2
  NoVal = NoVal
  Senders = {s1, s2}
  FirstSenders = {s1}
  Receivers = {r1, r2}
  FirstReceivers = {r1, r2}
  Cap = 2
  MaxSend <- Sends31
  MaxClosed = 1
INVARIANTS
  TypeOK
  LenCountsValues
  AtMostOnce
PROPERTIES
  ClosedIsFinal
SYMMETRY ReceiverSymmetry
