SPECIFICATION FairSpec
CHECK_DEADLOCK FALSE
CONSTANTS
  s1 = s1
  s2 = s2
  NoVal = NoVal
  Senders = {s1}
  FirstSenders = {s1}
  Receivers = {r1}
  FirstReceivers = {r1}
  Cap = 1
  MaxSend <- Sends3
  MaxClosed = 1
PROPERTIES
  PushReturns
