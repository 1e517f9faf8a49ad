SPECIFICATION FairSpec
CHECK_DEADLOCK FALSE
CONSTANTS
  Senders = {s1, s2}
  FirstSenders = {s1}
  Receivers = {r1, r2}
  FirstReceivers = {r1}
  MaxSend = 2
PROPERTIES
  ImplementsChannel
  RecvReturnsWhenClosed
