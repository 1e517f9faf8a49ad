SPECIFICATION Spec
VIEW LiveState
CHECK_DEADLOCK FALSE
CONSTANTS
  s1 = s1
  s2 = s2
  Senders = {s1, s2}
  FirstSenders = {s1}
  Receivers = {r1, r2}
  FirstReceivers = {r1}
  MaxSend <- Sends21
  Front = Front
  Back = Back
INVARIANTS
  RaceFree
  NoPanic
  ListWellFormed
PROPERTIES
  ImplementsChannel
