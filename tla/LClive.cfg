SPECIFICATION FairSpec
CHECK_DEADLOCK FALSE
CONSTANTS
  s1 = s1
  s2 = s2
  Senders = {s1, s2}
  FirstSenders = {s1, s2}
  Receivers = {r1, r2}
  FirstReceivers = {r1, r2}
  MaxSend <- Sends11
  Front = Front
  Back = Back
PROPERTIES
  CallsReturn
  SleeperServed
