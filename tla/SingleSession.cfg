SPECIFICATION FairSpec
CONSTANTS
  Senders = {s1}
  Receivers = {r1}
  None = None
  kMaxMessages = 10
  kNumMessagesToSend = 10
  MaxFaults = 0
  MaxKills = 0
  After <- AnyTime
PROPERTIES
  ImplementsPeriodicChannel
CHECK_DEADLOCK FALSE
