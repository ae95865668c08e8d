SPECIFICATION FairSpec
CONSTANTS
  Senders = {s1}
  Receivers = {r1, r2}
  None = None
  kMaxMessages = 10
  kNumMessagesToSend = 10
  MaxFaults = 1
  MaxKills = 2
  After <- AnyTime
INVARIANTS
  PeriodicSendNeverBlocks
  RoomInv
PROPERTIES
  KeyedSenderFinishes
CHECK_DEADLOCK FALSE
