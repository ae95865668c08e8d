SPECIFICATION Spec
CONSTANTS
  Senders = {s1}
  Receivers = {r1}
  None = None
  kMaxMessages = 2
  kNumMessagesToSend = 2
  MaxFaults = 1
  MaxKills = 0
  After <- AnyTime
INVARIANTS
  SucceededMeansMatched
CHECK_DEADLOCK FALSE
