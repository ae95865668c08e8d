SPECIFICATION Spec
CONSTANTS
  Senders = {s1, s2}
  Receivers = {r1, r2}
  None = None
  kMaxMessages = 2
  kNumMessagesToSend = 1
  MaxFaults = 0
  MaxKills = 0
  After <- AnyTime
INVARIANTS
  PhasesAreSeparate
CHECK_DEADLOCK FALSE
