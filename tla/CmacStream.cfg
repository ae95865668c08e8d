SPECIFICATION Spec
CONSTANTS
  s1 = s1
  s2 = s2
  r1 = r1
  r2 = r2
  Senders = {s1, s2}
  Receivers = {r1, r2}
  None = None
  kMaxMessages = 2
  kNumMessagesToSend = 3
  kMessageSize = 41
  DerSize = 40
  KeyOf <- KeyOfSenders
INVARIANTS
  StreamInv
PROPERTIES
  ImplementsTaggedFrames
CHECK_DEADLOCK FALSE
