SPECIFICATION Spec
CONSTANTS
  Senders = {s1, s2}
  Receivers = {r1, r2}
  None = None
  kMaxMessages = 1
  kNumMessagesToSend = 2
  MaxFaults = 1
  MaxKills = 1
  After <- AnyTime
INVARIANTS
  TypeOK
  IInv
  DInv
  ChannelDiscipline
  KeyAgreement
  NothingLeftBehind
  PartnersShareQueues
  Authentic
  VerifiedInOrder
  SuccessMeansAllSent
CHECK_DEADLOCK FALSE
PROPERTIES
  ImplementsKeyTransport
