SPECIFICATION FairSpec
CONSTANTS
  Senders = {s1, s2, s3}
  Receivers = {r1, r2, r3}
  None = None
  kMaxMessages = 2
  kNumMessagesToSend = 3
  MaxFaults = 0
  MaxKills = 0
  After <- InTurn
INVARIANTS
  SInv
  NoAbort
  NoFrameLost
  NoMutualWait
PROPERTIES
  PairsAreChannels
  SessionCompletes
CHECK_DEADLOCK FALSE
