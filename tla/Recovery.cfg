SPECIFICATION FairSpec
CONSTANTS
  Senders = {s1, s2, s3}
  Receivers = {r1, r2, r3}
  None = None
  kMaxMessages = 1
  kNumMessagesToSend = 2
  MaxFaults = 1
  MaxKills = 1
  After <- InTurn
CONSTRAINT
  AtMostOneFailure
PROPERTIES
  CleanSessionCompletes
  LeftoverNamesHeal
CHECK_DEADLOCK FALSE
