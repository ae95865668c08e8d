---------------------------- MODULE MCSecureComm ----------------------------
(* Instances of SecureComm for TLC. *)
EXTENDS SecureComm, TLC

FirstSender == CHOOSE s \in Senders : TRUE
FirstReceiver == CHOOSE r \in Receivers : TRUE

(* Processes are launched whenever the operator likes. *)
AnyTime == [p \in Senders \cup Receivers |-> {}]

(* A single session implements the lossless, ordered periodic channel,     *)
(* including that each frame sent is verified in the end.                  *)
Pair == INSTANCE PeriodicChannel WITH
  N        <- kNumMessagesToSend,
  Limit    <- kMaxMessages,
  sent     <- sndIndex[FirstSender],
  verified <- VerifiedCounters(FirstReceiver)
ImplementsPeriodicChannel == Pair!Spec
=============================================================================
