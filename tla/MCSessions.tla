----------------------------- MODULE MCSessions -----------------------------
(* Instances of SecureComm for TLC in which run.sh is used several times,   *)
(* always after the sender of the use before has ended.                    *)
EXTENDS SecureComm, FiniteSets, TLC

(* The processes by the order of their use. *)
Order(S) == CHOOSE f \in [1 .. Cardinality(S) -> S] : \A x \in S : \E i \in DOMAIN f : f[i] = x
SenderOrder == Order(Senders)
ReceiverOrder == Order(Receivers)

InTurn ==
  [p \in Senders \cup Receivers |->
     LET turn == CHOOSE i \in DOMAIN SenderOrder : p \in {SenderOrder[i], ReceiverOrder[i]}
     IN  {SenderOrder[i] : i \in 1 .. turn - 1}]

(* What the theorems of SessionProofs assume is true of these instances. *)
ASSUME InTurnAssumption == OneAtATime

(* Bound: behaviours in which one process is killed or one call fails.      *)
AtMostOneFailure == kills + faults <= 1
=============================================================================
