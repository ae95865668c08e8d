------------------------------- MODULE Common -------------------------------
(***************************************************************************)
(* The configuration both executables share (common/common.hpp) and the    *)
(* messages they exchange, reduced to what the two programs tell apart:    *)
(*                                                                         *)
(*   PublicKey  the DER public key of one sender process,                  *)
(*   SymKey     the key one receiver process generated, encrypted under    *)
(*              the public key of one sender process,                      *)
(*   Periodic   one frame: its counter byte and the key its CMAC was       *)
(*              computed under.                                            *)
(*                                                                         *)
(* A key is named by the process that generated it: every process run      *)
(* draws its random bytes exactly once.  No message carries an identifier  *)
(* of its kind: "type" stands for the bytes themselves, and a handler only *)
(* learns it through what Botan makes of those bytes.                      *)
(*                                                                         *)
(* A definition named Op_Change, here and below, is Op with a mistake in   *)
(* it that the code could contain.  No specification uses one: each shows  *)
(* that some property would notice that mistake.                           *)
(***************************************************************************)
EXTENDS Naturals, Sequences

CONSTANTS
  Senders,            (* runs of output/sender, each started at most once    *)
  Receivers,          (* runs of output/receiver, each started at most once  *)
  None,               (* "no key yet", "no public key yet"                   *)
  kMaxMessages,       (* capacity of each queue (10 in common.hpp)           *)
  kNumMessagesToSend  (* periodic frames per sender (10 in common.hpp)       *)

ASSUME CommonAssumption ==
  /\ Senders \cap Receivers = {}
  /\ None \notin Senders \cup Receivers
  /\ kMaxMessages \in Nat \ {0}
  /\ kNumMessagesToSend \in Nat \ {0}

kSenderToReceiverQueue == "/mq_sender_to_receiver"
kReceiverToSenderQueue_Copied == "/mq_sender_to_receiver"
kReceiverToSenderQueue == "/mq_receiver_to_sender"
QueueNames == {kSenderToReceiverQueue, kReceiverToSenderQueue}

kByteModulo == 256

kOK == 0
kNOT_OK == 1

Keys == Senders \cup Receivers

(* The last payload byte of frame number i. *)
CounterByte_NeverWritten(i) == kByteModulo - 1
CounterByte(i) == i % kByteModulo

PublicKeyMsg == [type : {"PublicKey"}, owner : Senders]
SymKeyMsg    == [type : {"SymKey"}, to : Senders, key : Receivers]
PeriodicMsg  == [type : {"Periodic"}, ctr : 0 .. kByteModulo - 1, key : Keys]
Message      == PublicKeyMsg \cup SymKeyMsg \cup PeriodicMsg

PublicKey(s)   == [type |-> "PublicKey", owner |-> s]
SymKey(s, k)   == [type |-> "SymKey", to |-> s, key |-> k]
Periodic(i, k) == [type |-> "Periodic", ctr |-> CounterByte(i), key |-> k]

(* received_cmac = calculated_cmac_vec: the tag of a frame matches the one  *)
(* computed under k iff the frame was tagged under k (CMAC is idealised);  *)
(* the last 16 bytes of any other message never do.                        *)
TagMatches_AnyKey(k, m) == m.type = "Periodic"
TagMatches_MacNotReset(k, m) == m.type = "Periodic" /\ m.key = k /\ m.ctr = 0
TagMatches(k, m) == m.type = "Periodic" /\ m.key = k
=============================================================================
