------------------------------ MODULE Receiver ------------------------------
(***************************************************************************)
(* receiver/receiver.cpp: one process per element of Receivers, laid out   *)
(* as Sender is.  rcvLog[r] is what the process has printed about each     *)
(* message its periodic loop took: the program's only output.              *)
(***************************************************************************)
EXTENDS PosixMq

VARIABLES
  rcvPc,      (* program counter                                          *)
  rcvIn,      (* mq_sender_to_receiver: a queue object, or NoQueue        *)
  rcvOut,     (* mq_receiver_to_sender: a queue object, or NoQueue        *)
  rcvPub,     (* public_key, by the sender that owns it                   *)
  rcvKey,     (* symmetric_key, by the process that generated it          *)
  rcvStatus,  (* status of main                                           *)
  rcvLog      (* messages taken by the periodic loop, with their verdicts *)

rcvVars == <<rcvPc, rcvIn, rcvOut, rcvPub, rcvKey, rcvStatus, rcvLog>>

ReceiverGone == {"off", "exited", "aborted", "killed"}
ReceiverPcs == ReceiverGone \cup
  {"openOut", "openIn", "getPublicKey", "deriveKey", "sendKey", "periodic",
   "enterExit"}

Verdicts == {"failed", "succeeded"}
LogEntry == [msg : Message, printed : SUBSET Verdicts]

ReceiverTypeOK ==
  /\ rcvPc \in [Receivers -> ReceiverPcs]
  /\ rcvIn \in [Receivers -> Nat]
  /\ rcvOut \in [Receivers -> Nat]
  /\ rcvPub \in [Receivers -> Senders \cup {None}]
  /\ rcvKey \in [Receivers -> Receivers \cup {None}]
  /\ rcvStatus \in [Receivers -> {kOK, kNOT_OK}]
  /\ rcvLog \in [Receivers -> Seq(LogEntry)]

ReceiverInit ==
  /\ rcvPc = [r \in Receivers |-> "off"]
  /\ rcvIn = [r \in Receivers |-> NoQueue]
  /\ rcvOut = [r \in Receivers |-> NoQueue]
  /\ rcvPub = [r \in Receivers |-> None]
  /\ rcvKey = [r \in Receivers |-> None]
  /\ rcvStatus = [r \in Receivers |-> kNOT_OK]
  /\ rcvLog = [r \in Receivers |-> <<>>]

ReceiverGoes(r, from, to) ==
  /\ rcvPc[r] = from
  /\ rcvPc' = [rcvPc EXCEPT ![r] = to]

ReceiverCloses(r) ==
  /\ rcvIn' = [rcvIn EXCEPT ![r] = NoQueue]
  /\ rcvOut' = [rcvOut EXCEPT ![r] = NoQueue]

ReceiverLaunch(r) ==
  /\ ReceiverGoes(r, "off", "openOut")
  /\ UNCHANGED <<mqVars, rcvIn, rcvOut, rcvPub, rcvKey, rcvStatus, rcvLog>>

-----------------------------------------------------------------------------
(* Setup: the receiver opens the two names in the other order. *)

OpenReceiverToSender(r) ==
  /\ ReceiverGoes(r, "openOut", "openIn")
  /\ MqOpen(kReceiverToSenderQueue)
  /\ rcvOut' = [rcvOut EXCEPT ![r] = Opened(kReceiverToSenderQueue)]
  /\ UNCHANGED <<rcvIn, rcvPub, rcvKey, rcvStatus, rcvLog>>

OpenSenderToReceiver(r) ==
  /\ ReceiverGoes(r, "openIn", "getPublicKey")
  /\ MqOpen(kSenderToReceiverQueue)
  /\ rcvIn' = [rcvIn EXCEPT ![r] = Opened(kSenderToReceiverQueue)]
  /\ UNCHANGED <<rcvOut, rcvPub, rcvKey, rcvStatus, rcvLog>>

ReceiverSetupFails(r) ==
  /\ \E from \in {"openOut", "openIn"} : ReceiverGoes(r, from, "exited")
  /\ ReceiverCloses(r)
  /\ MqFails
  /\ UNCHANGED <<rcvPub, rcvKey, rcvStatus, rcvLog>>

-----------------------------------------------------------------------------
(* Key exchange *)

(* X509::load_key returns a key only for the bytes of one; it throws for    *)
(* any other message, and nothing in main catches it.                      *)
LoadsKey(m) == m.type = "PublicKey"

GetPublicKey(r) ==
  LET m == Head(queues[rcvIn[r]]) IN
  /\ rcvPc[r] = "getPublicKey"
  /\ MqReceive(rcvIn[r])
  /\ \/ /\ LoadsKey(m)
        /\ ReceiverGoes(r, "getPublicKey", "deriveKey")
        /\ rcvPub' = [rcvPub EXCEPT ![r] = m.owner]
        /\ rcvStatus' = [rcvStatus EXCEPT ![r] = kOK]
        /\ UNCHANGED <<rcvIn, rcvOut>>
     \/ /\ ~LoadsKey(m)
        /\ ReceiverGoes(r, "getPublicKey", "aborted")
        /\ ReceiverCloses(r)
        /\ UNCHANGED <<rcvPub, rcvStatus>>
  /\ UNCHANGED <<rcvKey, rcvLog>>

(* The failure is printed and dropped: main falls through without a key.    *)
GetPublicKeyFails(r) ==
  /\ ReceiverGoes(r, "getPublicKey", "deriveKey")
  /\ MqFails
  /\ rcvStatus' = [rcvStatus EXCEPT ![r] = kNOT_OK]
  /\ UNCHANGED <<rcvIn, rcvOut, rcvPub, rcvKey, rcvLog>>

(* The random bytes of receiver r. *)
FreshKey_FixedSeed(r) == CHOOSE k \in Receivers : TRUE
FreshKey(r) == r

(* First half of send_symmetric_key: random bytes, then the encryption      *)
(* under *rsa.  Without a public key *rsa dereferences a null pointer,      *)
(* which ends the process at the encryptor's first virtual call.           *)
DeriveKey(r) ==
  /\ rcvKey' = [rcvKey EXCEPT ![r] = FreshKey(r)]
  /\ \/ /\ rcvPub[r] # None
        /\ ReceiverGoes(r, "deriveKey", "sendKey")
        /\ UNCHANGED <<rcvIn, rcvOut>>
     \/ /\ rcvPub[r] = None
        /\ ReceiverGoes(r, "deriveKey", "aborted")
        /\ ReceiverCloses(r)
  /\ UNCHANGED <<mqVars, rcvPub, rcvStatus, rcvLog>>

SendSymmetricKey(r) ==
  /\ ReceiverGoes(r, "sendKey", "periodic")
  /\ MqSend(rcvOut[r], SymKey(rcvPub[r], rcvKey[r]))
  /\ rcvStatus' = [rcvStatus EXCEPT ![r] = kOK]
  /\ UNCHANGED <<rcvIn, rcvOut, rcvPub, rcvKey, rcvLog>>

SendSymmetricKeyFails(r) ==
  /\ ReceiverGoes(r, "sendKey", "periodic")
  /\ MqFails
  /\ rcvStatus' = [rcvStatus EXCEPT ![r] = kNOT_OK]
  /\ UNCHANGED <<rcvIn, rcvOut, rcvPub, rcvKey, rcvLog>>

-----------------------------------------------------------------------------
(* Periodic communication *)

(* The two messages about one comparison: "failed" is printed when the tags *)
(* differ, and nothing then skips the line that prints "succeeded".        *)
Printed(k, m) == {"succeeded"} \cup (IF TagMatches(k, m) THEN {} ELSE {"failed"})

ReceivePeriodicMessage(r) ==
  LET m == Head(queues[rcvIn[r]]) IN
  /\ rcvPc[r] = "periodic"
  /\ MqReceive(rcvIn[r])
  /\ rcvLog' = [rcvLog EXCEPT ![r] =
                  Append(@, [msg |-> m, printed |-> Printed(rcvKey[r], m)])]
  /\ UNCHANGED <<rcvPc, rcvIn, rcvOut, rcvPub, rcvKey, rcvStatus>>

(* A failed receive is the only way out of the loop; it returns kOK. *)
ReceivePeriodicMessageFails(r) ==
  /\ ReceiverGoes(r, "periodic", "enterExit")
  /\ MqFails
  /\ rcvStatus' = [rcvStatus EXCEPT ![r] = kOK]
  /\ UNCHANGED <<rcvIn, rcvOut, rcvPub, rcvKey, rcvLog>>

(* Enter, then mq_close on both queues and return; no name is unlinked. *)
DismissReceiver(r) ==
  /\ ReceiverGoes(r, "enterExit", "exited")
  /\ ReceiverCloses(r)
  /\ UNCHANGED <<mqVars, rcvPub, rcvKey, rcvStatus, rcvLog>>

ReceiverKilled(r) ==
  /\ rcvPc[r] \notin ReceiverGone
  /\ ReceiverGoes(r, rcvPc[r], "killed")
  /\ ReceiverCloses(r)
  /\ UNCHANGED <<mqVars, rcvPub, rcvKey, rcvStatus, rcvLog>>

-----------------------------------------------------------------------------
ReceiverStep(r) ==
  \/ OpenReceiverToSender(r) \/ OpenSenderToReceiver(r)
  \/ GetPublicKey(r) \/ DeriveKey(r) \/ SendSymmetricKey(r)
  \/ ReceivePeriodicMessage(r)

ReceiverEnter(r) == DismissReceiver(r)

ReceiverFault(r) ==
  \/ ReceiverSetupFails(r) \/ GetPublicKeyFails(r)
  \/ SendSymmetricKeyFails(r) \/ ReceivePeriodicMessageFails(r)
=============================================================================
