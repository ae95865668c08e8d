------------------------------- MODULE Sender -------------------------------
(***************************************************************************)
(* sender/sender.cpp: one process per element of Senders.  sndPc[s] is the *)
(* statement process s is about to execute; each action runs to the next   *)
(* call that can block or be seen by another process.                      *)
(***************************************************************************)
EXTENDS PosixMq

VARIABLES
  sndPc,      (* program counter                                          *)
  sndOut,     (* mq_sender_to_receiver: a queue object, or NoQueue        *)
  sndIn,      (* mq_receiver_to_sender: a queue object, or NoQueue        *)
  sndKey,     (* symmetric_key, by the process that generated it          *)
  sndIndex,   (* message_index of send_periodic_message                   *)
  sndStatus   (* status of main                                           *)

sndVars == <<sndPc, sndOut, sndIn, sndKey, sndIndex, sndStatus>>

SenderGone == {"off", "exited", "aborted", "killed"}
SenderPcs == SenderGone \cup
  {"openOut", "openIn", "generate", "sendPublicKey", "enterSendFailed",
   "receiveKey", "enterReceiveFailed", "periodic", "close", "enterExit",
   "unlinkIn", "unlinkOut"}

SenderTypeOK ==
  /\ sndPc \in [Senders -> SenderPcs]
  /\ sndOut \in [Senders -> Nat]
  /\ sndIn \in [Senders -> Nat]
  /\ sndKey \in [Senders -> Keys \cup {None}]
  /\ sndIndex \in [Senders -> 0 .. kNumMessagesToSend]
  /\ sndStatus \in [Senders -> {kOK, kNOT_OK}]

SenderInit ==
  /\ sndPc = [s \in Senders |-> "off"]
  /\ sndOut = [s \in Senders |-> NoQueue]
  /\ sndIn = [s \in Senders |-> NoQueue]
  /\ sndKey = [s \in Senders |-> None]
  /\ sndIndex = [s \in Senders |-> 0]
  /\ sndStatus = [s \in Senders |-> kNOT_OK]

SenderGoes(s, from, to) ==
  /\ sndPc[s] = from
  /\ sndPc' = [sndPc EXCEPT ![s] = to]

(* mq_close on both descriptors, or the end of the process, which has the   *)
(* same effect: no name is removed.                                        *)
SenderCloses(s) ==
  /\ sndOut' = [sndOut EXCEPT ![s] = NoQueue]
  /\ sndIn' = [sndIn EXCEPT ![s] = NoQueue]

SenderLaunch(s) ==
  /\ SenderGoes(s, "off", "openOut")
  /\ UNCHANGED <<mqVars, sndOut, sndIn, sndKey, sndIndex, sndStatus>>

-----------------------------------------------------------------------------
(* Setup *)

SetupSenderCommunication_Exclusive(s) ==
  LET free == names[kSenderToReceiverQueue] = NoQueue IN
  /\ SenderGoes(s, "openOut", IF free THEN "openIn" ELSE "exited")
  /\ IF free THEN MqOpen(kSenderToReceiverQueue) ELSE UNCHANGED mqVars
  /\ sndOut' = [sndOut EXCEPT ![s] = IF free THEN Opened(kSenderToReceiverQueue) ELSE NoQueue]
  /\ UNCHANGED <<sndIn, sndKey, sndIndex, sndStatus>>

SetupSenderCommunication(s) ==
  /\ SenderGoes(s, "openOut", "openIn")
  /\ MqOpen(kSenderToReceiverQueue)
  /\ sndOut' = [sndOut EXCEPT ![s] = Opened(kSenderToReceiverQueue)]
  /\ UNCHANGED <<sndIn, sndKey, sndIndex, sndStatus>>

SetupReceiverCommunication(s) ==
  /\ SenderGoes(s, "openIn", "generate")
  /\ MqOpen(kReceiverToSenderQueue)
  /\ sndIn' = [sndIn EXCEPT ![s] = Opened(kReceiverToSenderQueue)]
  /\ UNCHANGED <<sndOut, sndKey, sndIndex, sndStatus>>

(* Either mq_open returns -1: main returns kNOT_OK at once, and a queue     *)
(* name the first call created stays behind.                               *)
SenderSetupFails(s) ==
  /\ \E from \in {"openOut", "openIn"} : SenderGoes(s, from, "exited")
  /\ SenderCloses(s)
  /\ MqFails
  /\ UNCHANGED <<sndKey, sndIndex, sndStatus>>

(* The RSA key pair, and random bytes of the sender's own in symmetric_key. *)
Generate(s) ==
  /\ SenderGoes(s, "generate", "sendPublicKey")
  /\ sndKey' = [sndKey EXCEPT ![s] = s]
  /\ UNCHANGED <<mqVars, sndOut, sndIn, sndIndex, sndStatus>>

-----------------------------------------------------------------------------
(* Key exchange *)

SendPublicKey(s) ==
  /\ SenderGoes(s, "sendPublicKey", "receiveKey")
  /\ MqSend(sndOut[s], PublicKey(s))
  /\ sndStatus' = [sndStatus EXCEPT ![s] = kOK]
  /\ UNCHANGED <<sndOut, sndIn, sndKey, sndIndex>>

SendPublicKeyFails(s) ==
  /\ SenderGoes(s, "sendPublicKey", "enterSendFailed")
  /\ MqFails
  /\ UNCHANGED <<sndOut, sndIn, sndKey, sndIndex, sndStatus>>

(* Enter after "Public key send failed. Press Enter to exit.": the function *)
(* returns kNOT_OK and main falls through to the next case.                *)
DismissSendFailure(s) ==
  /\ SenderGoes(s, "enterSendFailed", "receiveKey")
  /\ sndStatus' = [sndStatus EXCEPT ![s] = kNOT_OK]
  /\ UNCHANGED <<mqVars, sndOut, sndIn, sndKey, sndIndex>>

(* decryptor.decrypt returns only for a ciphertext made with this process's *)
(* public key; for any other it throws, and nothing in main catches it.    *)
Decrypts_Unchecked(s, m) == m.type = "SymKey"
Decrypts(s, m) == m.to = s

(* symmetric_key after symmetric_key.assign. *)
Assigned_Skipped(s, m) == s
Assigned(s, m) == m.key

ReceiveSymmetricKey(s) ==
  LET m == Head(queues[sndIn[s]]) IN
  /\ sndPc[s] = "receiveKey"
  /\ MqReceive(sndIn[s])
  /\ \/ /\ Decrypts(s, m)
        /\ SenderGoes(s, "receiveKey", "periodic")
        /\ sndKey' = [sndKey EXCEPT ![s] = Assigned(s, m)]
        /\ UNCHANGED <<sndOut, sndIn>>
     \/ /\ ~Decrypts(s, m)
        /\ SenderGoes(s, "receiveKey", "aborted")
        /\ SenderCloses(s)
        /\ UNCHANGED sndKey
  /\ UNCHANGED <<sndIndex, sndStatus>>

ReceiveSymmetricKeyFails(s) ==
  /\ SenderGoes(s, "receiveKey", "enterReceiveFailed")
  /\ MqFails
  /\ UNCHANGED <<sndOut, sndIn, sndKey, sndIndex, sndStatus>>

(* Enter after "Symmetric key receive failed. Press Enter to exit.": main   *)
(* drops the result and falls through.                                     *)
DismissReceiveFailure_Retries(s) ==
  /\ SenderGoes(s, "enterReceiveFailed", "sendPublicKey")
  /\ UNCHANGED <<mqVars, sndOut, sndIn, sndKey, sndIndex, sndStatus>>
DismissReceiveFailure(s) ==
  /\ SenderGoes(s, "enterReceiveFailed", "periodic")
  /\ UNCHANGED <<mqVars, sndOut, sndIn, sndKey, sndIndex, sndStatus>>

-----------------------------------------------------------------------------
(* Periodic communication *)

(* Where the for loop is after the frame numbered i has been sent. *)
AfterFrame_OneMore(i) == IF i < kNumMessagesToSend THEN "periodic" ELSE "close"
AfterFrame_OneLess(i) == IF i + 2 < kNumMessagesToSend THEN "periodic" ELSE "close"
AfterFrame(i) == IF i + 1 < kNumMessagesToSend THEN "periodic" ELSE "close"

SendPeriodicMessage_ByName(s) ==
  LET q == names[kSenderToReceiverQueue] IN
  /\ SenderGoes(s, "periodic", AfterFrame(sndIndex[s]))
  /\ q # NoQueue
  /\ MqSend(q, Periodic(sndIndex[s], sndKey[s]))
  /\ sndOut' = [sndOut EXCEPT ![s] = q]
  /\ sndIndex' = [sndIndex EXCEPT ![s] = @ + 1]
  /\ UNCHANGED <<sndIn, sndKey, sndStatus>>

SendPeriodicMessage(s) ==
  /\ SenderGoes(s, "periodic", AfterFrame(sndIndex[s]))
  /\ MqSend(sndOut[s], Periodic(sndIndex[s], sndKey[s]))
  /\ sndIndex' = [sndIndex EXCEPT ![s] = @ + 1]
  /\ sndStatus' = IF AfterFrame(sndIndex[s]) = "close"
                    THEN [sndStatus EXCEPT ![s] = kOK] ELSE sndStatus
  /\ UNCHANGED <<sndOut, sndIn, sndKey>>

SendPeriodicMessageFails_StatusKept(s) ==
  /\ SenderGoes(s, "periodic", "close")
  /\ MqFails
  /\ UNCHANGED <<sndOut, sndIn, sndKey, sndIndex, sndStatus>>

SendPeriodicMessageFails(s) ==
  /\ SenderGoes(s, "periodic", "close")
  /\ MqFails
  /\ sndStatus' = [sndStatus EXCEPT ![s] = kNOT_OK]
  /\ UNCHANGED <<sndOut, sndIn, sndKey, sndIndex>>

-----------------------------------------------------------------------------
(* Exit: both queues are closed before Enter, both names unlinked after it, *)
(* in the reverse order of the two MqUnlinker objects.                     *)

SenderClose(s) ==
  /\ SenderGoes(s, "close", "enterExit")
  /\ SenderCloses(s)
  /\ UNCHANGED <<mqVars, sndKey, sndIndex, sndStatus>>

DismissSender(s) ==
  /\ SenderGoes(s, "enterExit", "unlinkIn")
  /\ UNCHANGED <<mqVars, sndOut, sndIn, sndKey, sndIndex, sndStatus>>

UnlinkReceiverQueue(s) ==
  /\ SenderGoes(s, "unlinkIn", "unlinkOut")
  /\ MqUnlink(kReceiverToSenderQueue)
  /\ UNCHANGED <<sndOut, sndIn, sndKey, sndIndex, sndStatus>>

UnlinkSenderQueue_Forgotten(s) ==
  /\ SenderGoes(s, "unlinkOut", "exited")
  /\ UNCHANGED <<mqVars, sndOut, sndIn, sndKey, sndIndex, sndStatus>>

UnlinkSenderQueue_WrongName(s) ==
  /\ SenderGoes(s, "unlinkOut", "exited")
  /\ MqUnlink(kReceiverToSenderQueue)
  /\ UNCHANGED <<sndOut, sndIn, sndKey, sndIndex, sndStatus>>

UnlinkSenderQueue(s) ==
  /\ SenderGoes(s, "unlinkOut", "exited")
  /\ MqUnlink(kSenderToReceiverQueue)
  /\ UNCHANGED <<sndOut, sndIn, sndKey, sndIndex, sndStatus>>

(* A signal or a closed terminal ends the process anywhere; no destructor   *)
(* runs, so both names stay.                                               *)
SenderKilled(s) ==
  /\ sndPc[s] \notin SenderGone
  /\ SenderGoes(s, sndPc[s], "killed")
  /\ SenderCloses(s)
  /\ UNCHANGED <<mqVars, sndKey, sndIndex, sndStatus>>

-----------------------------------------------------------------------------
(* What the program does by itself, what the operator does at its terminal, *)
(* and which calls can fail.                                               *)
SenderStep(s) ==
  \/ SetupSenderCommunication(s) \/ SetupReceiverCommunication(s)
  \/ Generate(s) \/ SendPublicKey(s) \/ ReceiveSymmetricKey(s)
  \/ SendPeriodicMessage(s) \/ SenderClose(s)
  \/ UnlinkReceiverQueue(s) \/ UnlinkSenderQueue(s)

SenderEnter(s) ==
  \/ DismissSendFailure(s) \/ DismissReceiveFailure(s) \/ DismissSender(s)

SenderFault(s) ==
  \/ SenderSetupFails(s) \/ SendPublicKeyFails(s)
  \/ ReceiveSymmetricKeyFails(s) \/ SendPeriodicMessageFails(s)
=============================================================================
