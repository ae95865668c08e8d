---------------------------- MODULE DeliveryProofs ----------------------------
(***************************************************************************)
(* Theorems about who receives which message of SecureComm, and in which   *)
(* order, in every schedule with any number of kills and failing calls:    *)
(* the invariant DInv and its consequences.                                *)
(*                                                                         *)
(* The argument does not go through the actions conjunct by conjunct.      *)
(* Four lemmas say once what a step of the system may do to the state of   *)
(* the processes (Progress), to the messages in the queues (Arrivals,      *)
(* OrderKept), to keys (KeyArrivals) and to the logs (LogGrows); each      *)
(* conjunct of DInv follows from these.                                    *)
(***************************************************************************)
EXTENDS SecureCommProofs

-----------------------------------------------------------------------------
(* What a step may do *)

SenderActs(s) ==
  \/ SenderLaunch(s) \/ SenderKilled(s)
  \/ SenderStep(s) \/ SenderEnter(s) \/ SenderFault(s)

ReceiverActs(r) ==
  \/ ReceiverLaunch(r) \/ ReceiverKilled(r)
  \/ ReceiverStep(r) \/ ReceiverEnter(r) \/ ReceiverFault(r)

LEMMA OneProcessActs ==
  ASSUME Next
  PROVE  \/ \E s \in Senders : SenderActs(s) /\ UNCHANGED rcvVars
         \/ \E r \in Receivers : ReceiverActs(r) /\ UNCHANGED sndVars
BY DEF Next, Launch, Kill, SenderRuns, ReceiverRuns, SenderActs, ReceiverActs

(* A process that has announced itself opens no queue again, and keeps the  *)
(* key it has got and the frames it has sent.                              *)
Progress ==
  /\ \A s \in Senders :
       /\ sndPc[s] \notin SenderUnannounced =>
            /\ sndPc'[s] \notin SenderUnannounced
            /\ sndOut'[s] \in {sndOut[s], NoQueue}
            /\ sndIn'[s] \in {sndIn[s], NoQueue}
       /\ sndKey[s] \in Receivers => sndKey'[s] = sndKey[s]
       /\ sndIndex[s] <= sndIndex'[s]
  /\ \A r \in Receivers :
       /\ rcvPub[r] # None =>
            rcvPub'[r] = rcvPub[r] /\ rcvIn'[r] \in {rcvIn[r], NoQueue}
       /\ rcvKey[r] # None => rcvOut'[r] \in {rcvOut[r], NoQueue}

LEMMA SenderProgress ==
  ASSUME CommonAssumption, IInv, NEW s \in Senders, SenderActs(s), UNCHANGED rcvVars
  PROVE  Progress
<1> USE CommonAssumption DEF IInv, TypeOK
<1>1. \A t \in Senders : t # s =>
        /\ sndPc'[t] = sndPc[t] /\ sndOut'[t] = sndOut[t] /\ sndIn'[t] = sndIn[t]
        /\ sndKey'[t] = sndKey[t] /\ sndIndex'[t] = sndIndex[t]
  BY DEF SenderTypeOK, SenderActs, SenderStep, SenderEnter, SenderFault, SenderLaunch,
     SenderKilled, SetupSenderCommunication, SetupReceiverCommunication,
     SenderSetupFails, Generate, SendPublicKey, SendPublicKeyFails, DismissSendFailure,
     ReceiveSymmetricKey, ReceiveSymmetricKeyFails, DismissReceiveFailure,
     SendPeriodicMessage, SendPeriodicMessageFails, SenderClose, DismissSender,
     UnlinkReceiverQueue, UnlinkSenderQueue, SenderGoes, SenderCloses
<1>2. sndPc[s] \notin SenderUnannounced =>
        /\ sndPc'[s] \notin SenderUnannounced
        /\ sndOut'[s] \in {sndOut[s], NoQueue}
        /\ sndIn'[s] \in {sndIn[s], NoQueue}
  BY DEF SenderTypeOK, SenderActs, SenderStep, SenderEnter, SenderFault, SenderLaunch,
     SenderKilled, SetupSenderCommunication, SetupReceiverCommunication,
     SenderSetupFails, Generate, SendPublicKey, SendPublicKeyFails, DismissSendFailure,
     ReceiveSymmetricKey, ReceiveSymmetricKeyFails, DismissReceiveFailure,
     SendPeriodicMessage, SendPeriodicMessageFails, SenderClose, DismissSender,
     UnlinkReceiverQueue, UnlinkSenderQueue, SenderGoes, SenderCloses,
     SenderUnannounced, AfterFrame, SenderGone
<1>3. sndKey[s] \in Receivers => sndKey'[s] = sndKey[s]
  <2>1. CASE Generate(s) \/ ReceiveSymmetricKey(s)
    BY <2>1 DEF KeyedBeforeUse, Generate, ReceiveSymmetricKey, SenderGoes
  <2>2. CASE ~(Generate(s) \/ ReceiveSymmetricKey(s))
    BY <2>2 DEF SenderActs, SenderStep, SenderEnter, SenderFault, SenderLaunch,
       SenderKilled, SetupSenderCommunication, SetupReceiverCommunication,
       SenderSetupFails, SendPublicKey, SendPublicKeyFails, DismissSendFailure,
       ReceiveSymmetricKeyFails, DismissReceiveFailure, SendPeriodicMessage,
       SendPeriodicMessageFails, SenderClose, DismissSender,
       UnlinkReceiverQueue, UnlinkSenderQueue
  <2>3. QED
    BY <2>1, <2>2
<1>4. \A t \in Senders : sndIndex[t] \in Nat /\ sndIndex[t] <= sndIndex'[t]
  <2>1. sndIndex \in [Senders -> Nat]
    BY DEF SenderTypeOK
  <2>2. \/ sndIndex' = sndIndex
        \/ sndIndex' = [sndIndex EXCEPT ![s] = sndIndex[s] + 1]
    BY DEF SenderActs, SenderStep, SenderEnter, SenderFault, SenderLaunch,
       SenderKilled, SetupSenderCommunication, SetupReceiverCommunication,
       SenderSetupFails, Generate, SendPublicKey, SendPublicKeyFails,
       DismissSendFailure, ReceiveSymmetricKey, ReceiveSymmetricKeyFails,
       DismissReceiveFailure, SendPeriodicMessage, SendPeriodicMessageFails,
       SenderClose, DismissSender, UnlinkReceiverQueue, UnlinkSenderQueue
  <2>3. QED
    BY <2>1, <2>2
<1>5. QED
  BY <1>1, <1>2, <1>3, <1>4 DEF Progress, rcvVars

LEMMA ReceiverProgress ==
  ASSUME CommonAssumption, IInv, NEW r \in Receivers, ReceiverActs(r), UNCHANGED sndVars
  PROVE  Progress
<1> USE CommonAssumption DEF IInv, TypeOK
<1>1. \A t \in Receivers : t # r =>
        /\ rcvIn'[t] = rcvIn[t] /\ rcvOut'[t] = rcvOut[t] /\ rcvPub'[t] = rcvPub[t]
  BY DEF ReceiverTypeOK, ReceiverActs, ReceiverStep, ReceiverEnter, ReceiverFault,
     ReceiverLaunch, ReceiverKilled, OpenReceiverToSender, OpenSenderToReceiver,
     ReceiverSetupFails, GetPublicKey, GetPublicKeyFails, DeriveKey, SendSymmetricKey,
     SendSymmetricKeyFails, ReceivePeriodicMessage, ReceivePeriodicMessageFails,
     DismissReceiver, ReceiverCloses
<1>2. rcvPub[r] # None => rcvPub'[r] = rcvPub[r] /\ rcvIn'[r] \in {rcvIn[r], NoQueue}
  BY DEF ReceiverTypeOK, ReceiverActs, ReceiverStep, ReceiverEnter, ReceiverFault,
     ReceiverLaunch, ReceiverKilled, OpenReceiverToSender, OpenSenderToReceiver,
     ReceiverSetupFails, GetPublicKey, GetPublicKeyFails, DeriveKey, SendSymmetricKey,
     SendSymmetricKeyFails, ReceivePeriodicMessage, ReceivePeriodicMessageFails,
     DismissReceiver, ReceiverCloses, ReceiverGoes, KeyedBeforeUse
<1>3. rcvKey[r] # None => rcvOut'[r] \in {rcvOut[r], NoQueue}
  BY DEF ReceiverTypeOK, ReceiverActs, ReceiverStep, ReceiverEnter, ReceiverFault,
     ReceiverLaunch, ReceiverKilled, OpenReceiverToSender, OpenSenderToReceiver,
     ReceiverSetupFails, GetPublicKey, GetPublicKeyFails, DeriveKey, SendSymmetricKey,
     SendSymmetricKeyFails, ReceivePeriodicMessage, ReceivePeriodicMessageFails,
     DismissReceiver, ReceiverCloses, ReceiverGoes, KeyedBeforeUse, ReceiverKeyless
<1>4. \A s \in Senders : sndIndex[s] <= sndIndex'[s]
  BY DEF SenderTypeOK, sndVars
<1>5. QED
  BY <1>1, <1>2, <1>3, <1>4 DEF Progress, sndVars

LEMMA StepProgress ==
  ASSUME CommonAssumption, IInv, [Next]_vars PROVE Progress
<1>1. CASE UNCHANGED vars
  BY <1>1 DEF Progress, vars, sndVars, rcvVars, IInv, TypeOK, SenderTypeOK
<1>2. CASE Next
  BY <1>2, CommonAssumption, OneProcessActs, SenderProgress, ReceiverProgress
<1>3. QED
  BY <1>1, <1>2

-----------------------------------------------------------------------------
(* The messages that a step adds, and their order *)

(* queues' is queues with a message added to object q. *)
Adds(q, m) ==
  /\ q \in 1 .. Len(queues) /\ Len(queues') = Len(queues)
  /\ \A p \in 1 .. Len(queues) : p # q => queues'[p] = queues[p]
  /\ Len(queues'[q]) = Len(queues[q]) + 1
  /\ \A i \in 1 .. Len(queues[q]) : queues'[q][i] = queues[q][i]
  /\ queues'[q][Len(queues[q]) + 1] = m

(* queues' is queues, perhaps with an oldest message taken or with an empty *)
(* object created.                                                         *)
Drains ==
  \A q \in 1 .. Len(queues') :
    \/ Len(queues'[q]) = 0
    \/ /\ q \in 1 .. Len(queues)
       /\ \E d \in {0, 1} : \A i \in 1 .. Len(queues'[q]) :
            i + d \in 1 .. Len(queues[q]) /\ queues'[q][i] = queues[q][i + d]

LEMMA OpenDrains ==
  ASSUME MqTypeOK, NEW n \in QueueNames, names[n] \in 0 .. Len(queues), MqOpen(n)
  PROVE  Drains
<1>1. SUFFICES ASSUME NEW q \in 1 .. Len(queues'), Len(queues'[q]) # 0
               PROVE  q \in 1 .. Len(queues) /\ queues'[q] = queues[q]
  <2>1. \A q \in 1 .. Len(queues) : queues[q] \in Seq(Message)
    BY DEF MqTypeOK
  <2>2. QED
    BY <1>1, <2>1 DEF Drains
<1>2. QED
  BY <1>1, OpenEffect

LEMMA ReceiveDrains ==
  ASSUME MqTypeOK, NEW p \in 1 .. Len(queues), MqReceive(p)
  PROVE  Drains
<1>1. SUFFICES ASSUME NEW q \in 1 .. Len(queues')
               PROVE  /\ q \in 1 .. Len(queues)
                      /\ \E d \in {0, 1} : \A i \in 1 .. Len(queues'[q]) :
                           /\ i + d \in 1 .. Len(queues[q])
                           /\ queues'[q][i] = queues[q][i + d]
  BY DEF Drains
<1>2. q \in 1 .. Len(queues) /\ queues[q] \in Seq(Message)
  BY ReceiveEffect DEF MqTypeOK
<1>3. CASE q = p
  BY <1>2, <1>3, ReceiveEffect
<1>4. CASE q # p
  BY <1>2, <1>4, ReceiveEffect
<1>5. QED
  BY <1>3, <1>4

LEMMA SendAdds ==
  ASSUME MqTypeOK, NEW q \in 1 .. Len(queues), NEW m \in Message, MqSend(q, m)
  PROVE  Adds(q, m)
BY SendEffect DEF Adds

LEMMA CounterFits ==
  ASSUME NEW i \in Nat
  PROVE  /\ CounterByte(i) \in 0 .. kByteModulo - 1
         /\ i < kByteModulo => CounterByte(i) = i
BY DEF CounterByte, kByteModulo

(* Every step drains, or adds one message to the queue its sender has open. *)
Posts(q, m) ==
  \/ \E s \in Senders :
       SendPublicKey(s) /\ q = sndOut[s] /\ m = PublicKey(s) /\ UNCHANGED rcvVars
  \/ \E s \in Senders :
       /\ SendPeriodicMessage(s) /\ UNCHANGED rcvVars
       /\ q = sndOut[s] /\ m = Periodic(sndIndex[s], sndKey[s])
  \/ \E r \in Receivers :
       /\ SendSymmetricKey(r) /\ UNCHANGED sndVars
       /\ q = rcvOut[r] /\ m = SymKey(rcvPub[r], rcvKey[r])

LEMMA UnchangedDrains == ASSUME MqTypeOK, queues' = queues PROVE Drains
<1>1. \A q \in 1 .. Len(queues) : queues[q] \in Seq(Message)
  BY DEF MqTypeOK
<1>2. QED
  BY <1>1 DEF Drains

LEMMA StepTransfers ==
  ASSUME CommonAssumption, IInv, [Next]_vars
  PROVE  Drains \/ \E q \in Nat, m \in Message : Posts(q, m) /\ Adds(q, m)
<1> USE CommonAssumption DEF IInv, TypeOK
<1>1. \A s \in Senders :
        /\ sndPc[s] \in SenderConnected =>
             sndOut[s] \in 1 .. Len(queues) /\ sndIn[s] \in 1 .. Len(queues)
        /\ sndPc[s] \in SenderKeyed => sndKey[s] \in Keys
        /\ sndIndex[s] \in Nat
  BY DEF DescriptorsValid, NoQueue, KeyedBeforeUse, SenderTypeOK, MqTypeOK
<1>2. \A r \in Receivers : rcvPc[r] \in ReceiverConnected =>
        rcvOut[r] \in 1 .. Len(queues) /\ rcvIn[r] \in 1 .. Len(queues)
  BY DEF DescriptorsValid, NoQueue, MqTypeOK
<1>3. \A n \in QueueNames : names[n] \in 0 .. Len(queues)
  BY DEF DescriptorsValid
<1>4. ASSUME NEW s \in Senders, SenderActs(s), UNCHANGED rcvVars
      PROVE  Drains \/ \E q \in Nat, m \in Message : Posts(q, m) /\ Adds(q, m)
  <2>1. CASE SendPublicKey(s)
    <3>1. /\ sndOut[s] \in 1 .. Len(queues) /\ MqSend(sndOut[s], PublicKey(s))
          /\ PublicKey(s) \in Message
      BY <1>1, <2>1 DEF SendPublicKey, SenderGoes, SenderConnected, PublicKey,
         PublicKeyMsg, Message
    <3>2. Posts(sndOut[s], PublicKey(s)) /\ Adds(sndOut[s], PublicKey(s))
      BY <1>4, <2>1, <3>1, SendAdds DEF Posts
    <3>3. QED
      BY <3>1, <3>2
  <2>2. CASE SendPeriodicMessage(s)
    <3> DEFINE m == Periodic(sndIndex[s], sndKey[s])
    <3>1. sndOut[s] \in 1 .. Len(queues) /\ MqSend(sndOut[s], m) /\ sndKey[s] \in Keys
      BY <1>1, <2>2 DEF SendPeriodicMessage, SenderGoes, SenderConnected, SenderKeyed
    <3>2. m \in Message
      <4>1. CounterByte(sndIndex[s]) \in 0 .. kByteModulo - 1
        BY <1>1, CounterFits
      <4>2. QED
        BY <3>1, <4>1 DEF Periodic, PeriodicMsg, Message
    <3>3. Posts(sndOut[s], m) /\ Adds(sndOut[s], m)
      BY <1>4, <2>2, <3>1, <3>2, SendAdds DEF Posts
    <3>4. QED
      BY <3>1, <3>2, <3>3
  <2>3. CASE ReceiveSymmetricKey(s)
    BY <1>1, <2>3, ReceiveDrains DEF ReceiveSymmetricKey, SenderConnected
  <2>4. CASE SetupSenderCommunication(s) \/ SetupReceiverCommunication(s)
    BY <1>3, <2>4, OpenDrains
       DEF SetupSenderCommunication, SetupReceiverCommunication, QueueNames
  <2>5. CASE ~SendPublicKey(s) /\ ~SendPeriodicMessage(s) /\ ~ReceiveSymmetricKey(s)
             /\ ~SetupSenderCommunication(s) /\ ~SetupReceiverCommunication(s)
    <3>1. queues' = queues
      BY <1>4, <2>5
         DEF SenderActs, SenderStep, SenderEnter, SenderFault, SenderLaunch,
             SenderKilled, SenderSetupFails, Generate, SendPublicKeyFails,
             DismissSendFailure, ReceiveSymmetricKeyFails, DismissReceiveFailure,
             SendPeriodicMessageFails, SenderClose, DismissSender,
             UnlinkReceiverQueue, UnlinkSenderQueue, mqVars, MqFails, MqUnlink
    <3>2. QED
      BY <3>1, UnchangedDrains
  <2>6. QED
    BY <2>1, <2>2, <2>3, <2>4, <2>5
<1>5. ASSUME NEW r \in Receivers, ReceiverActs(r), UNCHANGED sndVars
      PROVE  Drains \/ \E q \in Nat, m \in Message : Posts(q, m) /\ Adds(q, m)
  <2>1. CASE SendSymmetricKey(r)
    <3> DEFINE m == SymKey(rcvPub[r], rcvKey[r])
    <3>1. rcvOut[r] \in 1 .. Len(queues) /\ MqSend(rcvOut[r], m) /\ m \in Message
      BY <1>2, <2>1 DEF SendSymmetricKey, ReceiverGoes, ReceiverConnected,
         KeyedBeforeUse, SymKey, SymKeyMsg, Message
    <3>2. Posts(rcvOut[r], m) /\ Adds(rcvOut[r], m)
      BY <1>5, <2>1, <3>1, SendAdds DEF Posts
    <3>3. QED
      BY <3>1, <3>2
  <2>2. CASE GetPublicKey(r) \/ ReceivePeriodicMessage(r)
    BY <1>2, <2>2, ReceiveDrains DEF GetPublicKey, ReceivePeriodicMessage,
       ReceiverConnected
  <2>3. CASE OpenReceiverToSender(r) \/ OpenSenderToReceiver(r)
    BY <1>3, <2>3, OpenDrains
       DEF OpenReceiverToSender, OpenSenderToReceiver, QueueNames
  <2>4. CASE ~SendSymmetricKey(r) /\ ~GetPublicKey(r) /\ ~ReceivePeriodicMessage(r)
             /\ ~OpenReceiverToSender(r) /\ ~OpenSenderToReceiver(r)
    <3>1. queues' = queues
      BY <1>5, <2>4
         DEF ReceiverActs, ReceiverStep, ReceiverEnter, ReceiverFault, ReceiverLaunch,
             ReceiverKilled, ReceiverSetupFails, GetPublicKeyFails, DeriveKey,
             SendSymmetricKeyFails, ReceivePeriodicMessageFails, DismissReceiver,
             mqVars, MqFails
    <3>2. QED
      BY <3>1, UnchangedDrains
  <2>5. QED
    BY <2>1, <2>2, <2>3, <2>4
<1>6. CASE UNCHANGED vars
  BY <1>6, UnchangedDrains DEF vars, mqVars
<1>7. QED
  BY <1>4, <1>5, <1>6, OneProcessActs

(* A message in a queue was there before, or its sender has just put it.    *)
LEMMA NewMessage ==
  ASSUME CommonAssumption, IInv, [Next]_vars,
         NEW q \in 1 .. Len(queues'), NEW m \in Waiting(q)'
  PROVE  \/ q \in 1 .. Len(queues) /\ m \in Waiting(q)
         \/ Posts(q, m)
<1>1. PICK i \in 1 .. Len(queues'[q]) : m = queues'[q][i]
  BY DEF Waiting
<1>2. q \in Nat /\ \A p \in 1 .. Len(queues) : queues[p] \in Seq(Message)
  BY StepTransfers DEF IInv, TypeOK, MqTypeOK, Adds, Drains
<1>3. CASE Drains
  <2>1. \/ Len(queues'[q]) = 0
        \/ /\ q \in 1 .. Len(queues)
           /\ \E d \in {0, 1} : \A j \in 1 .. Len(queues'[q]) :
                j + d \in 1 .. Len(queues[q]) /\ queues'[q][j] = queues[q][j + d]
    BY <1>3 DEF Drains
  <2>2. Len(queues'[q]) # 0
    BY <1>1
  <2>3. PICK d \in {0, 1} : i + d \in 1 .. Len(queues[q]) /\ m = queues[q][i + d]
    BY <1>1, <2>1, <2>2
  <2>4. QED
    BY <2>1, <2>2, <2>3 DEF Waiting
<1>4. ASSUME NEW p \in Nat, NEW x \in Message, Posts(p, x), Adds(p, x)
      PROVE  \/ q \in 1 .. Len(queues) /\ m \in Waiting(q)
             \/ Posts(q, m)
  <2>1. CASE q = p
    <3>1. q \in 1 .. Len(queues) /\ queues[q] \in Seq(Message)
      BY <1>2, <1>4, <2>1 DEF Adds
    <3>2. Len(queues'[q]) = Len(queues[q]) + 1 /\ Len(queues[q]) \in Nat
      BY <1>4, <2>1, <3>1 DEF Adds
    <3>3. (i \in 1 .. Len(queues[q]) /\ m = queues[q][i]) \/ m = x
      <4>1. i \in 1 .. Len(queues[q]) \/ i = Len(queues[q]) + 1
        BY <3>2
      <4>2. \A j \in 1 .. Len(queues[q]) : queues'[q][j] = queues[q][j]
        BY <1>4, <2>1 DEF Adds
      <4>3. queues'[q][Len(queues[q]) + 1] = x
        BY <1>4, <2>1 DEF Adds
      <4>4. QED
        BY <1>1, <4>1, <4>2, <4>3
    <3>4. QED
      BY <1>4, <2>1, <3>1, <3>3 DEF Waiting
  <2>2. CASE q # p
    <3>1. q \in 1 .. Len(queues) /\ queues'[q] = queues[q]
      BY <1>4, <2>2 DEF Adds
    <3>2. QED
      BY <1>1, <3>1 DEF Waiting
  <2>3. QED
    BY <2>1, <2>2
<1>5. QED
  BY <1>3, <1>4, StepTransfers

-----------------------------------------------------------------------------
(* The keys and log entries that a step adds *)

(* A process that waits in mq_receive takes the oldest message.             *)
LEMMA OldestWaits ==
  ASSUME MqTypeOK, NEW q \in 1 .. Len(queues), MqReceive(q)
  PROVE  Head(queues[q]) \in Waiting(q) /\ Head(queues[q]) \in Message
BY ReceiveEffect DEF Waiting

LEMMA NewPublicKey ==
  ASSUME CommonAssumption, IInv, [Next]_vars,
         NEW r \in Receivers, rcvPub'[r] # rcvPub[r]
  PROVE  /\ rcvPub'[r] \in Senders
         /\ rcvIn'[r] = rcvIn[r] /\ rcvIn[r] \in 1 .. Len(queues)
         /\ PublicKey(rcvPub'[r]) \in Waiting(rcvIn[r])
         /\ MqReceive(rcvIn[r]) /\ Head(queues[rcvIn[r]]).type = "PublicKey"
         /\ UNCHANGED sndVars
<1> USE CommonAssumption DEF IInv, TypeOK
<1>1. GetPublicKey(r) /\ UNCHANGED sndVars
  <2>1. PICK t \in Receivers : ReceiverActs(t) /\ UNCHANGED sndVars
    BY OneProcessActs DEF vars, rcvVars
  <2>2. CASE t = r /\ GetPublicKey(r)
    BY <2>1, <2>2
  <2>3. CASE t # r \/ ~GetPublicKey(t)
    <3>1. rcvPub' = rcvPub \/ (GetPublicKey(t) /\ rcvPub'[r] = rcvPub[r])
      BY <2>1, <2>3
         DEF ReceiverTypeOK, ReceiverActs, ReceiverStep, ReceiverEnter, ReceiverFault,
             ReceiverLaunch, ReceiverKilled, OpenReceiverToSender, OpenSenderToReceiver,
             ReceiverSetupFails, GetPublicKey, GetPublicKeyFails, DeriveKey,
             SendSymmetricKey, SendSymmetricKeyFails, ReceivePeriodicMessage,
             ReceivePeriodicMessageFails, DismissReceiver
    <3>2. QED
      BY <3>1
  <2>4. QED
    BY <2>2, <2>3
<1> DEFINE m == Head(queues[rcvIn[r]])
<1>2. rcvIn[r] \in 1 .. Len(queues) /\ MqReceive(rcvIn[r])
  BY <1>1 DEF GetPublicKey, DescriptorsValid, ReceiverConnected, NoQueue, MqTypeOK
<1>3. m \in Waiting(rcvIn[r]) /\ m \in Message
  BY <1>2, OldestWaits
<1>4. m.type = "PublicKey" /\ rcvPub'[r] = m.owner /\ rcvIn' = rcvIn
  BY <1>1 DEF GetPublicKey, LoadsKey, ReceiverTypeOK
<1>5. m = PublicKey(m.owner) /\ m.owner \in Senders
  BY <1>3, <1>4 DEF Message, PublicKeyMsg, SymKeyMsg, PeriodicMsg, PublicKey
<1>6. QED
  BY <1>1, <1>2, <1>3, <1>4, <1>5

LEMMA NewSymmetricKey ==
  ASSUME CommonAssumption, IInv, [Next]_vars,
         NEW s \in Senders, sndKey'[s] \in Receivers, sndKey'[s] # sndKey[s]
  PROVE  /\ sndIn'[s] = sndIn[s] /\ sndIn[s] \in 1 .. Len(queues)
         /\ sndOut'[s] = sndOut[s]
         /\ SymKey(s, sndKey'[s]) \in Waiting(sndIn[s])
         /\ UNCHANGED rcvVars
<1> USE CommonAssumption DEF IInv, TypeOK
<1>1. ReceiveSymmetricKey(s) /\ UNCHANGED rcvVars
  <2>1. PICK t \in Senders : SenderActs(t) /\ UNCHANGED rcvVars
    BY OneProcessActs DEF vars, sndVars
  <2>2. CASE Generate(t)
    BY <2>2 DEF Generate, SenderTypeOK
  <2>3. CASE ReceiveSymmetricKey(t)
    <3>1. t = s
      BY <2>3 DEF ReceiveSymmetricKey, SenderTypeOK
    <3>2. QED
      BY <2>1, <2>3, <3>1
  <2>4. CASE ~Generate(t) /\ ~ReceiveSymmetricKey(t)
    <3>1. sndKey' = sndKey
      BY <2>1, <2>4
         DEF SenderActs, SenderStep, SenderEnter, SenderFault, SenderLaunch,
             SenderKilled, SetupSenderCommunication, SetupReceiverCommunication,
             SenderSetupFails, SendPublicKey, SendPublicKeyFails, DismissSendFailure,
             ReceiveSymmetricKeyFails, DismissReceiveFailure, SendPeriodicMessage,
             SendPeriodicMessageFails, SenderClose, DismissSender,
             UnlinkReceiverQueue, UnlinkSenderQueue
    <3>2. QED
      BY <3>1
  <2>5. QED
    BY <2>2, <2>3, <2>4
<1> DEFINE m == Head(queues[sndIn[s]])
<1>2. sndIn[s] \in 1 .. Len(queues) /\ MqReceive(sndIn[s])
  BY <1>1 DEF ReceiveSymmetricKey, DescriptorsValid, SenderConnected, NoQueue, MqTypeOK
<1>3. m \in Waiting(sndIn[s]) /\ m \in Message
  BY <1>2, OldestWaits
<1>4. m.to = s /\ sndKey'[s] = m.key /\ sndIn' = sndIn /\ sndOut' = sndOut
  BY <1>1 DEF ReceiveSymmetricKey, Decrypts, Assigned, SenderTypeOK
<1>5. m \in SymKeyMsg
  <2>1. Reply(sndIn[s])
    BY DEF Reply
  <2>2. QED
    BY <1>2, <1>3, <2>1 DEF ChannelsSeparate, Waiting
<1>6. m = SymKey(m.to, m.key)
  BY <1>5 DEF SymKeyMsg, SymKey
<1>7. QED
  BY <1>1, <1>2, <1>3, <1>4, <1>6

LEMMA NewLogEntry ==
  ASSUME CommonAssumption, IInv, [Next]_vars,
         NEW r \in Receivers, rcvLog'[r] # rcvLog[r]
  PROVE  /\ rcvIn[r] \in 1 .. Len(queues) /\ MqReceive(rcvIn[r])
         /\ rcvLog'[r] = Append(rcvLog[r],
              [msg     |-> Head(queues[rcvIn[r]]),
               printed |-> Printed(rcvKey[r], Head(queues[rcvIn[r]]))])
<1> USE CommonAssumption DEF IInv, TypeOK
<1>1. ReceivePeriodicMessage(r)
  <2>1. PICK t \in Receivers : ReceiverActs(t) /\ UNCHANGED sndVars
    BY OneProcessActs DEF vars, rcvVars
  <2>2. CASE ReceivePeriodicMessage(t)
    BY <2>2 DEF ReceivePeriodicMessage, ReceiverTypeOK
  <2>3. CASE ~ReceivePeriodicMessage(t)
    <3>1. rcvLog' = rcvLog
      BY <2>1, <2>3
         DEF ReceiverActs, ReceiverStep, ReceiverEnter, ReceiverFault, ReceiverLaunch,
             ReceiverKilled, OpenReceiverToSender, OpenSenderToReceiver,
             ReceiverSetupFails, GetPublicKey, GetPublicKeyFails, DeriveKey,
             SendSymmetricKey, SendSymmetricKeyFails, ReceivePeriodicMessageFails,
             DismissReceiver
    <3>2. QED
      BY <3>1
  <2>4. QED
    BY <2>2, <2>3
<1>2. QED
  BY <1>1 DEF ReceivePeriodicMessage, DescriptorsValid, ReceiverConnected, NoQueue,
     MqTypeOK, ReceiverTypeOK

-----------------------------------------------------------------------------
(* The conjuncts of DInv that speak of one message at a time *)

LEMMA StatusKept ==
  ASSUME CommonAssumption, IInv, StatusHonest, [Next]_vars PROVE StatusHonest'
<1> USE CommonAssumption DEF IInv, TypeOK
<1>1. ASSUME sndVars' = sndVars PROVE StatusHonest'
  BY <1>1 DEF StatusHonest, sndVars
<1>2. ASSUME NEW s \in Senders, SenderActs(s) PROVE StatusHonest'
  <2>1. CASE SendPeriodicMessage(s)
    <3>1. sndIndex[s] + 1 <= kNumMessagesToSend /\ sndIndex[s] \in Nat
      BY <2>1 DEF SendPeriodicMessage, SenderGoes, KeyedBeforeUse, SenderConnected,
         SenderTypeOK
    <3>2. QED
      BY <2>1, <3>1 DEF StatusHonest, SendPeriodicMessage, SenderGoes, AfterFrame,
         SenderTypeOK, SenderUnannounced, SenderFinished
  <2>2. CASE ~SendPeriodicMessage(s)
    BY <1>2, <2>2
       DEF StatusHonest, SenderUnannounced, SenderFinished, SenderTypeOK, SenderGoes,
           SenderActs, SenderStep, SenderEnter, SenderFault, SenderLaunch,
           SenderKilled, SetupSenderCommunication, SetupReceiverCommunication,
           SenderSetupFails, Generate, SendPublicKey, SendPublicKeyFails,
           DismissSendFailure, ReceiveSymmetricKey, ReceiveSymmetricKeyFails,
           DismissReceiveFailure, SendPeriodicMessageFails, SenderClose,
           DismissSender, UnlinkReceiverQueue, UnlinkSenderQueue, SenderGone,
           kOK, kNOT_OK
  <2>3. QED
    BY <2>1, <2>2
<1>3. QED
  BY <1>1, <1>2, OneProcessActs DEF vars

LEMMA PublicKeysKept ==
  ASSUME CommonAssumption, IInv, PublicKeysPlaced, [Next]_vars PROVE PublicKeysPlaced'
<1> USE CommonAssumption DEF IInv, TypeOK
<1>1. Progress
  BY StepProgress
<1>2. ASSUME NEW q \in 1 .. Len(queues'), NEW m \in Waiting(q)', m.type = "PublicKey"
      PROVE  /\ sndPc'[m.owner] \notin SenderUnannounced
             /\ sndOut'[m.owner] \in {q, NoQueue}
  <2>1. CASE q \in 1 .. Len(queues) /\ m \in Waiting(q)
    <3>1. m \in Message
      BY <2>1 DEF Waiting, MqTypeOK
    <3>2. m.owner \in Senders
      BY <1>2, <3>1 DEF Message, PublicKeyMsg, SymKeyMsg, PeriodicMsg
    <3>3. sndPc[m.owner] \notin SenderUnannounced /\ sndOut[m.owner] \in {q, NoQueue}
      BY <1>2, <2>1 DEF PublicKeysPlaced
    <3>4. QED
      BY <1>1, <3>2, <3>3 DEF Progress
  <2>2. CASE Posts(q, m)
    <3>1. PICK s \in Senders : SendPublicKey(s) /\ q = sndOut[s] /\ m = PublicKey(s)
      BY <1>2, <2>2 DEF Posts, Periodic, SymKey
    <3>2. m.owner = s /\ sndPc'[s] = "receiveKey" /\ sndOut' = sndOut
      BY <3>1 DEF PublicKey, SendPublicKey, SenderGoes, SenderTypeOK
    <3>3. QED
      BY <3>1, <3>2 DEF SenderUnannounced
  <2>3. QED
    BY <1>2, <2>1, <2>2, NewMessage
<1>3. ASSUME NEW r \in Receivers, rcvPub'[r] # None
      PROVE  /\ sndPc'[rcvPub'[r]] \notin SenderUnannounced
             /\ rcvIn'[r] # NoQueue => sndOut'[rcvPub'[r]] \in {rcvIn'[r], NoQueue}
  <2>1. CASE rcvPub'[r] = rcvPub[r]
    <3>1. rcvPub[r] \in Senders /\ rcvPub[r] # None
      BY <1>3, <2>1 DEF ReceiverTypeOK
    <3>2. QED
      BY <1>1, <2>1, <3>1 DEF PublicKeysPlaced, Progress
  <2>2. CASE rcvPub'[r] # rcvPub[r]
    <3> DEFINE s == rcvPub'[r]
    <3>1. /\ s \in Senders /\ rcvIn'[r] = rcvIn[r] /\ rcvIn[r] \in 1 .. Len(queues)
          /\ PublicKey(s) \in Waiting(rcvIn[r]) /\ UNCHANGED sndVars
      BY <2>2, NewPublicKey
    <3>2. PublicKey(s).type = "PublicKey" /\ PublicKey(s).owner = s
      BY DEF PublicKey
    <3>3. sndPc[s] \notin SenderUnannounced /\ sndOut[s] \in {rcvIn[r], NoQueue}
      BY <3>1, <3>2 DEF PublicKeysPlaced
    <3>4. QED
      BY <3>1, <3>3 DEF sndVars
  <2>3. QED
    BY <2>1, <2>2
<1>4. QED
  BY <1>2, <1>3 DEF PublicKeysPlaced

LEMMA WrappedKeysKept ==
  ASSUME CommonAssumption, IInv, WrappedKeysPlaced, [Next]_vars
  PROVE  WrappedKeysPlaced'
<1> USE CommonAssumption DEF IInv, TypeOK
<1>1. SUFFICES ASSUME NEW q \in 1 .. Len(queues'), NEW m \in Waiting(q)',
                      m.type = "SymKey"
               PROVE  rcvOut'[m.key] \in {q, NoQueue}
  BY DEF WrappedKeysPlaced
<1>2. CASE q \in 1 .. Len(queues) /\ m \in Waiting(q)
  <2>1. m \in Message
    BY <1>2 DEF Waiting, MqTypeOK
  <2>2. m \in SymKeyMsg /\ m.key \in Receivers
    BY <1>1, <2>1 DEF Message, PublicKeyMsg, SymKeyMsg, PeriodicMsg
  <2>3. rcvKey[m.key] = m.key /\ rcvOut[m.key] \in {q, NoQueue}
    BY <1>1, <1>2, <2>2 DEF WrappedKeysPlaced, WrappedKeysGenuine, Waiting
  <2>4. QED
    BY <2>2, <2>3, StepProgress DEF Progress
<1>3. CASE Posts(q, m)
  <2>1. PICK r \in Receivers :
          SendSymmetricKey(r) /\ q = rcvOut[r] /\ m = SymKey(rcvPub[r], rcvKey[r])
    BY <1>1, <1>3 DEF Posts, Periodic, PublicKey
  <2>2. m.key = r /\ rcvOut' = rcvOut
    BY <2>1 DEF SendSymmetricKey, ReceiverGoes, KeyedBeforeUse, SymKey
  <2>3. QED
    BY <2>1, <2>2
<1>4. QED
  BY <1>1, <1>2, <1>3, NewMessage

LEMMA PartnersKept ==
  ASSUME CommonAssumption, IInv, PublicKeysPlaced, WrappedKeysPlaced,
         PartnersShareQueues, [Next]_vars
  PROVE  PartnersShareQueues'
<1> USE CommonAssumption DEF IInv, TypeOK
<1>1. SUFFICES ASSUME NEW s \in Senders, NEW r \in Receivers, sndKey'[s] = r
               PROVE  /\ sndOut'[s] # NoQueue /\ rcvIn'[r] # NoQueue =>
                           sndOut'[s] = rcvIn'[r]
                      /\ sndIn'[s] # NoQueue /\ rcvOut'[r] # NoQueue =>
                           sndIn'[s] = rcvOut'[r]
  BY DEF PartnersShareQueues
<1>2. Progress
  BY StepProgress
<1>3. CASE sndKey[s] = r
  <2>1. rcvPub[r] = s /\ rcvKey[r] = r
    BY <1>3 DEF KeyAgreement
  <2>2. sndPc[s] \notin SenderUnannounced
    BY <2>1 DEF PublicKeysPlaced
  <2>3. QED
    BY <1>2, <1>3, <2>1, <2>2 DEF Progress, PartnersShareQueues
<1>4. CASE sndKey[s] # r
  <2>1. /\ sndIn'[s] = sndIn[s] /\ sndIn[s] \in 1 .. Len(queues)
        /\ sndOut'[s] = sndOut[s] /\ SymKey(s, r) \in Waiting(sndIn[s])
        /\ UNCHANGED rcvVars
    BY <1>1, <1>4, NewSymmetricKey
  <2>2. /\ SymKey(s, r).type = "SymKey" /\ SymKey(s, r).key = r /\ SymKey(s, r).to = s
        /\ SymKey(s, r) \in SymKeyMsg
    BY DEF SymKey, SymKeyMsg
  <2>3. rcvOut[r] \in {sndIn[s], NoQueue} /\ rcvPub[r] = s
    BY <2>1, <2>2 DEF WrappedKeysPlaced, WrappedKeysGenuine, Waiting
  <2>4. rcvIn[r] # NoQueue => sndOut[s] \in {rcvIn[r], NoQueue}
    BY <2>3 DEF PublicKeysPlaced
  <2>5. QED
    BY <2>1, <2>3, <2>4 DEF rcvVars
<1>5. QED
  BY <1>3, <1>4

-----------------------------------------------------------------------------
(* The conjuncts of DInv about frames: where they are, and in which order   *)

LEMMA SentStable ==
  ASSUME CommonAssumption, TypeOK, TypeOK', Progress,
         NEW r \in Receivers, NEW m, Sent(m, r)
  PROVE  Sent(m, r)'
<1>1. /\ rcvPub[r] \in Senders /\ rcvPub[r] # None
      /\ sndKey[rcvPub[r]] \in Receivers /\ sndKey[rcvPub[r]] = r
  BY DEF Sent, TypeOK, ReceiverTypeOK
<1>2. /\ rcvPub'[r] = rcvPub[r] /\ sndKey'[rcvPub[r]] = sndKey[rcvPub[r]]
      /\ sndIndex[rcvPub[r]] <= sndIndex'[rcvPub[r]]
  BY <1>1 DEF Progress
<1>3. sndIndex[rcvPub[r]] \in Nat /\ sndIndex'[rcvPub[r]] \in Nat
  BY <1>1 DEF TypeOK, SenderTypeOK
<1>4. PICK n \in 0 .. kNumMessagesToSend - 1 :
        n < sndIndex[rcvPub[r]] /\ m = Periodic(n, r)
  BY DEF Sent
<1>5. n < sndIndex'[rcvPub'[r]]
  BY <1>2, <1>3, <1>4 DEF CommonAssumption
<1>6. QED
  BY <1>1, <1>2, <1>4, <1>5 DEF Sent

(* A frame under a receiver's key is put by its partner, into the queue the *)
(* partner has open, with the next counter.                                *)
LEMMA NewFrame ==
  ASSUME CommonAssumption, IInv, NEW r \in Receivers,
         NEW q, NEW m, Posts(q, m), IsFrame(m, r)
  PROVE  LET s == rcvPub[r] IN
         /\ s \in Senders /\ sndKey[s] = r
         /\ q = sndOut[s] /\ q # NoQueue
         /\ sndIndex[s] \in 0 .. kNumMessagesToSend - 1
         /\ m = Periodic(sndIndex[s], r)
         /\ sndIndex'[s] = sndIndex[s] + 1
         /\ UNCHANGED <<rcvVars, sndOut, sndKey>>
<1> USE CommonAssumption DEF IInv, TypeOK
<1>1. PICK s \in Senders :
        /\ SendPeriodicMessage(s) /\ UNCHANGED rcvVars
        /\ q = sndOut[s] /\ m = Periodic(sndIndex[s], sndKey[s])
  BY DEF Posts, IsFrame, PublicKey, SymKey
<1>2. sndKey[s] = r /\ rcvPub[r] = s
  BY <1>1 DEF IsFrame, Periodic, KeyAgreement
<1>3. sndIndex[s] \in 0 .. kNumMessagesToSend - 1 /\ q # NoQueue
  <2>1. sndPc[s] = "periodic"
    BY <1>1 DEF SendPeriodicMessage, SenderGoes
  <2>2. q # NoQueue /\ sndIndex[s] < kNumMessagesToSend
    BY <1>1, <2>1 DEF DescriptorsValid, KeyedBeforeUse, SenderConnected
  <2>3. sndIndex[s] \in 0 .. kNumMessagesToSend /\ kNumMessagesToSend \in Nat
    BY DEF SenderTypeOK, CommonAssumption
  <2>4. QED
    BY <2>2, <2>3
<1>4. sndIndex'[s] = sndIndex[s] + 1 /\ sndOut' = sndOut /\ sndKey' = sndKey
  BY <1>1 DEF SendPeriodicMessage, SenderTypeOK
<1>5. QED
  BY <1>1, <1>2, <1>3, <1>4

LEMMA FramesGenuineKept ==
  ASSUME CommonAssumption, IInv, TypeOK', PublicKeysPlaced, FramesGenuine, [Next]_vars
  PROVE  FramesGenuine'
<1> USE CommonAssumption DEF IInv
<1>1. SUFFICES ASSUME NEW q \in 1 .. Len(queues'), NEW m \in Waiting(q)',
                      NEW r \in Receivers, IsFrame(m, r)
               PROVE  Sent(m, r)' /\ sndOut'[rcvPub'[r]] \in {q, NoQueue}
  BY DEF FramesGenuine, IsFrame
<1>2. Progress
  BY StepProgress
<1>3. CASE q \in 1 .. Len(queues) /\ m \in Waiting(q)
  <2>1. Sent(m, r) /\ sndOut[rcvPub[r]] \in {q, NoQueue}
    BY <1>1, <1>3 DEF FramesGenuine
  <2>2. rcvPub[r] # None /\ rcvPub[r] \in Senders
    BY <2>1 DEF Sent, TypeOK, ReceiverTypeOK
  <2>3. rcvPub'[r] = rcvPub[r] /\ sndPc[rcvPub[r]] \notin SenderUnannounced
    BY <1>2, <2>2 DEF Progress, PublicKeysPlaced
  <2>4. sndOut'[rcvPub'[r]] \in {q, NoQueue}
    BY <1>2, <2>1, <2>2, <2>3 DEF Progress
  <2>5. QED
    BY <1>2, <2>1, <2>4, SentStable
<1>4. CASE Posts(q, m)
  <2> DEFINE s == rcvPub[r]
  <2>1. /\ s \in Senders /\ sndKey[s] = r /\ q = sndOut[s]
        /\ sndIndex[s] \in 0 .. kNumMessagesToSend - 1
        /\ m = Periodic(sndIndex[s], r) /\ sndIndex'[s] = sndIndex[s] + 1
        /\ UNCHANGED <<rcvVars, sndOut, sndKey>>
    BY <1>1, <1>4, NewFrame
  <2>2. rcvPub'[r] = s /\ s # None
    BY <2>1 DEF rcvVars
  <2>3. sndIndex[s] < sndIndex'[s]
    BY <2>1
  <2>4. QED
    BY <2>1, <2>2, <2>3 DEF Sent
<1>5. QED
  BY <1>1, <1>3, <1>4, NewMessage

LEMMA FramesTogetherKept ==
  ASSUME CommonAssumption, IInv, FramesGenuine, FramesTogether, [Next]_vars
  PROVE  FramesTogether'
<1> USE CommonAssumption
<1>1. SUFFICES ASSUME NEW p \in 1 .. Len(queues'), NEW q \in 1 .. Len(queues'),
                      NEW m \in Waiting(p)', NEW n \in Waiting(q)',
                      NEW r \in Receivers, IsFrame(m, r), IsFrame(n, r)
               PROVE  p = q
  BY DEF FramesTogether, IsFrame
<1>2. (p \in 1 .. Len(queues) /\ m \in Waiting(p)) \/ Posts(p, m)
  BY <1>1, NewMessage
<1>3. (q \in 1 .. Len(queues) /\ n \in Waiting(q)) \/ Posts(q, n)
  BY <1>1, NewMessage
<1>4. Posts(p, m) => p = sndOut[rcvPub[r]] /\ p # NoQueue
  BY <1>1, NewFrame
<1>5. Posts(q, n) => q = sndOut[rcvPub[r]] /\ q # NoQueue
  BY <1>1, NewFrame
<1>6. QED
  BY <1>1, <1>2, <1>3, <1>4, <1>5 DEF FramesGenuine, FramesTogether

(* Two messages of one queue were there before in the same order, or the    *)
(* later one has just been put.                                            *)
LEMMA OrderKept ==
  ASSUME CommonAssumption, IInv, [Next]_vars, NEW q \in 1 .. Len(queues'),
         NEW i \in 1 .. Len(queues'[q]), NEW j \in 1 .. Len(queues'[q]), i < j
  PROVE  /\ q \in 1 .. Len(queues)
         /\ \/ \E k, l \in 1 .. Len(queues[q]) :
                 /\ k < l
                 /\ queues'[q][i] = queues[q][k] /\ queues'[q][j] = queues[q][l]
            \/ queues'[q][i] \in Waiting(q) /\ Posts(q, queues'[q][j])
<1>1. q \in Nat /\ i \in Nat /\ j \in Nat
      /\ \A p \in 1 .. Len(queues) : queues[p] \in Seq(Message)
  <2>1. Len(queues) \in Nat /\ \A p \in 1 .. Len(queues) : queues[p] \in Seq(Message)
    BY DEF IInv, TypeOK, MqTypeOK
  <2>2. QED
    BY <2>1
<1>2. CASE Drains
  <2>0. Len(queues'[q]) # 0
    OBVIOUS
  <2>1. q \in 1 .. Len(queues)
        /\ \E d \in {0, 1} : \A k \in 1 .. Len(queues'[q]) :
             k + d \in 1 .. Len(queues[q]) /\ queues'[q][k] = queues[q][k + d]
    BY <1>2, <2>0 DEF Drains
  <2>2. PICK d \in {0, 1} : \A k \in 1 .. Len(queues'[q]) :
             k + d \in 1 .. Len(queues[q]) /\ queues'[q][k] = queues[q][k + d]
    BY <2>1
  <2>3. i + d < j + d
    BY <1>1, <2>2
  <2>4. QED
    BY <2>1, <2>2, <2>3
<1>3. ASSUME NEW p \in Nat, NEW x \in Message, Posts(p, x), Adds(p, x)
      PROVE  /\ q \in 1 .. Len(queues)
             /\ \/ \E k, l \in 1 .. Len(queues[q]) :
                     /\ k < l
                     /\ queues'[q][i] = queues[q][k] /\ queues'[q][j] = queues[q][l]
                \/ queues'[q][i] \in Waiting(q) /\ Posts(q, queues'[q][j])
  <2>1. q \in 1 .. Len(queues) /\ Len(queues[q]) \in Nat
    BY <1>1, <1>3 DEF Adds
  <2>2. CASE q # p
    BY <1>3, <2>1, <2>2 DEF Adds
  <2>3. CASE q = p /\ j <= Len(queues[q])
    <3>1. i \in 1 .. Len(queues[q]) /\ j \in 1 .. Len(queues[q])
      BY <1>1, <2>1, <2>3
    <3>2. queues'[q][i] = queues[q][i] /\ queues'[q][j] = queues[q][j]
      BY <1>3, <2>3, <3>1 DEF Adds
    <3>3. QED
      BY <2>1, <3>1, <3>2
  <2>4. CASE q = p /\ ~(j <= Len(queues[q]))
    <3>1. i \in 1 .. Len(queues[q]) /\ j = Len(queues[q]) + 1
      BY <1>1, <1>3, <2>1, <2>4 DEF Adds
    <3>2. queues'[q][i] = queues[q][i] /\ queues'[q][j] = x
      BY <1>3, <2>4, <3>1 DEF Adds
    <3>3. QED
      BY <1>3, <2>1, <2>4, <3>1, <3>2 DEF Waiting
  <2>5. QED
    BY <2>2, <2>3, <2>4
<1>4. QED
  BY <1>2, <1>3, StepTransfers

(* What has been sent comes before what is sent next.                       *)
LEMMA SentBefore ==
  ASSUME CommonAssumption, kNumMessagesToSend <= kByteModulo, NEW r \in Receivers,
         NEW m, Sent(m, r), sndIndex[rcvPub[r]] \in 0 .. kNumMessagesToSend - 1
  PROVE  m.ctr < Periodic(sndIndex[rcvPub[r]], r).ctr
<1>1. PICK n \in 0 .. kNumMessagesToSend - 1 :
        n < sndIndex[rcvPub[r]] /\ m = Periodic(n, r)
  BY DEF Sent
<1> DEFINE k == sndIndex[rcvPub[r]]
<1>2. n \in Nat /\ k \in Nat /\ n < k /\ k < kByteModulo /\ n < kByteModulo
  BY <1>1 DEF kByteModulo, CommonAssumption
<1>3. m.ctr = n /\ Periodic(k, r).ctr = k
  BY <1>1, <1>2, CounterFits DEF Periodic
<1>4. QED
  BY <1>2, <1>3

(* A receiver only reports a match for a frame under its own key.           *)
LEMMA VerifiedFrame ==
  ASSUME CommonAssumption, KeyedBeforeUse, NEW r \in Receivers, NEW m \in Message,
         Verified([msg |-> m, printed |-> Printed(rcvKey[r], m)])
  PROVE  IsFrame(m, r)
<1>1. TagMatches(rcvKey[r], m)
  BY DEF Verified, Printed
<1>2. m.key # None
  BY <1>1 DEF TagMatches, Message, PublicKeyMsg, SymKeyMsg, PeriodicMsg, Keys,
     CommonAssumption
<1>3. QED
  BY <1>1, <1>2 DEF TagMatches, IsFrame, KeyedBeforeUse

LEMMA FramesAscendKept ==
  ASSUME CommonAssumption, IInv, FramesGenuine, FramesTogether, FramesAscend, Authentic,
         [Next]_vars
  PROVE  FramesAscend'
<1> USE CommonAssumption DEF IInv, TypeOK
<1>1. SUFFICES
        ASSUME kNumMessagesToSend <= kByteModulo, NEW r \in Receivers,
               NEW q \in 1 .. Len(queues')
        PROVE  /\ \A i, j \in 1 .. Len(queues'[q]) :
                    i < j /\ IsFrame(queues'[q][i], r) /\ IsFrame(queues'[q][j], r)
                      => queues'[q][i].ctr < queues'[q][j].ctr
               /\ \A i \in 1 .. Len(rcvLog'[r]) : \A m \in Waiting(q)' :
                    Verified(rcvLog'[r][i]) /\ IsFrame(m, r)
                      => rcvLog'[r][i].msg.ctr < m.ctr
  BY DEF FramesAscend, IsFrame, Verified
<1>2. ASSUME NEW i \in 1 .. Len(queues'[q]), NEW j \in 1 .. Len(queues'[q]), i < j,
             IsFrame(queues'[q][i], r), IsFrame(queues'[q][j], r)
      PROVE  queues'[q][i].ctr < queues'[q][j].ctr
  <2>1. CASE \E k, l \in 1 .. Len(queues[q]) :
               /\ k < l
               /\ queues'[q][i] = queues[q][k] /\ queues'[q][j] = queues[q][l]
    BY <1>1, <1>2, <2>1, OrderKept DEF FramesAscend
  <2>2. CASE queues'[q][i] \in Waiting(q) /\ Posts(q, queues'[q][j])
    <3>1. /\ sndIndex[rcvPub[r]] \in 0 .. kNumMessagesToSend - 1
          /\ queues'[q][j] = Periodic(sndIndex[rcvPub[r]], r)
      BY <1>2, <2>2, NewFrame
    <3>2. Sent(queues'[q][i], r)
      BY <1>2, <2>2, OrderKept DEF FramesGenuine
    <3>3. QED
      BY <1>1, <3>1, <3>2, SentBefore
  <2>3. QED
    BY <1>2, <2>1, <2>2, OrderKept
<1>3. ASSUME NEW i \in 1 .. Len(rcvLog'[r]), NEW m \in Waiting(q)',
             Verified(rcvLog'[r][i]), IsFrame(m, r)
      PROVE  rcvLog'[r][i].msg.ctr < m.ctr
  <2>1. rcvLog[r] \in Seq(LogEntry)
    BY DEF ReceiverTypeOK
  <2>2. CASE i \in 1 .. Len(rcvLog[r]) /\ rcvLog'[r][i] = rcvLog[r][i]
    <3>1. CASE q \in 1 .. Len(queues) /\ m \in Waiting(q)
      BY <1>1, <1>3, <2>2, <3>1 DEF FramesAscend
    <3>2. CASE Posts(q, m)
      <4>1. /\ sndIndex[rcvPub[r]] \in 0 .. kNumMessagesToSend - 1
            /\ m = Periodic(sndIndex[rcvPub[r]], r)
        BY <1>3, <3>2, NewFrame
      <4>2. Sent(rcvLog[r][i].msg, r)
        BY <1>3, <2>2 DEF Authentic
      <4>3. QED
        BY <1>1, <2>2, <4>1, <4>2, SentBefore
    <3>3. QED
      BY <1>3, <3>1, <3>2, NewMessage
  <2>3. CASE ~(i \in 1 .. Len(rcvLog[r]) /\ rcvLog'[r][i] = rcvLog[r][i])
    <3> DEFINE p == rcvIn[r]
               x == Head(queues[p])
    <3>1. /\ p \in 1 .. Len(queues) /\ MqReceive(p)
          /\ rcvLog'[r] = Append(rcvLog[r],
               [msg |-> x, printed |-> Printed(rcvKey[r], x)])
      BY <1>3, <2>3, NewLogEntry
    <3>2. rcvLog'[r][i] = [msg |-> x, printed |-> Printed(rcvKey[r], x)]
      BY <2>1, <2>3, <3>1
    <3>3. x \in Message /\ x \in Waiting(p)
      BY <3>1, OldestWaits
    <3>4. IsFrame(x, r)
      BY <1>3, <3>2, <3>3, VerifiedFrame
    <3>5. ~Posts(q, m)
      <4>1. Posts(q, m) => rcvLog' = rcvLog
        BY <1>3, NewFrame DEF rcvVars
      <4>2. QED
        BY <2>3, <4>1, <1>3
    <3>6. q = p
      BY <1>3, <3>1, <3>3, <3>4, <3>5, NewMessage DEF FramesTogether
    <3>7. PICK k \in 1 .. Len(queues'[p]) : m = queues'[p][k]
      BY <1>3, <3>6 DEF Waiting
    <3>8. /\ Len(queues'[p]) = Len(queues[p]) - 1 /\ Len(queues[p]) \in Nat
          /\ x = queues[p][1] /\ m = queues[p][k + 1]
      BY <3>1, <3>7, ReceiveEffect
    <3>9. 1 \in 1 .. Len(queues[p]) /\ k + 1 \in 1 .. Len(queues[p]) /\ 1 < k + 1
      BY <3>7, <3>8
    <3>10. x.ctr < m.ctr
      BY <1>1, <1>3, <3>1, <3>4, <3>8, <3>9 DEF FramesAscend
    <3>11. QED
      BY <3>2, <3>10
  <2>4. QED
    BY <2>2, <2>3
<1>4. QED
  BY <1>2, <1>3

LEMMA AuthenticKept ==
  ASSUME CommonAssumption, IInv, TypeOK', FramesGenuine, Authentic, [Next]_vars
  PROVE  Authentic'
<1> USE CommonAssumption DEF IInv
<1>1. SUFFICES ASSUME NEW r \in Receivers, NEW i \in 1 .. Len(rcvLog'[r]),
                      Verified(rcvLog'[r][i]), NEW m, m = rcvLog'[r][i].msg
               PROVE  Sent(m, r)'
  BY DEF Authentic, Verified, Sent
<1>2. Progress /\ rcvLog[r] \in Seq(LogEntry)
  BY StepProgress DEF TypeOK, ReceiverTypeOK
<1>3. Sent(m, r)
  <2>1. CASE i \in 1 .. Len(rcvLog[r]) /\ rcvLog'[r][i] = rcvLog[r][i]
    BY <1>1, <2>1 DEF Authentic
  <2>2. CASE ~(i \in 1 .. Len(rcvLog[r]) /\ rcvLog'[r][i] = rcvLog[r][i])
    <3> DEFINE p == rcvIn[r]
               x == Head(queues[p])
    <3>1. /\ p \in 1 .. Len(queues) /\ MqReceive(p)
          /\ rcvLog'[r] = Append(rcvLog[r],
               [msg |-> x, printed |-> Printed(rcvKey[r], x)])
      BY <1>1, <2>2, NewLogEntry
    <3>2. rcvLog'[r][i] = [msg |-> x, printed |-> Printed(rcvKey[r], x)]
      BY <1>2, <2>2, <3>1
    <3>3. x \in Message /\ x \in Waiting(p)
      BY <3>1, OldestWaits DEF TypeOK
    <3>4. IsFrame(x, r)
      BY <1>1, <3>2, <3>3, VerifiedFrame
    <3>5. QED
      BY <1>1, <3>1, <3>2, <3>3, <3>4 DEF FramesGenuine
  <2>3. QED
    BY <2>1, <2>2
<1>4. QED
  BY <1>2, <1>3, SentStable

LEMMA VerifiedOrderKept ==
  ASSUME CommonAssumption, IInv, FramesAscend, VerifiedInOrder, [Next]_vars
  PROVE  VerifiedInOrder'
<1> USE CommonAssumption DEF IInv, TypeOK
<1>1. SUFFICES
        ASSUME kNumMessagesToSend <= kByteModulo, NEW r \in Receivers,
               NEW i \in 1 .. Len(rcvLog'[r]), NEW j \in 1 .. Len(rcvLog'[r]), i < j,
               Verified(rcvLog'[r][i]), Verified(rcvLog'[r][j])
        PROVE  rcvLog'[r][i].msg.ctr < rcvLog'[r][j].msg.ctr
  BY DEF VerifiedInOrder, Verified
<1>2. rcvLog[r] \in Seq(LogEntry)
  BY DEF ReceiverTypeOK
<1>3. CASE rcvLog'[r] = rcvLog[r]
  BY <1>1, <1>3 DEF VerifiedInOrder
<1>4. CASE rcvLog'[r] # rcvLog[r]
  <2> DEFINE p == rcvIn[r]
             x == Head(queues[p])
  <2>1. /\ p \in 1 .. Len(queues) /\ MqReceive(p)
        /\ rcvLog'[r] = Append(rcvLog[r],
             [msg |-> x, printed |-> Printed(rcvKey[r], x)])
    BY <1>4, NewLogEntry
  <2>2. i \in 1 .. Len(rcvLog[r]) /\ rcvLog'[r][i] = rcvLog[r][i]
    BY <1>1, <1>2, <2>1
  <2>3. CASE j \in 1 .. Len(rcvLog[r])
    <3>1. rcvLog'[r][j] = rcvLog[r][j]
      BY <1>2, <2>1, <2>3
    <3>2. QED
      BY <1>1, <2>2, <2>3, <3>1 DEF VerifiedInOrder
  <2>4. CASE j \notin 1 .. Len(rcvLog[r])
    <3>1. rcvLog'[r][j] = [msg |-> x, printed |-> Printed(rcvKey[r], x)]
      BY <1>2, <2>1, <2>4
    <3>2. x \in Message /\ x \in Waiting(p)
      BY <2>1, OldestWaits
    <3>3. IsFrame(x, r)
      BY <1>1, <3>1, <3>2, VerifiedFrame
    <3>4. rcvLog[r][i].msg.ctr < x.ctr
      BY <1>1, <2>1, <2>2, <3>2, <3>3 DEF FramesAscend
    <3>5. QED
      BY <2>2, <3>1, <3>4
  <2>5. QED
    BY <2>3, <2>4
<1>5. QED
  BY <1>3, <1>4

-----------------------------------------------------------------------------
(* The invariant and what follows from it *)

LEMMA DeliveryInitially == ASSUME CommonAssumption, Init PROVE DInv
<1> USE CommonAssumption DEF Init, MqInit, SenderInit, ReceiverInit
<1>1. StatusHonest /\ PublicKeysPlaced /\ WrappedKeysPlaced
  BY DEF StatusHonest, PublicKeysPlaced, WrappedKeysPlaced, kOK, kNOT_OK
<1>2. PartnersShareQueues
  BY DEF PartnersShareQueues
<1>3. FramesGenuine /\ FramesTogether /\ FramesAscend
  BY DEF FramesGenuine, FramesTogether, FramesAscend
<1>4. Authentic /\ VerifiedInOrder
  BY DEF Authentic, VerifiedInOrder
<1>5. QED
  BY <1>1, <1>2, <1>3, <1>4 DEF DInv

(* The delivery invariant: each message lies in the only queue object its   *)
(* sender sends to, and the frames of one key pass in ascending order.     *)
THEOREM DeliveryInvariant == Spec => []DInv
<1>1. Init => DInv
  BY CommonAssumption, DeliveryInitially
<1>2. IInv /\ IInv' /\ DInv /\ [Next]_vars => DInv'
  <2> SUFFICES ASSUME IInv, IInv', DInv, [Next]_vars PROVE DInv'
    OBVIOUS
  <2> USE CommonAssumption DEF DInv
  <2>1. TypeOK'
    BY DEF IInv
  <2>2. StatusHonest' /\ PublicKeysPlaced' /\ WrappedKeysPlaced'
    BY StatusKept, PublicKeysKept, WrappedKeysKept
  <2>3. PartnersShareQueues'
    BY PartnersKept
  <2>4. FramesGenuine' /\ FramesTogether' /\ FramesAscend'
    BY <2>1, FramesGenuineKept, FramesTogetherKept, FramesAscendKept
  <2>5. Authentic' /\ VerifiedInOrder'
    BY <2>1, AuthenticKept, VerifiedOrderKept
  <2>6. QED
    BY <2>2, <2>3, <2>4, <2>5
<1>3. QED
  BY <1>1, <1>2, Invariant, PTL DEF Spec

(* Two processes that agreed on a key use the same two queue objects, in    *)
(* spite of names unlinked and recreated by others.                        *)
THEOREM QueuesShared == Spec => []PartnersShareQueues
BY DeliveryInvariant, PTL DEF DInv

(* A frame that receive_periodic_messages reports as matching was sent by   *)
(* the process whose public key this receiver loaded.                      *)
THEOREM FramesAuthentic == Spec => []Authentic
BY DeliveryInvariant, PTL DEF DInv

(* Frames are verified in the order of their counters and none twice, for   *)
(* up to 256 frames, the values of the counter byte.                       *)
THEOREM FramesInOrder == Spec => []VerifiedInOrder
BY DeliveryInvariant, PTL DEF DInv

(* A sender whose exit status is kOK has sent every frame.                  *)
THEOREM SuccessHonest == Spec => []SuccessMeansAllSent
<1>1. StatusHonest => SuccessMeansAllSent
  BY DEF StatusHonest, SuccessMeansAllSent, SenderFinished
<1>2. QED
  BY <1>1, DeliveryInvariant, PTL DEF DInv

-----------------------------------------------------------------------------
(* What a sender leaves behind *)

LEMMA KeyOriginsKept ==
  ASSUME CommonAssumption, IInv, KeyOrigins, [Next]_vars PROVE KeyOrigins'
<1> USE CommonAssumption DEF IInv, TypeOK
<1>1. CASE sndVars' = sndVars
  BY <1>1 DEF KeyOrigins, sndVars
<1>2. ASSUME NEW s \in Senders, SenderActs(s), UNCHANGED rcvVars PROVE KeyOrigins'
  <2>1. CASE ReceiveSymmetricKey(s)
    <3>1. sndKey'[s] = sndKey[s] \/ sndKey'[s] \in Receivers
      BY <2>1, KeyReceived DEF SenderTypeOK
    <3>2. \A t \in Senders : t # s => sndKey'[t] = sndKey[t]
      BY <2>1 DEF ReceiveSymmetricKey, SenderTypeOK
    <3>3. QED
      BY <3>1, <3>2 DEF KeyOrigins
  <2>2. CASE Generate(s)
    BY <2>2 DEF Generate, KeyOrigins, SenderTypeOK
  <2>3. CASE ~ReceiveSymmetricKey(s) /\ ~Generate(s)
    <3>1. sndKey' = sndKey
      BY <1>2, <2>3
         DEF SenderActs, SenderStep, SenderEnter, SenderFault, SenderLaunch,
             SenderKilled, SetupSenderCommunication, SetupReceiverCommunication,
             SenderSetupFails, SendPublicKey, SendPublicKeyFails, DismissSendFailure,
             ReceiveSymmetricKeyFails, DismissReceiveFailure, SendPeriodicMessage,
             SendPeriodicMessageFails, SenderClose, DismissSender,
             UnlinkReceiverQueue, UnlinkSenderQueue
    <3>2. QED
      BY <3>1 DEF KeyOrigins
  <2>4. QED
    BY <2>1, <2>2, <2>3
<1>3. QED
  BY <1>1, <1>2, OneProcessActs DEF vars

(* A queue object that a name refers to after a step, and that existed      *)
(* before it, is one the name referred to already.                         *)
LEMMA NamesOnlyMoveOn ==
  ASSUME CommonAssumption, IInv, [Next]_vars, NEW n \in QueueNames,
         names'[n] \in 1 .. Len(queues)
  PROVE  names'[n] = names[n]
<1> USE CommonAssumption DEF IInv, TypeOK, MqTypeOK
<1>1. Len(queues) \in Nat /\ names \in [QueueNames -> Nat]
  OBVIOUS
<1>2. ASSUME NEW k \in QueueNames, MqOpen(k) PROVE names'[n] = names[n]
  BY <1>1, <1>2 DEF MqOpen, Opened
<1>3. ASSUME NEW k \in QueueNames, MqUnlink(k) PROVE names'[n] = names[n]
  BY <1>1, <1>3 DEF MqUnlink, NoQueue
<1>4. kSenderToReceiverQueue \in QueueNames /\ kReceiverToSenderQueue \in QueueNames
  BY DEF QueueNames
<1>5. CASE \E s \in Senders : SenderActs(s)
  BY <1>2, <1>3, <1>4, <1>5
     DEF SenderActs, SenderStep, SenderEnter, SenderFault, SenderLaunch, SenderKilled,
         SetupSenderCommunication, SetupReceiverCommunication, SenderSetupFails,
         Generate, SendPublicKey, SendPublicKeyFails, DismissSendFailure,
         ReceiveSymmetricKey, ReceiveSymmetricKeyFails, DismissReceiveFailure,
         SendPeriodicMessage, SendPeriodicMessageFails, SenderClose, DismissSender,
         UnlinkReceiverQueue, UnlinkSenderQueue, mqVars, MqFails, MqSend, MqReceive
<1>6. CASE \E r \in Receivers : ReceiverActs(r)
  BY <1>2, <1>4, <1>6
     DEF ReceiverActs, ReceiverStep, ReceiverEnter, ReceiverFault, ReceiverLaunch,
         ReceiverKilled, OpenReceiverToSender, OpenSenderToReceiver,
         ReceiverSetupFails, GetPublicKey, GetPublicKeyFails, DeriveKey,
         SendSymmetricKey, SendSymmetricKeyFails, ReceivePeriodicMessage,
         ReceivePeriodicMessageFails, DismissReceiver, mqVars, MqFails, MqSend, MqReceive
<1>7. CASE UNCHANGED vars
  BY <1>7 DEF vars, mqVars
<1>8. QED
  BY <1>5, <1>6, <1>7, OneProcessActs

(* A process exits from its failed setup, or unlinks the forward name.      *)
LEMMA WaysToExit ==
  ASSUME CommonAssumption, IInv, [Next]_vars, NEW s \in Senders,
         sndPc'[s] = "exited", sndPc[s] # "exited"
  PROVE  /\ sndKey'[s] = sndKey[s]
         /\ \/ sndPc[s] \in {"openOut", "openIn"}
            \/ names'[kSenderToReceiverQueue] = NoQueue
<1> USE CommonAssumption DEF IInv, TypeOK
<1>1. PICK t \in Senders : SenderActs(t)
  BY OneProcessActs DEF vars, sndVars
<1>2. kSenderToReceiverQueue \in QueueNames
  BY DEF QueueNames
<1>3. CASE UnlinkSenderQueue(t)
  BY <1>2, <1>3 DEF UnlinkSenderQueue, MqUnlink, MqTypeOK, SenderGoes, SenderTypeOK
<1>4. CASE SenderSetupFails(t)
  BY <1>4 DEF SenderSetupFails, SenderGoes, SenderTypeOK
<1>5. CASE ~UnlinkSenderQueue(t) /\ ~SenderSetupFails(t)
  <2>1. /\ AfterFrame(sndIndex[t]) # "exited"
        /\ sndPc'[s] # "exited" \/ sndPc'[s] = sndPc[s]
    BY <1>1, <1>5
       DEF SenderActs, SenderStep, SenderEnter, SenderFault, SenderLaunch, SenderKilled,
           SetupSenderCommunication, SetupReceiverCommunication, Generate,
           SendPublicKey, SendPublicKeyFails, DismissSendFailure, ReceiveSymmetricKey,
           ReceiveSymmetricKeyFails, DismissReceiveFailure, SendPeriodicMessage,
           SendPeriodicMessageFails, SenderClose, DismissSender, UnlinkReceiverQueue,
           SenderGoes, SenderTypeOK, AfterFrame
  <2>2. QED
    BY <2>1
<1>6. QED
  BY <1>3, <1>4, <1>5

LEMMA ExitedKeepsKey ==
  ASSUME CommonAssumption, IInv, [Next]_vars, NEW s \in Senders, sndPc[s] = "exited"
  PROVE  sndKey'[s] = sndKey[s]
<1> USE CommonAssumption DEF IInv, TypeOK
<1>1. CASE sndKey' = sndKey
  BY <1>1
<1>2. CASE sndKey' # sndKey
  <2>1. PICK t \in Senders : Generate(t) \/ ReceiveSymmetricKey(t)
    BY <1>2, OneProcessActs
       DEF SenderActs, SenderStep, SenderEnter, SenderFault, SenderLaunch,
           SenderKilled, SetupSenderCommunication, SetupReceiverCommunication,
           SenderSetupFails, SendPublicKey, SendPublicKeyFails, DismissSendFailure,
           ReceiveSymmetricKeyFails, DismissReceiveFailure, SendPeriodicMessage,
           SendPeriodicMessageFails, SenderClose, DismissSender,
           UnlinkReceiverQueue, UnlinkSenderQueue, vars, sndVars
  <2>2. s # t
    BY <2>1 DEF Generate, ReceiveSymmetricKey, SenderGoes
  <2>3. QED
    BY <2>1, <2>2 DEF Generate, ReceiveSymmetricKey, SenderTypeOK
<1>3. QED
  BY <1>1, <1>2

(* A message that a step puts into a queue is not one of a process that has *)
(* exited: the sender of this message runs on, and shares no key.          *)
LEMMA OthersPost ==
  ASSUME CommonAssumption, IInv, IInv', KeyOrigins', [Next]_vars,
         NEW q, NEW m, Posts(q, m), NEW s \in Senders, sndPc'[s] = "exited"
  PROVE  ~SentBy(s, m)'
<1> USE CommonAssumption DEF IInv, TypeOK
<1>1. CASE \E r \in Receivers : m = SymKey(rcvPub[r], rcvKey[r])
  BY <1>1 DEF SymKey, SentBy, PublicKey
<1>2. ASSUME NEW t \in Senders, SendPublicKey(t), m = PublicKey(t) PROVE ~SentBy(s, m)'
  <2>1. sndPc'[t] = "receiveKey"
    BY <1>2 DEF SendPublicKey, SenderGoes, SenderTypeOK
  <2>2. QED
    BY <1>2, <2>1 DEF PublicKey, SentBy
<1>3. ASSUME NEW t \in Senders, SendPeriodicMessage(t), m = Periodic(sndIndex[t], sndKey[t])
      PROVE  ~SentBy(s, m)'
  <2>1. sndPc'[t] \in {"periodic", "close"} /\ sndKey'[t] = sndKey[t]
    BY <1>3 DEF SendPeriodicMessage, SenderGoes, SenderTypeOK, AfterFrame
  <2>2. sndKey[t] \in Keys
    BY <1>3 DEF SendPeriodicMessage, SenderGoes, KeyedBeforeUse, SenderKeyed,
       SenderConnected
  <2>3. s # t
    BY <2>1
  <2>4. sndKey'[s] # sndKey'[t]
    BY <2>1, <2>2, <2>3 DEF KeyOrigins, KeyAgreement, Keys
  <2>5. QED
    BY <1>3, <2>1, <2>4 DEF Periodic, PublicKey, SentBy
<1>4. QED
  BY <1>1, <1>2, <1>3 DEF Posts

(* What a process that has exited sent before is behind the same name only  *)
(* if it was so already, and the process has not just exited.              *)
LEMMA NothingLeftBehindKept ==
  ASSUME CommonAssumption, IInv, IInv', DInv, KeyOrigins', NothingLeftBehind,
         [Next]_vars
  PROVE  NothingLeftBehind'
<1> USE CommonAssumption
<1> DEFINE n == kSenderToReceiverQueue
<1>1. n \in QueueNames
  BY DEF QueueNames
<1>2. names'[n] # NoQueue => names'[n] \in 1 .. Len(queues')
  BY <1>1 DEF IInv, TypeOK, MqTypeOK, DescriptorsValid, NoQueue
<1>3. SUFFICES ASSUME NEW q \in 1 .. Len(queues'), q = names'[n], q # NoQueue,
                      NEW m \in Waiting(q)', NEW s \in Senders,
                      SentBy(s, m)', sndPc'[s] = "exited"
               PROVE  FALSE
  BY <1>2 DEF NothingLeftBehind, Waiting, SentBy
<1>4. ~Posts(q, m)
  BY <1>3, OthersPost
<1>5. q \in 1 .. Len(queues) /\ m \in Waiting(q)
  BY <1>3, <1>4, NewMessage
<1>6. names[n] = q
  BY <1>1, <1>3, <1>5, NamesOnlyMoveOn
<1>7. PICK j \in 1 .. Len(queues[q]) : m = queues[q][j]
  BY <1>5 DEF Waiting
<1>8. CASE sndPc[s] = "exited"
  <2>1. sndKey'[s] = sndKey[s]
    BY <1>8, ExitedKeepsKey
  <2>2. SentBy(s, m)
    BY <1>3, <2>1 DEF SentBy
  <2>3. QED
    BY <1>3, <1>5, <1>6, <1>8, <2>2 DEF NothingLeftBehind
<1>9. CASE sndPc[s] # "exited"
  <2>1. sndKey'[s] = sndKey[s] /\ sndPc[s] \in {"openOut", "openIn"}
    BY <1>3, <1>6, <1>9, WaysToExit
  <2>2. sndKey[s] = None /\ sndPc[s] \in SenderUnannounced
    BY <2>1 DEF IInv, KeyedBeforeUse, SenderUnannounced
  <2>3. m \in Message
    BY <1>5, <1>7 DEF IInv, TypeOK, MqTypeOK
  <2>4. CASE m.type = "Periodic" /\ m.key = sndKey[s]
    BY <2>2, <2>3, <2>4 DEF Message, PublicKeyMsg, SymKeyMsg, PeriodicMsg, Keys,
       CommonAssumption
  <2>5. CASE m = PublicKey(s)
    BY <1>5, <2>2, <2>5 DEF DInv, PublicKeysPlaced, PublicKey
  <2>6. QED
    BY <1>3, <2>1, <2>4, <2>5 DEF SentBy
<1>10. QED
  BY <1>8, <1>9

(* Whatever is killed or fails, and however sessions overlap, no public key *)
(* and no frame of a sender that has exited waits for a receiver that is   *)
(* launched later: load_key only meets what other processes have sent.     *)
THEOREM ExitsLeaveNothing == Spec => []NothingLeftBehind
<1>1. Init => KeyOrigins /\ NothingLeftBehind
  BY DEF Init, SenderInit, KeyOrigins, NothingLeftBehind
<1>2. IInv /\ KeyOrigins /\ [Next]_vars => KeyOrigins'
  BY CommonAssumption, KeyOriginsKept
<1>3. IInv /\ IInv' /\ DInv /\ KeyOrigins' /\ NothingLeftBehind /\ [Next]_vars
        => NothingLeftBehind'
  BY CommonAssumption, NothingLeftBehindKept
<1>4. QED
  BY <1>1, <1>2, <1>3, Invariant, DeliveryInvariant, PTL DEF Spec
=============================================================================
