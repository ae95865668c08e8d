---------------------------- MODULE SessionProofs ----------------------------
(***************************************************************************)
(* Theorems about sessions of SecureComm that are used one at a time, for  *)
(* any number of them, until a process is killed or a call fails: the      *)
(* invariant SInv and its consequences.                                    *)
(*                                                                         *)
(* A step belongs to one session.  OthersOver says that of two sessions    *)
(* that have begun one is over; the lemmas that follow show what a step    *)
(* does to the names (NamesKept), to its own session (OwnSessionKept) and  *)
(* that it does nothing to any other (OtherSessionsKept).                  *)
(***************************************************************************)
EXTENDS SecureCommProofs

-----------------------------------------------------------------------------
(* Sessions *)

LEMMA SessionsDistinct ==
  ASSUME OneAtATime, NEW s \in Senders, NEW t \in Senders,
         NEW r \in Receivers, NEW q \in Receivers, Session(s, r), Session(t, q)
  PROVE  s = t <=> r = q
BY DEF OneAtATime, Session

LEMMA OthersOver ==
  ASSUME OneAtATime, TakeTurns, NEW s \in Senders, NEW t \in Senders,
         NEW r \in Receivers, NEW q \in Receivers, Session(s, r), Session(t, q),
         s # t, Begun(s, r), Begun(t, q), sndPc[s] # "exited"
  PROVE  sndPc[t] = "exited"
<1>1. s \in After[t] \/ t \in After[s]
  BY DEF OneAtATime
<1>2. \A x \in After[t] : sndPc[x] = "exited"
  BY DEF TakeTurns, Begun, Session
<1>3. \A x \in After[s] : sndPc[x] = "exited"
  BY DEF TakeTurns, Begun, Session
<1>4. QED
  BY <1>1, <1>2, <1>3

(* The same of the state after a step. *)
LEMMA OthersOverNext ==
  ASSUME OneAtATime, TakeTurns', NEW s \in Senders, NEW t \in Senders,
         NEW r \in Receivers, NEW q \in Receivers, Session(s, r), Session(t, q),
         s # t, Begun(s, r)', Begun(t, q)', sndPc'[s] # "exited"
  PROVE  sndPc'[t] = "exited"
<1>1. s \in After[t] \/ t \in After[s]
  BY DEF OneAtATime
<1>2. \A x \in After[t] : sndPc'[x] = "exited"
  BY DEF TakeTurns, Begun, Session
<1>3. \A x \in After[s] : sndPc'[x] = "exited"
  BY DEF TakeTurns, Begun, Session
<1>4. QED
  BY <1>1, <1>2, <1>3

-----------------------------------------------------------------------------
(* What a process may do while nothing is killed or fails *)

SenderMoves(s) ==
  \/ MayLaunch(s) /\ SenderLaunch(s)
  \/ SenderStep(s) \/ DismissSender(s)

ReceiverMoves(r) ==
  \/ MayLaunch(r) /\ ReceiverLaunch(r)
  \/ ReceiverStep(r)

(* What belongs to other sessions than (s, r) is as before. *)
OthersStill(s, r) ==
  /\ \A t \in Senders : t # s =>
       /\ sndPc'[t] = sndPc[t] /\ sndOut'[t] = sndOut[t] /\ sndIn'[t] = sndIn[t]
       /\ sndKey'[t] = sndKey[t] /\ sndIndex'[t] = sndIndex[t]
  /\ \A q \in Receivers : q # r =>
       /\ rcvPc'[q] = rcvPc[q] /\ rcvIn'[q] = rcvIn[q] /\ rcvOut'[q] = rcvOut[q]
       /\ rcvPub'[q] = rcvPub[q] /\ rcvLog'[q] = rcvLog[q]

Moves(s, r) ==
  \/ SenderMoves(s) /\ UNCHANGED rcvVars
  \/ ReceiverMoves(r) /\ UNCHANGED sndVars

LEMMA UndisturbedStep ==
  ASSUME TypeOK, TakeTurns, Undisturbed', Next
  PROVE  /\ Undisturbed
         /\ \/ \E s \in Senders : SenderMoves(s) /\ UNCHANGED rcvVars
            \/ \E r \in Receivers : ReceiverMoves(r) /\ UNCHANGED sndVars
<1>1. kills \in Nat /\ faults \in Nat /\ kills' = 0 /\ faults' = 0
  BY DEF TypeOK, MqTypeOK, Undisturbed
<1>2. ~Kill
  BY <1>1 DEF Kill
<1>3. ~MqFails
  BY <1>1 DEF MqFails
<1>4. ASSUME NEW s \in Senders PROVE ~SenderFault(s)
  BY <1>3 DEF SenderFault, SenderSetupFails, SendPublicKeyFails,
     ReceiveSymmetricKeyFails, SendPeriodicMessageFails
<1>5. ASSUME NEW r \in Receivers PROVE ~ReceiverFault(r)
  BY <1>3 DEF ReceiverFault, ReceiverSetupFails, GetPublicKeyFails,
     SendSymmetricKeyFails, ReceivePeriodicMessageFails
<1>6. ASSUME NEW s \in Senders, SenderEnter(s) PROVE DismissSender(s)
  BY <1>6 DEF SenderEnter, DismissSendFailure, DismissReceiveFailure, SenderGoes,
     TakeTurns, SenderUnannounced, SenderDelivers, SenderFinished
<1>7. ASSUME NEW r \in Receivers PROVE ~ReceiverEnter(r)
  BY DEF ReceiverEnter, DismissReceiver, ReceiverGoes, TakeTurns, ReceiverUnpaired,
     ReceiverPaired
<1>8. \/ \E s \in Senders : SenderMoves(s) /\ UNCHANGED <<rcvVars, kills>>
      \/ \E r \in Receivers : ReceiverMoves(r) /\ UNCHANGED <<sndVars, kills>>
  BY <1>2, <1>4, <1>5, <1>6, <1>7
     DEF Next, Launch, SenderRuns, ReceiverRuns, SenderMoves, ReceiverMoves
<1>9. faults' = faults
  BY <1>8 DEF SenderMoves, ReceiverMoves, SenderStep, ReceiverStep, SenderLaunch,
     ReceiverLaunch, mqVars, SetupSenderCommunication, SetupReceiverCommunication,
     Generate, SendPublicKey, ReceiveSymmetricKey, SendPeriodicMessage, SenderClose,
     DismissSender, UnlinkReceiverQueue, UnlinkSenderQueue, OpenReceiverToSender,
     OpenSenderToReceiver, GetPublicKey, DeriveKey, SendSymmetricKey,
     ReceivePeriodicMessage, MqOpen, MqSend, MqReceive, MqUnlink
<1>10. QED
  BY <1>1, <1>8, <1>9 DEF Undisturbed

LEMMA SenderAlone ==
  ASSUME TypeOK, NEW s \in Senders, NEW r \in Receivers, SenderMoves(s), UNCHANGED rcvVars
  PROVE  OthersStill(s, r)
BY DEF TypeOK, SenderTypeOK, OthersStill, rcvVars, SenderMoves, SenderStep,
   SenderLaunch, SetupSenderCommunication, SetupReceiverCommunication, Generate,
   SendPublicKey, ReceiveSymmetricKey, SendPeriodicMessage, SenderClose,
   DismissSender, UnlinkReceiverQueue, UnlinkSenderQueue, SenderGoes, SenderCloses

LEMMA ReceiverAlone ==
  ASSUME TypeOK, NEW s \in Senders, NEW r \in Receivers, ReceiverMoves(r), UNCHANGED sndVars
  PROVE  OthersStill(s, r)
BY DEF TypeOK, ReceiverTypeOK, OthersStill, sndVars, ReceiverMoves, ReceiverStep,
   ReceiverLaunch, OpenReceiverToSender, OpenSenderToReceiver, GetPublicKey,
   DeriveKey, SendSymmetricKey, ReceivePeriodicMessage, ReceiverGoes, ReceiverCloses

LEMMA SessionMoves ==
  ASSUME OneAtATime, TypeOK, TakeTurns, Undisturbed', Next
  PROVE  \E s \in Senders, r \in Receivers :
           Session(s, r) /\ Moves(s, r) /\ OthersStill(s, r)
BY UndisturbedStep, SenderAlone, ReceiverAlone DEF OneAtATime, Moves

-----------------------------------------------------------------------------
(* What a process finds when it uses a queue *)

LEMMA NamesApart ==
  ASSUME IInv, names[kSenderToReceiverQueue] # NoQueue
  PROVE  names[kSenderToReceiverQueue] # names[kReceiverToSenderQueue]
<1>1. names[kSenderToReceiverQueue] \in 1 .. Len(queues)
  BY DEF IInv, DescriptorsValid, TypeOK, MqTypeOK, QueueNames, NoQueue
<1>2. QED
  BY <1>1 DEF IInv, ChannelsSeparate, Forward, Reply

(* A process that transfers holds the objects the names refer to. *)
LEMMA SenderHoldsNames ==
  ASSUME IInv, NamesCurrent, NEW s \in Senders,
         sndPc[s] \in {"generate", "sendPublicKey", "receiveKey", "periodic"}
  PROVE  /\ sndOut[s] = names[kSenderToReceiverQueue]
         /\ sndIn[s] = names[kReceiverToSenderQueue]
         /\ sndOut[s] \in 1 .. Len(queues) /\ sndIn[s] \in 1 .. Len(queues)
BY DEF NamesCurrent, IInv, TypeOK, MqTypeOK, DescriptorsValid, SenderConnected, NoQueue

LEMMA ReceiverHoldsNames ==
  ASSUME IInv, NamesCurrent, NEW s \in Senders, NEW r \in Receivers, Session(s, r),
         rcvPc[r] \in {"getPublicKey", "deriveKey", "sendKey", "periodic"}
  PROVE  /\ rcvIn[r] \in 1 .. Len(queues) /\ rcvOut[r] \in 1 .. Len(queues)
         /\ sndPc[s] # "exited" => rcvIn[r] = names[kSenderToReceiverQueue]
         /\ sndPc[s] \notin {"unlinkOut", "exited"} =>
              rcvOut[r] = names[kReceiverToSenderQueue]
BY DEF NamesCurrent, IInv, TypeOK, MqTypeOK, DescriptorsValid, ReceiverConnected, NoQueue

LEMMA PublicKeyWaits ==
  ASSUME IInv, TakeTurns, NamesCurrent, NEW s \in Senders, NEW r \in Receivers,
         Session(s, r), SessionState(s, r), GetPublicKey(r)
  PROVE  /\ sndPc[s] = "receiveKey"
         /\ rcvIn[r] = names[kSenderToReceiverQueue]
         /\ queues[rcvIn[r]] = <<PublicKey(s)>>
<1>1. rcvPc[r] = "getPublicKey" /\ queues[rcvIn[r]] # <<>>
  BY DEF GetPublicKey, MqReceive
<1>2. sndPc[s] \in SenderUnannounced \cup {"receiveKey"}
  BY <1>1 DEF TakeTurns, SessionState
<1>3. rcvIn[r] \in 1 .. Len(queues) /\ rcvIn[r] = names[kSenderToReceiverQueue]
  BY <1>1, <1>2, ReceiverHoldsNames DEF SenderUnannounced
<1>4. Pending(kSenderToReceiverQueue) = queues[rcvIn[r]]
  BY <1>3 DEF Pending, NoQueue
<1>5. sndPc[s] = "receiveKey"
  BY <1>1, <1>2, <1>4 DEF SessionState, Begun, QueueNames
<1>6. QED
  BY <1>1, <1>3, <1>4, <1>5 DEF SessionState, ReceiverUnpaired

LEMMA SymmetricKeyWaits ==
  ASSUME IInv, TakeTurns, NamesCurrent, NEW s \in Senders, NEW r \in Receivers,
         Session(s, r), SessionState(s, r), ReceiveSymmetricKey(s)
  PROVE  /\ rcvPc[r] = "periodic"
         /\ rcvIn[r] = names[kSenderToReceiverQueue]
         /\ rcvIn[r] \in 1 .. Len(queues)
         /\ queues[rcvIn[r]] = <<>>
         /\ queues[sndIn[s]] = <<SymKey(s, r)>>
<1>1. sndPc[s] = "receiveKey" /\ queues[sndIn[s]] # <<>>
  BY DEF ReceiveSymmetricKey, MqReceive
<1>2. Pending(kReceiverToSenderQueue) = queues[sndIn[s]]
  BY <1>1, SenderHoldsNames DEF Pending, NoQueue
<1>3. rcvPc[r] = "periodic"
  BY <1>1, <1>2 DEF SessionState
<1>4. rcvIn[r] \in 1 .. Len(queues) /\ rcvIn[r] = names[kSenderToReceiverQueue]
  BY <1>1, <1>3, ReceiverHoldsNames
<1>5. Pending(kSenderToReceiverQueue) = queues[rcvIn[r]]
  BY <1>4 DEF Pending, NoQueue
<1>6. QED
  BY <1>1, <1>2, <1>3, <1>4, <1>5 DEF SessionState, ReceiverUnpaired

-----------------------------------------------------------------------------
(* Nobody leaves the course of a session or starts out of turn *)

(* A sender that has ended undisturbed has ended by itself.                 *)
LEMMA TurnComes ==
  ASSUME TakeTurns, NEW p \in Senders \cup Receivers, MayLaunch(p)
  PROVE  \A t \in After[p] : sndPc[t] = "exited"
<1>1. After[p] \subseteq Senders
  BY SecureCommAssumption
<1>2. QED
  BY <1>1 DEF MayLaunch, TakeTurns, SenderGone, SenderUnannounced, SenderDelivers,
     SenderFinished

LEMMA SenderTurns ==
  ASSUME IInv, TakeTurns, NamesCurrent, NEW s \in Senders, NEW r \in Receivers,
         Session(s, r), SessionState(s, r), SenderMoves(s)
  PROVE  /\ sndPc'[s] \in SenderUnannounced \cup {"receiveKey"} \cup SenderDelivers
         /\ sndPc'[s] # "off"
         /\ \A t \in After[s] : sndPc[t] = "exited"
         /\ sndPc[s] # "exited"
<1>0. /\ sndPc \in [Senders -> SenderPcs]
      /\ sndPc[s] # "off" => \A t \in After[s] : sndPc[t] = "exited"
  BY DEF IInv, TypeOK, SenderTypeOK, TakeTurns
<1> USE <1>0 DEF SenderGoes, SenderUnannounced, SenderDelivers, SenderFinished
<1>1. CASE MayLaunch(s) /\ SenderLaunch(s)
  BY <1>1, TurnComes DEF SenderLaunch
<1>2. CASE ReceiveSymmetricKey(s)
  <2>1. queues[sndIn[s]] = <<SymKey(s, r)>>
    BY <1>2, SymmetricKeyWaits
  <2>2. Decrypts(s, Head(queues[sndIn[s]]))
    BY <2>1 DEF Decrypts, SymKey
  <2>3. QED
    BY <1>2, <2>2 DEF ReceiveSymmetricKey
<1>3. CASE SenderStep(s) /\ ~ReceiveSymmetricKey(s)
  BY <1>3 DEF SenderStep, SetupSenderCommunication, SetupReceiverCommunication,
     Generate, SendPublicKey, SendPeriodicMessage, AfterFrame, SenderClose,
     UnlinkReceiverQueue, UnlinkSenderQueue
<1>4. CASE DismissSender(s)
  BY <1>4 DEF DismissSender
<1>5. QED
  BY <1>1, <1>2, <1>3, <1>4 DEF SenderMoves

LEMMA ReceiverTurns ==
  ASSUME IInv, TakeTurns, NamesCurrent, NEW s \in Senders, NEW r \in Receivers,
         Session(s, r), SessionState(s, r), ReceiverMoves(r)
  PROVE  /\ rcvPc'[r] \in ReceiverUnpaired \cup ReceiverPaired
         /\ rcvPc'[r] # "off"
         /\ \A t \in After[r] : sndPc[t] = "exited"
<1>0. /\ rcvPc \in [Receivers -> ReceiverPcs]
      /\ rcvPc[r] # "off" => \A t \in After[r] : sndPc[t] = "exited"
  BY DEF IInv, TypeOK, ReceiverTypeOK, TakeTurns
<1> USE <1>0 DEF ReceiverGoes, ReceiverUnpaired, ReceiverPaired
<1>1. CASE MayLaunch(r) /\ ReceiverLaunch(r)
  BY <1>1, TurnComes DEF ReceiverLaunch
<1>2. CASE GetPublicKey(r)
  <2>1. queues[rcvIn[r]] = <<PublicKey(s)>>
    BY <1>2, PublicKeyWaits
  <2>2. LoadsKey(Head(queues[rcvIn[r]]))
    BY <2>1 DEF LoadsKey, PublicKey
  <2>3. QED
    BY <1>2, <2>2 DEF GetPublicKey
<1>3. CASE DeriveKey(r)
  <2>1. rcvPc[r] = "deriveKey"
    BY <1>3 DEF DeriveKey
  <2>2. sndPc[s] = "receiveKey" /\ rcvPub[r] = s
    BY <2>1 DEF SessionState, TakeTurns
  <2>3. rcvPub[r] # None
    BY <2>2, CommonAssumption
  <2>4. QED
    BY <1>3, <2>1, <2>3 DEF DeriveKey
<1>4. CASE OpenReceiverToSender(r) \/ OpenSenderToReceiver(r)
  BY <1>4 DEF OpenReceiverToSender, OpenSenderToReceiver
<1>5. CASE SendSymmetricKey(r) \/ ReceivePeriodicMessage(r)
  BY <1>5 DEF SendSymmetricKey, ReceivePeriodicMessage
<1>6. QED
  BY <1>1, <1>2, <1>3, <1>4, <1>5 DEF ReceiverMoves, ReceiverStep

LEMMA TurnsKept ==
  ASSUME SecureCommAssumption, OneAtATime, IInv, TakeTurns, NamesCurrent,
         NEW s \in Senders, NEW r \in Receivers,
         Session(s, r), SessionState(s, r), Moves(s, r), OthersStill(s, r)
  PROVE  TakeTurns'
<1>1. \A t \in Senders : sndPc[t] = "exited" => sndPc'[t] = "exited"
  BY SenderTurns DEF OthersStill, Moves, sndVars
<1>2. \A p \in Senders \cup Receivers : After[p] \subseteq Senders
  BY DEF SecureCommAssumption
<1>3. CASE SenderMoves(s) /\ UNCHANGED rcvVars
  BY <1>1, <1>2, <1>3, SenderTurns DEF TakeTurns, OthersStill, rcvVars
<1>4. CASE ReceiverMoves(r) /\ UNCHANGED sndVars
  BY <1>1, <1>2, <1>4, ReceiverTurns DEF TakeTurns, OthersStill, sndVars
<1>5. QED
  BY <1>3, <1>4 DEF Moves

-----------------------------------------------------------------------------
(* What a step does to the names and to who refers to their objects         *)

(* No name changes, and nobody opens an object. *)
LEMMA NamesQuiet ==
  ASSUME NamesCurrent, ReadersApart, names' = names,
         rcvIn' = rcvIn, rcvOut' = rcvOut,
         \A s \in Senders :
           /\ sndOut'[s] \in {sndOut[s], NoQueue}
           /\ sndIn'[s] \in {sndIn[s], NoQueue}
           /\ sndPc'[s] \in SenderWithoutQueues =>
                sndOut'[s] = NoQueue /\ sndIn'[s] = NoQueue
           /\ sndPc[s] # "off" => sndPc'[s] # "off"
           /\ sndPc'[s] \in {"unlinkOut", "exited"} <=> sndPc[s] \in {"unlinkOut", "exited"}
           /\ sndPc'[s] = "exited" <=> sndPc[s] = "exited",
         \A r \in Receivers : rcvPc'[r] = "off" => rcvPc[r] = "off"
  PROVE  NamesCurrent' /\ ReadersApart'
<1>1. ReadersApart'
  BY DEF ReadersApart, Session
<1>2. \A n \in QueueNames : names'[n] # NoQueue =>
        \E s \in Senders, r \in Receivers :
          Session(s, r) /\ Begun(s, r)' /\ sndPc'[s] # "exited"
  BY DEF NamesCurrent, Begun
<1>3. \A s \in Senders :
        /\ sndOut'[s] \in {NoQueue, names'[kSenderToReceiverQueue]}
        /\ sndIn'[s] \in {NoQueue, names'[kReceiverToSenderQueue]}
        /\ sndPc'[s] = "unlinkOut" => names'[kReceiverToSenderQueue] = NoQueue
  BY DEF NamesCurrent
<1>4. \A r \in Receivers :
        rcvPc'[r] = "off" => rcvIn'[r] = NoQueue /\ rcvOut'[r] = NoQueue
  BY DEF NamesCurrent
<1>5. \A s \in Senders, r \in Receivers : Session(s, r) =>
        /\ sndPc'[s] # "exited" => rcvIn'[r] \in {NoQueue, names'[kSenderToReceiverQueue]}
        /\ sndPc'[s] \notin {"unlinkOut", "exited"} =>
             rcvOut'[r] \in {NoQueue, names'[kReceiverToSenderQueue]}
  BY DEF NamesCurrent
<1>6. QED
  BY <1>1, <1>2, <1>3, <1>4, <1>5 DEF NamesCurrent, Session

(* Session (s, r) opens n: one of its two processes may get the object.     *)
LEMMA NamesOpened ==
  ASSUME OneAtATime, IInv, TakeTurns', NamesCurrent, ReadersApart,
         NEW s \in Senders, NEW r \in Receivers, Session(s, r), OthersStill(s, r),
         NEW n \in QueueNames, MqOpen(n), Begun(s, r)',
         sndPc[s] \notin {"unlinkOut", "exited"}, sndPc'[s] \notin {"unlinkOut", "exited"},
         sndPc'[s] \in SenderWithoutQueues => sndOut'[s] = NoQueue /\ sndIn'[s] = NoQueue,
         rcvPc'[r] = "off" => rcvIn'[r] = NoQueue /\ rcvOut'[r] = NoQueue,
         \/ sndOut'[s] = sndOut[s]
         \/ n = kSenderToReceiverQueue /\ sndOut'[s] = Opened(n),
         \/ sndIn'[s] = sndIn[s]
         \/ n = kReceiverToSenderQueue /\ sndIn'[s] = Opened(n),
         \/ rcvIn'[r] = rcvIn[r]
         \/ n = kSenderToReceiverQueue /\ rcvIn'[r] = Opened(n),
         \/ rcvOut'[r] = rcvOut[r]
         \/ n = kReceiverToSenderQueue /\ rcvOut'[r] = Opened(n)
  PROVE  NamesCurrent' /\ ReadersApart'
<1>1. /\ \A m \in QueueNames : m # n => names'[m] = names[m]
      /\ names'[n] = Opened(n)
      /\ names[n] # NoQueue => names'[n] = names[n]
      /\ names[n] = NoQueue => names'[n] = Len(queues) + 1
  BY DEF MqOpen, Opened, IInv, TypeOK, MqTypeOK
<1>2. \A m \in QueueNames : names[m] # NoQueue => names'[m] = names[m]
  BY <1>1
<1>3. kSenderToReceiverQueue \in QueueNames /\ kReceiverToSenderQueue \in QueueNames
  BY DEF QueueNames
<1>4. \A t \in Senders, q \in Receivers : Session(t, q) /\ t # s =>
        /\ q # r /\ sndPc'[t] = sndPc[t]
        /\ sndPc[t] = "exited" \/ (sndPc[t] = "off" /\ rcvPc[q] = "off")
  <2> SUFFICES ASSUME NEW t \in Senders, NEW q \in Receivers, Session(t, q), t # s
               PROVE  /\ q # r /\ sndPc'[t] = sndPc[t]
                      /\ sndPc[t] = "exited" \/ (sndPc[t] = "off" /\ rcvPc[q] = "off")
    OBVIOUS
  <2>1. q # r /\ sndPc'[t] = sndPc[t] /\ rcvPc'[q] = rcvPc[q]
    BY SessionsDistinct DEF OthersStill
  <2>2. Begun(t, q)' => sndPc'[t] = "exited"
    BY OthersOverNext
  <2>3. QED
    BY <2>1, <2>2 DEF Begun
<1>5. \A t \in Senders : t # s =>
        /\ sndPc'[t] = sndPc[t] /\ sndPc[t] \in {"off", "exited"}
        /\ sndOut'[t] = NoQueue /\ sndIn'[t] = NoQueue
  BY <1>4 DEF OneAtATime, OthersStill, NamesCurrent, SenderWithoutQueues
<1>6. \A m \in QueueNames : names'[m] # NoQueue =>
        \E t \in Senders, q \in Receivers :
          Session(t, q) /\ Begun(t, q)' /\ sndPc'[t] # "exited"
  OBVIOUS
<1>7. \A t \in Senders :
        /\ sndOut'[t] \in {NoQueue, names'[kSenderToReceiverQueue]}
        /\ sndIn'[t] \in {NoQueue, names'[kReceiverToSenderQueue]}
        /\ sndPc'[t] \in SenderWithoutQueues => sndOut'[t] = NoQueue /\ sndIn'[t] = NoQueue
        /\ sndPc'[t] = "unlinkOut" => names'[kReceiverToSenderQueue] = NoQueue
  <2> TAKE t \in Senders
  <2>1. CASE t # s
    BY <1>5, <2>1
  <2>2. /\ sndOut[s] \in {NoQueue, names[kSenderToReceiverQueue]}
        /\ sndIn[s] \in {NoQueue, names[kReceiverToSenderQueue]}
    BY DEF NamesCurrent
  <2>3. sndOut'[s] \in {NoQueue, names'[kSenderToReceiverQueue]}
    BY <1>1, <1>2, <1>3, <2>2
  <2>4. sndIn'[s] \in {NoQueue, names'[kReceiverToSenderQueue]}
    BY <1>1, <1>2, <1>3, <2>2
  <2>5. CASE t = s
    BY <2>3, <2>4, <2>5
  <2>6. QED
    BY <2>1, <2>5
<1>8. \A q \in Receivers :
        rcvPc'[q] = "off" => rcvIn'[q] = NoQueue /\ rcvOut'[q] = NoQueue
  BY DEF OthersStill, NamesCurrent
<1>9. \A t \in Senders, q \in Receivers : Session(t, q) =>
        /\ sndPc'[t] # "exited" => rcvIn'[q] \in {NoQueue, names'[kSenderToReceiverQueue]}
        /\ sndPc'[t] \notin {"unlinkOut", "exited"} =>
             rcvOut'[q] \in {NoQueue, names'[kReceiverToSenderQueue]}
  <2> SUFFICES ASSUME NEW t \in Senders, NEW q \in Receivers, Session(t, q),
                      sndPc'[t] # "exited"
               PROVE  /\ rcvIn'[q] \in {NoQueue, names'[kSenderToReceiverQueue]}
                      /\ sndPc'[t] # "unlinkOut" =>
                           rcvOut'[q] \in {NoQueue, names'[kReceiverToSenderQueue]}
    OBVIOUS
  <2>1. CASE t # s
    <3>1. rcvPc[q] = "off" /\ q # r
      BY <1>4, <2>1
    <3>2. QED
      BY <3>1 DEF OthersStill, NamesCurrent
  <2>2. CASE t = s
    <3>1. q = r
      BY <2>2, SessionsDistinct
    <3>2. /\ rcvIn[r] \in {NoQueue, names[kSenderToReceiverQueue]}
          /\ rcvOut[r] \in {NoQueue, names[kReceiverToSenderQueue]}
      BY DEF NamesCurrent
    <3>3. rcvIn'[r] \in {NoQueue, names'[kSenderToReceiverQueue]}
      BY <1>1, <1>2, <1>3, <3>2
    <3>4. rcvOut'[r] \in {NoQueue, names'[kReceiverToSenderQueue]}
      BY <1>1, <1>2, <1>3, <3>2
    <3>5. QED
      BY <3>1, <3>3, <3>4
  <2>3. QED
    BY <2>1, <2>2
<1>10. \A t \in Senders, q \in Receivers :
         Session(t, q) /\ sndPc'[t] = "exited" =>
           rcvIn'[q] # names'[kSenderToReceiverQueue]
  <2> SUFFICES ASSUME NEW t \in Senders, NEW q \in Receivers, Session(t, q),
                      sndPc'[t] = "exited"
               PROVE  rcvIn'[q] # names'[kSenderToReceiverQueue]
    OBVIOUS
  <2>1. t # s /\ q # r /\ sndPc[t] = "exited" /\ rcvIn'[q] = rcvIn[q]
    BY <1>4 DEF OthersStill
  <2>2. rcvIn[q] # names[kSenderToReceiverQueue]
    BY <2>1 DEF ReadersApart
  <2>3. rcvIn[q] \in 0 .. Len(queues) /\ Len(queues) \in Nat
    BY DEF IInv, DescriptorsValid, TypeOK, MqTypeOK
  <2>4. rcvIn[q] # Len(queues) + 1
    BY <2>3
  <2>5. QED
    BY <1>1, <1>3, <2>1, <2>2, <2>4
<1>11. \A p, q \in Receivers : rcvIn'[p] = rcvIn'[q] /\ rcvIn'[p] # NoQueue => p = q
  <2>1. ASSUME NEW q \in Receivers, q # r, rcvIn'[r] = rcvIn'[q], rcvIn'[q] # NoQueue
        PROVE  FALSE
    <3>1. rcvIn'[q] = rcvIn[q] /\ rcvPc[q] # "off"
      BY <2>1 DEF OthersStill, NamesCurrent
    <3>2. CASE rcvIn'[r] = rcvIn[r]
      BY <2>1, <3>1, <3>2 DEF ReadersApart
    <3>3. CASE rcvIn'[r] = names'[kSenderToReceiverQueue]
      <4>1. PICK t \in Senders : Session(t, q)
        BY DEF OneAtATime
      <4>2. t # s
        BY <2>1, <4>1, SessionsDistinct
      <4>3. sndPc'[t] = "exited"
        BY <1>4, <3>1, <4>1, <4>2
      <4>4. QED
        BY <1>10, <2>1, <3>3, <4>1, <4>3
    <3>4. QED
      BY <1>1, <3>2, <3>3
  <2>2. \A p, q \in Receivers : p # r /\ q # r /\ rcvIn'[p] = rcvIn'[q]
          /\ rcvIn'[p] # NoQueue => p = q
    BY DEF OthersStill, ReadersApart
  <2>3. QED
    BY <2>1, <2>2
<1>12. NamesCurrent'
  BY <1>6, <1>7, <1>8, <1>9 DEF NamesCurrent, Session
<1>13. QED
  BY <1>10, <1>11, <1>12 DEF ReadersApart, Session

LEMMA ReplyUnlinked ==
  ASSUME OneAtATime, IInv, TakeTurns, NamesCurrent, ReadersApart,
         NEW s \in Senders, NEW r \in Receivers, Session(s, r), SessionState(s, r),
         UnlinkReceiverQueue(s), UNCHANGED rcvVars
  PROVE  NamesCurrent' /\ ReadersApart'
<1>1. /\ sndPc[s] = "unlinkIn" /\ sndPc' = [sndPc EXCEPT ![s] = "unlinkOut"]
      /\ sndOut' = sndOut /\ sndIn' = sndIn /\ rcvIn' = rcvIn /\ rcvOut' = rcvOut
      /\ rcvPc' = rcvPc
      /\ sndPc' \in [Senders -> SenderPcs] /\ sndPc \in [Senders -> SenderPcs]
  BY DEF UnlinkReceiverQueue, SenderGoes, rcvVars, IInv, TypeOK, SenderTypeOK, SenderPcs
<1>2. /\ names'[kSenderToReceiverQueue] = names[kSenderToReceiverQueue]
      /\ names'[kReceiverToSenderQueue] = NoQueue
  BY DEF UnlinkReceiverQueue, MqUnlink, IInv, TypeOK, MqTypeOK, QueueNames,
     kSenderToReceiverQueue, kReceiverToSenderQueue
<1>3. \A t \in Senders, q \in Receivers : Session(t, q) /\ t # s =>
        sndPc[t] = "exited" \/ (sndPc[t] = "off" /\ rcvPc[q] = "off")
  BY <1>1, OthersOver DEF Begun
<1>4. \A t \in Senders : sndIn[t] = NoQueue
  BY <1>1, <1>3 DEF OneAtATime, NamesCurrent, SenderWithoutQueues
<1>5. \A m \in QueueNames : names'[m] # NoQueue =>
        \E t \in Senders, q \in Receivers :
          Session(t, q) /\ Begun(t, q)' /\ sndPc'[t] # "exited"
  BY <1>1 DEF Begun
<1>6. \A t \in Senders :
        /\ sndOut'[t] \in {NoQueue, names'[kSenderToReceiverQueue]}
        /\ sndIn'[t] \in {NoQueue, names'[kReceiverToSenderQueue]}
        /\ sndPc'[t] \in SenderWithoutQueues => sndOut'[t] = NoQueue /\ sndIn'[t] = NoQueue
        /\ sndPc'[t] = "unlinkOut" => names'[kReceiverToSenderQueue] = NoQueue
  BY <1>1, <1>2, <1>4 DEF NamesCurrent, SenderWithoutQueues
<1>7. \A q \in Receivers :
        rcvPc'[q] = "off" => rcvIn'[q] = NoQueue /\ rcvOut'[q] = NoQueue
  BY <1>1 DEF NamesCurrent
<1>8. \A t \in Senders, q \in Receivers : Session(t, q) =>
        /\ sndPc'[t] # "exited" => rcvIn'[q] \in {NoQueue, names'[kSenderToReceiverQueue]}
        /\ sndPc'[t] \notin {"unlinkOut", "exited"} =>
             rcvOut'[q] \in {NoQueue, names'[kReceiverToSenderQueue]}
  BY <1>1, <1>2, <1>3 DEF NamesCurrent
<1>9. ReadersApart'
  BY <1>1, <1>2 DEF ReadersApart, Session
<1>10. QED
  BY <1>5, <1>6, <1>7, <1>8, <1>9 DEF NamesCurrent, Session

LEMMA ForwardUnlinked ==
  ASSUME OneAtATime, IInv, SInv, NEW s \in Senders, NEW r \in Receivers, Session(s, r),
         UnlinkSenderQueue(s), UNCHANGED rcvVars
  PROVE  NamesCurrent' /\ ReadersApart'
<1>0. TakeTurns /\ NamesCurrent /\ ReadersApart
  BY DEF SInv
<1>1. /\ sndPc[s] = "unlinkOut" /\ sndPc' = [sndPc EXCEPT ![s] = "exited"]
      /\ sndOut' = sndOut /\ sndIn' = sndIn /\ rcvIn' = rcvIn /\ rcvOut' = rcvOut
      /\ rcvPc' = rcvPc
      /\ sndPc' \in [Senders -> SenderPcs] /\ sndPc \in [Senders -> SenderPcs]
  BY DEF UnlinkSenderQueue, SenderGoes, rcvVars, IInv, TypeOK, SenderTypeOK, SenderPcs,
     SenderGone
<1>2. names'[kSenderToReceiverQueue] = NoQueue /\ names'[kReceiverToSenderQueue] = NoQueue
  BY <1>0, <1>1 DEF UnlinkSenderQueue, MqUnlink, IInv, TypeOK, MqTypeOK, QueueNames,
     kSenderToReceiverQueue, kReceiverToSenderQueue, NamesCurrent
<1>3. \A t \in Senders, q \in Receivers : Session(t, q) /\ t # s =>
        sndPc[t] = "exited" \/ (sndPc[t] = "off" /\ rcvPc[q] = "off")
  BY <1>0, <1>1, OthersOver DEF Begun
<1>4. \A t \in Senders : sndOut[t] = NoQueue /\ sndIn[t] = NoQueue
  BY <1>0, <1>1, <1>3 DEF OneAtATime, NamesCurrent, SenderWithoutQueues
<1>5. \A q \in Receivers :
        rcvPc'[q] = "off" => rcvIn'[q] = NoQueue /\ rcvOut'[q] = NoQueue
  BY <1>0, <1>1 DEF NamesCurrent
<1>6. \A t \in Senders, q \in Receivers : Session(t, q) /\ sndPc'[t] # "exited" =>
        rcvIn'[q] = NoQueue /\ rcvOut'[q] = NoQueue
  BY <1>0, <1>1, <1>3 DEF NamesCurrent
<1>7. NamesCurrent'
  BY <1>1, <1>2, <1>4, <1>5, <1>6 DEF NamesCurrent, Session, QueueNames
<1>8. \A t \in Senders, q \in Receivers :
        Session(t, q) /\ sndPc'[t] = "exited" => rcvIn[q] # NoQueue
  <2> SUFFICES ASSUME NEW t \in Senders, NEW q \in Receivers,
                      Session(t, q), sndPc'[t] = "exited"
               PROVE  rcvIn[q] # NoQueue
    OBVIOUS
  <2>1. sndPc[t] \in SenderDelivers
    BY <1>1 DEF SenderDelivers, SenderFinished
  <2>2. rcvPc[q] = "periodic"
    BY <2>1 DEF SInv, SessionState
  <2>3. QED
    BY <2>2 DEF IInv, DescriptorsValid, ReceiverConnected
<1>9. QED
  BY <1>0, <1>1, <1>2, <1>7, <1>8 DEF ReadersApart, Session
LEMMA SenderKeepsNames ==
  ASSUME OneAtATime, IInv, SInv, TakeTurns', NEW s \in Senders, NEW r \in Receivers,
         Session(s, r), SenderMoves(s), UNCHANGED rcvVars, OthersStill(s, r)
  PROVE  NamesCurrent' /\ ReadersApart'
<1>1. /\ sndPc \in [Senders -> SenderPcs] /\ sndOut \in [Senders -> Nat]
      /\ sndIn \in [Senders -> Nat]
  BY DEF IInv, TypeOK, SenderTypeOK
<1>2. /\ TakeTurns /\ NamesCurrent /\ ReadersApart /\ SessionState(s, r)
      /\ rcvPc' = rcvPc /\ rcvIn' = rcvIn /\ rcvOut' = rcvOut
  BY DEF SInv, rcvVars
<1>3. CASE SetupSenderCommunication(s)
  <2>1. /\ MqOpen(kSenderToReceiverQueue) /\ sndPc[s] = "openOut" /\ sndPc'[s] = "openIn"
        /\ sndOut'[s] = Opened(kSenderToReceiverQueue) /\ sndIn'[s] = sndIn[s]
    BY <1>1, <1>3 DEF SetupSenderCommunication, SenderGoes
  <2>2. rcvPc[r] = "off" => rcvIn[r] = NoQueue /\ rcvOut[r] = NoQueue
    BY <1>2 DEF NamesCurrent
  <2>3. QED
    BY <1>2, <2>1, <2>2, NamesOpened DEF Begun, QueueNames, SenderWithoutQueues
<1>4. CASE SetupReceiverCommunication(s)
  <2>1. /\ MqOpen(kReceiverToSenderQueue) /\ sndPc[s] = "openIn" /\ sndPc'[s] = "generate"
        /\ sndIn'[s] = Opened(kReceiverToSenderQueue) /\ sndOut'[s] = sndOut[s]
    BY <1>1, <1>4 DEF SetupReceiverCommunication, SenderGoes
  <2>2. rcvPc[r] = "off" => rcvIn[r] = NoQueue /\ rcvOut[r] = NoQueue
    BY <1>2 DEF NamesCurrent
  <2>3. QED
    BY <1>2, <2>1, <2>2, NamesOpened DEF Begun, QueueNames, SenderWithoutQueues
<1>5. CASE UnlinkReceiverQueue(s)
  BY <1>2, <1>5, ReplyUnlinked
<1>6. CASE UnlinkSenderQueue(s)
  BY <1>6, ForwardUnlinked
<1>7. CASE SenderClose(s)
  <2>1. /\ sndPc[s] = "close" /\ sndPc' = [sndPc EXCEPT ![s] = "enterExit"]
        /\ sndOut' = [sndOut EXCEPT ![s] = NoQueue] /\ sndIn' = [sndIn EXCEPT ![s] = NoQueue]
        /\ names' = names
    BY <1>7 DEF SenderClose, SenderGoes, SenderCloses, mqVars
  <2>2. QED
    BY <1>1, <1>2, <2>1, NamesQuiet DEF NamesCurrent, SenderWithoutQueues
<1>8. CASE SenderLaunch(s) \/ DismissSender(s)
  <2>1. /\ \/ sndPc[s] = "off" /\ sndPc' = [sndPc EXCEPT ![s] = "openOut"]
           \/ sndPc[s] = "enterExit" /\ sndPc' = [sndPc EXCEPT ![s] = "unlinkIn"]
        /\ sndOut' = sndOut /\ sndIn' = sndIn /\ names' = names
    BY <1>8 DEF SenderLaunch, DismissSender, SenderGoes, mqVars
  <2>2. QED
    BY <1>1, <1>2, <2>1, NamesQuiet DEF NamesCurrent, SenderWithoutQueues
<1>9. CASE Generate(s) \/ SendPublicKey(s) \/ ReceiveSymmetricKey(s)
           \/ SendPeriodicMessage(s)
  <2>1. sndPc'[s] # "aborted"
    BY DEF TakeTurns, SenderUnannounced, SenderDelivers, SenderFinished
  <2>2. /\ sndPc[s] \in {"generate", "sendPublicKey", "receiveKey", "periodic"}
        /\ \E to \in {"sendPublicKey", "receiveKey", "periodic", "close"} :
             sndPc' = [sndPc EXCEPT ![s] = to]
        /\ sndOut' = sndOut /\ sndIn' = sndIn /\ names' = names
    BY <1>1, <1>9, <2>1 DEF Generate, SendPublicKey, ReceiveSymmetricKey,
       SendPeriodicMessage, SenderGoes, AfterFrame, MqSend, MqReceive, mqVars
  <2>3. QED
    BY <1>1, <1>2, <2>2, NamesQuiet DEF NamesCurrent, SenderWithoutQueues
<1>10. QED
  BY <1>3, <1>4, <1>5, <1>6, <1>7, <1>8, <1>9 DEF SenderMoves, SenderStep

LEMMA ReceiverKeepsNames ==
  ASSUME OneAtATime, IInv, SInv, TakeTurns', NEW s \in Senders, NEW r \in Receivers,
         Session(s, r), ReceiverMoves(r), UNCHANGED sndVars, OthersStill(s, r)
  PROVE  NamesCurrent' /\ ReadersApart'
<1>1. /\ rcvPc \in [Receivers -> ReceiverPcs] /\ rcvIn \in [Receivers -> Nat]
      /\ rcvOut \in [Receivers -> Nat]
  BY DEF IInv, TypeOK, ReceiverTypeOK
<1>2. /\ TakeTurns /\ NamesCurrent /\ ReadersApart /\ SessionState(s, r)
      /\ sndPc' = sndPc /\ sndOut' = sndOut /\ sndIn' = sndIn
  BY DEF SInv, sndVars
<1>3. rcvPc[r] \in {"openOut", "openIn"} => sndPc[s] \notin {"unlinkOut", "exited"}
  BY <1>2 DEF SessionState, SenderDelivers, SenderFinished
<1>4. CASE OpenReceiverToSender(r)
  <2>1. /\ MqOpen(kReceiverToSenderQueue) /\ rcvPc[r] = "openOut" /\ rcvPc'[r] = "openIn"
        /\ rcvOut'[r] = Opened(kReceiverToSenderQueue) /\ rcvIn'[r] = rcvIn[r]
    BY <1>1, <1>4 DEF OpenReceiverToSender, ReceiverGoes
  <2>2. QED
    BY <1>2, <1>3, <2>1, NamesOpened DEF Begun, QueueNames, NamesCurrent
<1>5. CASE OpenSenderToReceiver(r)
  <2>1. /\ MqOpen(kSenderToReceiverQueue) /\ rcvPc[r] = "openIn" /\ rcvPc'[r] = "getPublicKey"
        /\ rcvIn'[r] = Opened(kSenderToReceiverQueue) /\ rcvOut'[r] = rcvOut[r]
    BY <1>1, <1>5 DEF OpenSenderToReceiver, ReceiverGoes
  <2>2. QED
    BY <1>2, <1>3, <2>1, NamesOpened DEF Begun, QueueNames, NamesCurrent
<1>6. CASE ReceiverLaunch(r)
  <2>1. /\ rcvPc' = [rcvPc EXCEPT ![r] = "openOut"]
        /\ rcvIn' = rcvIn /\ rcvOut' = rcvOut /\ names' = names
    BY <1>6 DEF ReceiverLaunch, ReceiverGoes, mqVars
  <2>2. QED
    BY <1>1, <1>2, <2>1, NamesQuiet DEF NamesCurrent
<1>7. CASE GetPublicKey(r) \/ DeriveKey(r) \/ SendSymmetricKey(r)
           \/ ReceivePeriodicMessage(r)
  <2>1. rcvPc'[r] # "aborted"
    BY DEF TakeTurns, ReceiverUnpaired, ReceiverPaired
  <2>2. /\ rcvPc' = rcvPc \/ \E to \in {"deriveKey", "sendKey", "periodic"} :
                               rcvPc' = [rcvPc EXCEPT ![r] = to]
        /\ rcvIn' = rcvIn /\ rcvOut' = rcvOut /\ names' = names
    BY <1>1, <1>7, <2>1 DEF GetPublicKey, DeriveKey, SendSymmetricKey,
       ReceivePeriodicMessage, ReceiverGoes, MqSend, MqReceive, mqVars
  <2>3. QED
    BY <1>1, <1>2, <2>2, NamesQuiet DEF NamesCurrent
<1>8. QED
  BY <1>4, <1>5, <1>6, <1>7 DEF ReceiverMoves, ReceiverStep

-----------------------------------------------------------------------------
(* What a step does to its own session                                      *)

LEMMA OpenKeepsPending ==
  ASSUME IInv, NEW n \in QueueNames, MqOpen(n), NEW m \in QueueNames
  PROVE  Pending(m)' = Pending(m)
<1>1. /\ names \in [QueueNames -> Nat] /\ names[m] \in 0 .. Len(queues)
      /\ MqTypeOK /\ names[n] \in 0 .. Len(queues)
  BY DEF IInv, TypeOK, MqTypeOK, DescriptorsValid
<1>2. /\ \A q \in 1 .. Len(queues) : queues'[q] = queues[q]
      /\ \A q \in 1 .. Len(queues') : q \notin 1 .. Len(queues) => queues'[q] = <<>>
      /\ Opened(n) \in 1 .. Len(queues')
      /\ Opened(n) \in 1 .. Len(queues) => Opened(n) = names[n]
      /\ names' = [names EXCEPT ![n] = Opened(n)]
  BY <1>1, OpenEffect
<1>3. CASE names[m] # NoQueue
  <2>1. names'[m] = names[m]
    BY <1>1, <1>2, <1>3 DEF Opened
  <2>2. names[m] \in 1 .. Len(queues)
    BY <1>1, <1>3 DEF NoQueue
  <2>3. QED
    BY <1>2, <1>3, <2>1, <2>2 DEF Pending
<1>4. CASE names[m] = NoQueue /\ m # n
  BY <1>1, <1>2, <1>4 DEF Pending
<1>5. CASE names[m] = NoQueue /\ m = n
  <2>1. names'[m] = Opened(n)
    BY <1>1, <1>2, <1>5
  <2>2. Opened(n) \notin 1 .. Len(queues)
    BY <1>1, <1>2, <1>5 DEF NoQueue
  <2>3. QED
    BY <1>2, <1>5, <2>1, <2>2 DEF Pending
<1>6. QED
  BY <1>3, <1>4, <1>5

(* The first process of a session to start finds neither name.              *)
LEMMA FirstFindsNothing ==
  ASSUME OneAtATime, TakeTurns', NamesCurrent, NEW s \in Senders, NEW r \in Receivers,
         Session(s, r), OthersStill(s, r), ~Begun(s, r), Begun(s, r)', sndPc'[s] # "exited",
         NEW m \in QueueNames
  PROVE  Pending(m) = <<>>
<1>1. SUFFICES ASSUME names[m] # NoQueue PROVE FALSE
  BY DEF Pending
<1>2. PICK t \in Senders, q \in Receivers :
        Session(t, q) /\ Begun(t, q) /\ sndPc[t] # "exited"
  BY <1>1 DEF NamesCurrent
<1>3. t # s /\ q # r
  BY <1>2, SessionsDistinct
<1>4. Begun(t, q)' /\ sndPc'[t] # "exited"
  BY <1>2, <1>3 DEF Begun, OthersStill
<1>5. QED
  BY <1>2, <1>3, <1>4, OthersOverNext

(* Launches, the four opens and the generation of the key pair leave what   *)
(* waits under the names as it was.                                        *)
SenderSetup(s) ==
  \/ SenderLaunch(s) \/ SetupSenderCommunication(s)
  \/ SetupReceiverCommunication(s) \/ Generate(s)

ReceiverSetup(r) ==
  ReceiverLaunch(r) \/ OpenReceiverToSender(r) \/ OpenSenderToReceiver(r)

LEMMA SetupKeepsPending ==
  ASSUME IInv, NEW s \in Senders, NEW r \in Receivers,
         SenderSetup(s) \/ ReceiverSetup(r), NEW m \in QueueNames
  PROVE  Pending(m)' = Pending(m)
<1>1. CASE \E n \in QueueNames : MqOpen(n)
  BY <1>1, OpenKeepsPending
<1>2. CASE UNCHANGED mqVars
  BY <1>2 DEF mqVars, Pending
<1>3. QED
  BY <1>1, <1>2 DEF SenderSetup, SenderLaunch, SetupSenderCommunication,
     SetupReceiverCommunication, Generate, ReceiverSetup, ReceiverLaunch,
     OpenReceiverToSender, OpenSenderToReceiver, QueueNames

LEMMA SenderSetupKeepsState ==
  ASSUME OneAtATime, IInv, SInv, TakeTurns', NEW s \in Senders, NEW r \in Receivers,
         Session(s, r), OthersStill(s, r), SenderSetup(s), UNCHANGED rcvVars
  PROVE  SessionState(s, r)'
<1>1. /\ sndPc \in [Senders -> SenderPcs] /\ NamesCurrent /\ SessionState(s, r)
      /\ rcvPc'[r] = rcvPc[r] /\ rcvLog'[r] = rcvLog[r]
  BY DEF IInv, TypeOK, SenderTypeOK, SInv, rcvVars
<1>2. /\ sndPc[s] \in {"off", "openOut", "openIn", "generate"}
      /\ sndPc'[s] \in {"openOut", "openIn", "generate", "sendPublicKey"}
      /\ sndIndex'[s] = sndIndex[s]
  BY <1>1 DEF SenderSetup, SenderLaunch, SetupSenderCommunication,
     SetupReceiverCommunication, Generate, SenderGoes
<1>3. \A m \in QueueNames : Pending(m)' = <<>>
  <2>1. CASE Begun(s, r)
    BY <1>1, <1>2, <2>1, SetupKeepsPending DEF SessionState, SenderUnannounced
  <2>2. CASE ~Begun(s, r)
    BY <1>1, <1>2, <2>2, SetupKeepsPending, FirstFindsNothing DEF Begun
  <2>3. QED
    BY <2>1, <2>2
<1>4. /\ sndPc[s] \in SenderUnannounced /\ sndPc[s] \notin SenderDelivers
      /\ sndPc'[s] \in SenderUnannounced /\ sndPc'[s] \notin SenderDelivers
      /\ sndPc'[s] # "receiveKey"
  BY <1>2 DEF SenderUnannounced, SenderDelivers, SenderFinished
<1>5. QED
  BY <1>1, <1>2, <1>3, <1>4 DEF SessionState

LEMMA ReceiverSetupKeepsState ==
  ASSUME OneAtATime, IInv, SInv, TakeTurns', NEW s \in Senders, NEW r \in Receivers,
         Session(s, r), OthersStill(s, r), ReceiverSetup(r), UNCHANGED sndVars
  PROVE  SessionState(s, r)'
<1>1. /\ rcvPc \in [Receivers -> ReceiverPcs] /\ NamesCurrent /\ SessionState(s, r)
      /\ sndPc'[s] = sndPc[s] /\ sndIndex'[s] = sndIndex[s]
  BY DEF IInv, TypeOK, ReceiverTypeOK, SInv, sndVars
<1>2. /\ rcvPc[r] \in {"off", "openOut", "openIn"}
      /\ rcvPc'[r] \in {"openOut", "openIn", "getPublicKey"}
      /\ rcvLog'[r] = rcvLog[r]
  BY <1>1 DEF ReceiverSetup, ReceiverLaunch, OpenReceiverToSender, OpenSenderToReceiver,
     ReceiverGoes
<1>3. /\ rcvPc[r] \in ReceiverUnpaired /\ rcvPc'[r] \in ReceiverUnpaired
      /\ rcvPc'[r] \notin ReceiverPaired /\ rcvPc[r] # "periodic" /\ rcvPc'[r] # "periodic"
  BY <1>2 DEF ReceiverUnpaired, ReceiverPaired
<1>4. sndPc[s] \notin SenderDelivers
  BY <1>1, <1>3 DEF SessionState
<1>5. sndPc[s] \in SenderUnannounced => \A m \in QueueNames : Pending(m)' = <<>>
  <2>1. CASE Begun(s, r)
    BY <1>1, <2>1, SetupKeepsPending DEF SessionState
  <2>2. CASE ~Begun(s, r)
    BY <1>1, <1>2, <2>2, SetupKeepsPending, FirstFindsNothing DEF Begun
  <2>3. QED
    BY <2>1, <2>2
<1>6. kSenderToReceiverQueue \in QueueNames /\ kReceiverToSenderQueue \in QueueNames
  BY DEF QueueNames
<1>7. \A m \in QueueNames : Pending(m)' = Pending(m)
  BY SetupKeepsPending
<1>8. QED
  BY <1>1, <1>2, <1>3, <1>4, <1>5, <1>6, <1>7 DEF SessionState

(* What a send to an empty object does to it and to another empty one.      *)
LEMMA FirstMessage ==
  ASSUME MqTypeOK, NEW a \in 1 .. Len(queues), NEW b \in 1 .. Len(queues), a # b, NEW m,
         queues[a] = <<>>, queues[b] = <<>>,
         queues' = [queues EXCEPT ![a] = Append(@, m)]
  PROVE  queues'[a] = <<m>> /\ queues'[b] = <<>>
<1>1. DOMAIN queues = 1 .. Len(queues)
  BY DEF MqTypeOK
<1>2. queues'[a] = Append(queues[a], m) /\ queues'[b] = queues[b]
  BY <1>1, Zenon
<1>3. Append(<<>>, m) = <<m>>
  OBVIOUS
<1>4. QED
  BY <1>2, <1>3, Zenon

(* send_public_key to get_public_key *)
LEMMA PublicKeySent ==
  ASSUME IInv, SInv, NEW s \in Senders, NEW r \in Receivers,
         Session(s, r), SendPublicKey(s), UNCHANGED rcvVars
  PROVE  SessionState(s, r)'
<1> DEFINE q == sndOut[s]
<1>1. /\ sndPc[s] = "sendPublicKey" /\ sndPc'[s] = "receiveKey" /\ sndIndex' = sndIndex
      /\ rcvPc' = rcvPc /\ rcvLog' = rcvLog /\ names' = names
      /\ queues' = [queues EXCEPT ![q] = Append(@, PublicKey(s))]
      /\ NamesCurrent /\ SessionState(s, r) /\ MqTypeOK
  BY DEF SendPublicKey, SenderGoes, MqSend, rcvVars, IInv, TypeOK, SenderTypeOK, SInv
<1>2. /\ q = names[kSenderToReceiverQueue] /\ q \in 1 .. Len(queues)
      /\ sndIn[s] = names[kReceiverToSenderQueue] /\ sndIn[s] \in 1 .. Len(queues)
  BY <1>1, SenderHoldsNames
<1>3. q # sndIn[s] /\ q # NoQueue /\ sndIn[s] # NoQueue
  BY <1>2, NamesApart DEF NoQueue
<1>4. /\ rcvPc[r] \in ReceiverUnpaired /\ sndIndex[s] = 0 /\ rcvLog[r] = <<>>
      /\ \A n \in QueueNames : Pending(n) = <<>>
  BY <1>1 DEF SessionState, SenderUnannounced, SenderDelivers, SenderFinished, Begun
<1>5. queues[q] = <<>> /\ queues[sndIn[s]] = <<>>
  BY <1>2, <1>3, <1>4 DEF Pending, QueueNames
<1>6. queues'[q] = <<PublicKey(s)>> /\ queues'[sndIn[s]] = <<>>
  BY <1>1, <1>2, <1>3, <1>5, FirstMessage
<1>7. /\ Pending(kSenderToReceiverQueue)' = <<PublicKey(s)>>
      /\ Pending(kReceiverToSenderQueue)' = <<>>
  BY <1>1, <1>2, <1>3, <1>6 DEF Pending
<1>8. /\ sndPc'[s] \notin SenderUnannounced /\ sndPc'[s] \notin SenderDelivers
      /\ rcvPc[r] \notin ReceiverPaired /\ rcvPc[r] # "periodic"
  BY <1>1, <1>4 DEF SenderUnannounced, SenderDelivers, SenderFinished, ReceiverUnpaired,
     ReceiverPaired
<1>9. QED
  BY <1>1, <1>4, <1>7, <1>8 DEF SessionState

LEMMA PublicKeyTaken ==
  ASSUME IInv, SInv, NEW s \in Senders, NEW r \in Receivers,
         Session(s, r), GetPublicKey(r), UNCHANGED sndVars
  PROVE  SessionState(s, r)'
<1> DEFINE q == rcvIn[r]
<1>1. /\ TakeTurns /\ NamesCurrent /\ SessionState(s, r) /\ MqTypeOK
      /\ sndPc' = sndPc /\ sndIndex' = sndIndex
  BY DEF IInv, TypeOK, SInv, sndVars
<1>2. /\ sndPc[s] = "receiveKey" /\ q = names[kSenderToReceiverQueue]
      /\ queues[q] = <<PublicKey(s)>>
  BY <1>1, PublicKeyWaits
<1>3. Head(queues[q]) = PublicKey(s) /\ LoadsKey(PublicKey(s)) /\ PublicKey(s).owner = s
  BY <1>2 DEF LoadsKey, PublicKey
<1>4. /\ rcvPc[r] = "getPublicKey" /\ rcvPc'[r] = "deriveKey" /\ rcvPub'[r] = s
      /\ rcvLog' = rcvLog /\ names' = names /\ queues' = [queues EXCEPT ![q] = Tail(@)]
  BY <1>3 DEF GetPublicKey, ReceiverGoes, MqReceive, IInv, TypeOK, ReceiverTypeOK
<1>5. q \in 1 .. Len(queues) /\ q # NoQueue
  BY <1>1, <1>4, ReceiverHoldsNames DEF NoQueue
<1>6. names[kReceiverToSenderQueue] # q
  BY <1>2, <1>5, NamesApart
<1>7. Pending(kSenderToReceiverQueue)' = <<>>
  BY <1>1, <1>2, <1>4, <1>5 DEF Pending, MqTypeOK
<1>8. Pending(kReceiverToSenderQueue)' = Pending(kReceiverToSenderQueue)
  BY <1>1, <1>4, <1>6 DEF Pending, MqTypeOK
<1>9. /\ sndPc[s] \notin SenderUnannounced /\ sndPc[s] \notin SenderDelivers
      /\ rcvPc'[r] \notin ReceiverUnpaired /\ rcvPc[r] # "periodic"
      /\ rcvPc'[r] # "periodic"
  BY <1>2, <1>4 DEF SenderUnannounced, SenderDelivers, SenderFinished, ReceiverUnpaired
<1>10. QED
  BY <1>1, <1>2, <1>4, <1>7, <1>8, <1>9 DEF SessionState

(* send_symmetric_key to receive_symmetric_key *)
LEMMA KeyDerived ==
  ASSUME IInv, SInv, TakeTurns', NEW s \in Senders, NEW r \in Receivers,
         Session(s, r), DeriveKey(r), UNCHANGED sndVars
  PROVE  SessionState(s, r)'
<1>1. /\ TakeTurns /\ SessionState(s, r)
      /\ sndPc' = sndPc /\ sndIndex' = sndIndex /\ names' = names /\ queues' = queues
      /\ rcvPub' = rcvPub /\ rcvLog' = rcvLog
  BY DEF SInv, sndVars, DeriveKey, mqVars
<1>2. rcvPc[r] = "deriveKey" /\ rcvPc'[r] = "sendKey"
  <2>1. rcvPc'[r] # "aborted"
    BY DEF TakeTurns, ReceiverUnpaired, ReceiverPaired
  <2>2. QED
    BY <2>1 DEF DeriveKey, ReceiverGoes, IInv, TypeOK, ReceiverTypeOK
<1>3. sndPc[s] = "receiveKey" /\ sndPc[s] \notin SenderUnannounced
      /\ sndPc[s] \notin SenderDelivers
  BY <1>1, <1>2 DEF SessionState, TakeTurns, SenderUnannounced, ReceiverUnpaired,
     SenderDelivers, SenderFinished
<1>4. \A n \in QueueNames : Pending(n)' = Pending(n)
  BY <1>1 DEF Pending
<1>5. QED
  BY <1>1, <1>2, <1>3, <1>4 DEF SessionState, QueueNames, ReceiverUnpaired, ReceiverPaired

LEMMA SymmetricKeySent ==
  ASSUME IInv, SInv, NEW s \in Senders, NEW r \in Receivers,
         Session(s, r), SendSymmetricKey(r), UNCHANGED sndVars
  PROVE  SessionState(s, r)'
<1> DEFINE q == rcvOut[r]
<1>1. /\ TakeTurns /\ NamesCurrent /\ SessionState(s, r) /\ MqTypeOK
      /\ sndPc' = sndPc /\ sndIndex' = sndIndex /\ names' = names
      /\ rcvPub' = rcvPub /\ rcvLog' = rcvLog
      /\ rcvPc[r] = "sendKey" /\ rcvPc'[r] = "periodic"
      /\ queues' = [queues EXCEPT ![q] = Append(@, SymKey(rcvPub[r], rcvKey[r]))]
  BY DEF SInv, sndVars, SendSymmetricKey, ReceiverGoes, MqSend, IInv, TypeOK, ReceiverTypeOK
<1>2. sndPc[s] = "receiveKey" /\ sndPc[s] \notin SenderUnannounced
      /\ sndPc[s] \notin SenderDelivers
  BY <1>1 DEF SessionState, TakeTurns, SenderUnannounced, ReceiverUnpaired,
     SenderDelivers, SenderFinished
<1>3. /\ q = names[kReceiverToSenderQueue] /\ q \in 1 .. Len(queues)
      /\ rcvIn[r] = names[kSenderToReceiverQueue] /\ rcvIn[r] \in 1 .. Len(queues)
  BY <1>1, <1>2, ReceiverHoldsNames
<1>4. q # rcvIn[r] /\ q # NoQueue /\ rcvIn[r] # NoQueue
  BY <1>3, NamesApart DEF NoQueue
<1>5. rcvPub[r] = s /\ rcvKey[r] = r
  BY <1>1, <1>2 DEF SessionState, ReceiverPaired, IInv, KeyedBeforeUse
<1>6. queues[q] = <<>> /\ queues[rcvIn[r]] = <<>>
  BY <1>1, <1>2, <1>3, <1>4 DEF SessionState, Pending, ReceiverUnpaired
<1>7. queues'[q] = <<SymKey(s, r)>> /\ queues'[rcvIn[r]] = <<>>
  <2>1. queues' = [queues EXCEPT ![q] = Append(@, SymKey(s, r))]
    BY <1>1, <1>5
  <2>2. QED
    BY <1>1, <1>3, <1>4, <1>6, <2>1, FirstMessage
<1>8. /\ Pending(kSenderToReceiverQueue)' = <<>>
      /\ Pending(kReceiverToSenderQueue)' = <<SymKey(s, r)>>
  BY <1>1, <1>3, <1>4, <1>7 DEF Pending
<1>9. QED
  BY <1>1, <1>2, <1>5, <1>8 DEF SessionState, ReceiverUnpaired

LEMMA SymmetricKeyTaken ==
  ASSUME IInv, SInv, NEW s \in Senders, NEW r \in Receivers,
         Session(s, r), ReceiveSymmetricKey(s), UNCHANGED rcvVars
  PROVE  SessionState(s, r)'
<1> DEFINE q == sndIn[s]
<1>1. /\ TakeTurns /\ NamesCurrent /\ SessionState(s, r) /\ MqTypeOK
      /\ rcvPc' = rcvPc /\ rcvIn' = rcvIn /\ rcvLog' = rcvLog
      /\ sndPc[s] = "receiveKey"
  BY DEF IInv, TypeOK, SInv, rcvVars, ReceiveSymmetricKey
<1>2. /\ rcvPc[r] = "periodic" /\ rcvIn[r] = names[kSenderToReceiverQueue]
      /\ rcvIn[r] \in 1 .. Len(queues) /\ queues[rcvIn[r]] = <<>>
      /\ queues[q] = <<SymKey(s, r)>>
  BY <1>1, SymmetricKeyWaits
<1>3. Head(queues[q]) = SymKey(s, r) /\ Decrypts(s, SymKey(s, r))
      /\ Assigned(s, SymKey(s, r)) = r
  BY <1>2 DEF Decrypts, SymKey, Assigned
<1>4. /\ sndPc'[s] = "periodic" /\ sndKey'[s] = r /\ sndIndex' = sndIndex
      /\ queues' = [queues EXCEPT ![q] = Tail(@)]
  BY <1>3 DEF ReceiveSymmetricKey, SenderGoes, MqReceive, IInv, TypeOK, SenderTypeOK
<1>5. q # rcvIn[r]
  BY <1>1, <1>2, NamesApart, SenderHoldsNames DEF NoQueue
<1>6. queues'[rcvIn[r]] = <<>>
  <2>1. queues \in Seq(Seq(Message))
    BY <1>1 DEF MqTypeOK
  <2>2. QED
    BY <1>2, <1>4, <1>5, <2>1
<1>7. sndIndex[s] = 0 /\ rcvLog[r] = <<>>
  BY <1>1 DEF SessionState, SenderDelivers, SenderFinished
<1>8. Delivered(s, r)'
  <2>1. sndIndex'[s] = 0 /\ rcvLog'[r] = <<>> /\ queues'[rcvIn'[r]] = <<>>
    BY <1>1, <1>4, <1>6, <1>7
  <2>2. Len(rcvLog'[r]) = 0 /\ Len(queues'[rcvIn'[r]]) = 0
    BY <2>1
  <2>3. QED
    BY <2>1, <2>2 DEF Delivered
<1>9. sndPc'[s] \notin SenderUnannounced /\ sndPc'[s] \in SenderDelivers
  BY <1>4 DEF SenderUnannounced, SenderDelivers
<1>10. QED
  BY <1>1, <1>2, <1>4, <1>8, <1>9 DEF SessionState

-----------------------------------------------------------------------------
(* send_periodic_message to receive_periodic_messages *)

LEMMA FrameFits ==
  ASSUME CommonAssumption, NEW i \in Nat, NEW k \in Keys
  PROVE  Periodic(i, k) \in Message
<1>1. CounterByte(i) \in 0 .. kByteModulo - 1
  BY DEF CounterByte, kByteModulo
<1>2. QED
  BY <1>1 DEF Periodic, Message, PeriodicMsg

LEMMA FrameSent ==
  ASSUME CommonAssumption, IInv, SInv, NEW s \in Senders, NEW r \in Receivers,
         Session(s, r), SendPeriodicMessage(s), UNCHANGED rcvVars
  PROVE  SessionState(s, r)'
<1> DEFINE q == rcvIn[r]
           n == Len(rcvLog[r])
<1>1. /\ NamesCurrent /\ SessionState(s, r) /\ MqTypeOK
      /\ sndIndex \in [Senders -> 0 .. kNumMessagesToSend]
      /\ rcvLog \in [Receivers -> Seq(LogEntry)]
  BY DEF IInv, TypeOK, SInv, SenderTypeOK, ReceiverTypeOK
<1>2. /\ sndPc[s] = "periodic" /\ sndPc'[s] \in {"periodic", "close"}
      /\ MqSend(sndOut[s], Periodic(sndIndex[s], sndKey[s]))
      /\ sndIndex'[s] = sndIndex[s] + 1 /\ sndKey' = sndKey
      /\ rcvPc' = rcvPc /\ rcvIn' = rcvIn /\ rcvLog' = rcvLog
  BY <1>1 DEF SendPeriodicMessage, SenderGoes, AfterFrame, rcvVars, IInv, TypeOK, SenderTypeOK
<1>3. /\ sndPc[s] \in SenderDelivers
      /\ sndPc'[s] \in SenderDelivers /\ sndPc'[s] \notin SenderUnannounced
      /\ sndPc'[s] # "receiveKey"
  BY <1>2 DEF SenderDelivers, SenderFinished, SenderUnannounced
<1>4. rcvPc[r] = "periodic" /\ sndKey[s] = r /\ Delivered(s, r)
  BY <1>1, <1>3 DEF SessionState
<1>5. q = sndOut[s] /\ q \in 1 .. Len(queues)
  BY <1>1, <1>2, <1>4, SenderHoldsNames, ReceiverHoldsNames
<1>6. Periodic(sndIndex[s], r) \in Message
  BY <1>1, FrameFits, CommonAssumption DEF Keys
<1>7. /\ Len(queues'[q]) = Len(queues[q]) + 1
      /\ \A i \in 1 .. Len(queues[q]) : queues'[q][i] = queues[q][i]
      /\ queues'[q][Len(queues[q]) + 1] = Periodic(sndIndex[s], r)
  BY <1>1, <1>2, <1>4, <1>5, <1>6, SendEffect
<1>8. /\ sndIndex[s] = n + Len(queues[q])
      /\ \A i \in 1 .. n :
           rcvLog[r][i] = [msg |-> Periodic(i - 1, r), printed |-> {"succeeded"}]
      /\ \A i \in 1 .. Len(queues[q]) : queues[q][i] = Periodic(n + i - 1, r)
  BY <1>4 DEF Delivered
<1>9. n \in Nat /\ Len(queues[q]) \in Nat
  BY <1>1, <1>5 DEF MqTypeOK
<1>10. ASSUME NEW i \in 1 .. Len(queues'[q])
       PROVE  queues'[q][i] = Periodic(n + i - 1, r)
  <2>1. CASE i \in 1 .. Len(queues[q])
    BY <1>7, <1>8, <2>1
  <2>2. CASE i = Len(queues[q]) + 1
    <3>1. n + i - 1 = sndIndex[s]
      BY <1>8, <1>9, <2>2
    <3>2. QED
      BY <1>7, <2>2, <3>1
  <2>3. QED
    BY <1>7, <1>9, <2>1, <2>2
<1>11. sndIndex'[s] = n + Len(queues'[q])
  <2> HIDE DEF n
  <2>1. QED
    BY <1>2, <1>7, <1>8, <1>9
<1>12. Delivered(s, r)'
  BY <1>2, <1>8, <1>10, <1>11 DEF Delivered
<1>13. QED
  BY <1>2, <1>3, <1>4, <1>12 DEF SessionState

(* What a receiver's loop finds in its queue, and makes of it.              *)
LEMMA FrameTaken ==
  ASSUME CommonAssumption, IInv, SInv, NEW s \in Senders, NEW r \in Receivers,
         Session(s, r), ReceivePeriodicMessage(r)
  PROVE  /\ sndPc[s] \in SenderDelivers /\ Delivered(s, r)
         /\ rcvIn[r] \in 1 .. Len(queues) /\ queues[rcvIn[r]] # <<>>
         /\ Head(queues[rcvIn[r]]) = Periodic(Len(rcvLog[r]), r)
         /\ rcvLog' = [rcvLog EXCEPT ![r] =
              Append(@, [msg |-> Periodic(Len(rcvLog[r]), r), printed |-> {"succeeded"}])]
<1> DEFINE q == rcvIn[r]
<1>1. /\ TakeTurns /\ NamesCurrent /\ SessionState(s, r) /\ MqTypeOK
      /\ rcvLog \in [Receivers -> Seq(LogEntry)]
      /\ rcvPc[r] = "periodic" /\ MqReceive(q) /\ queues[q] # <<>>
  BY DEF IInv, TypeOK, SInv, ReceiverTypeOK, ReceivePeriodicMessage, MqReceive
<1>2. q \in 1 .. Len(queues)
  BY <1>1, ReceiverHoldsNames
<1>3. sndPc[s] \in SenderDelivers
  <2>1. sndPc[s] \notin SenderUnannounced
    BY <1>1 DEF SessionState, ReceiverUnpaired
  <2>2. sndPc[s] # "receiveKey"
    <3>1. SUFFICES ASSUME sndPc[s] = "receiveKey" PROVE FALSE
      OBVIOUS
    <3>2. Pending(kSenderToReceiverQueue) = <<>>
      BY <1>1, <3>1 DEF SessionState, ReceiverUnpaired
    <3>3. q = names[kSenderToReceiverQueue]
      BY <1>1, <3>1, ReceiverHoldsNames
    <3>4. QED
      BY <1>1, <1>2, <3>2, <3>3 DEF Pending, NoQueue
  <2>3. QED
    BY <1>1, <2>1, <2>2 DEF TakeTurns
<1>4. sndKey[s] = r /\ Delivered(s, r)
  BY <1>1, <1>3 DEF SessionState
<1>5. Len(queues[q]) \in Nat \ {0} /\ Head(queues[q]) = queues[q][1]
  BY <1>1, <1>2, ReceiveEffect
<1>6. Len(rcvLog[r]) \in Nat /\ Len(rcvLog[r]) + 1 - 1 = Len(rcvLog[r])
  BY <1>1
<1>7. Head(queues[q]) = Periodic(Len(rcvLog[r]), r)
  <2>1. queues[q][1] = Periodic(Len(rcvLog[r]) + 1 - 1, r)
    BY <1>4, <1>5 DEF Delivered
  <2>2. QED
    BY <1>5, <1>6, <2>1
<1>8. rcvKey[r] = r
  BY <1>4 DEF IInv, KeyAgreement
<1>9. Printed(r, Periodic(Len(rcvLog[r]), r)) = {"succeeded"}
  BY DEF Printed, TagMatches, Periodic
<1>10. QED
  BY <1>1, <1>2, <1>3, <1>4, <1>7, <1>8, <1>9 DEF ReceivePeriodicMessage

LEMMA FrameReceived ==
  ASSUME CommonAssumption, IInv, SInv, NEW s \in Senders, NEW r \in Receivers,
         Session(s, r), ReceivePeriodicMessage(r), UNCHANGED sndVars
  PROVE  SessionState(s, r)'
<1> DEFINE q == rcvIn[r]
           n == Len(rcvLog[r])
<1>1. /\ SessionState(s, r) /\ MqTypeOK
      /\ rcvLog \in [Receivers -> Seq(LogEntry)]
      /\ sndIndex \in [Senders -> 0 .. kNumMessagesToSend]
  BY DEF IInv, TypeOK, SInv, SenderTypeOK, ReceiverTypeOK
<1>2. /\ MqReceive(q) /\ rcvPc' = rcvPc /\ rcvIn' = rcvIn
      /\ sndPc' = sndPc /\ sndIndex' = sndIndex /\ sndKey' = sndKey
  BY DEF ReceivePeriodicMessage, sndVars
<1>3. /\ sndPc[s] \in SenderDelivers /\ Delivered(s, r) /\ q \in 1 .. Len(queues)
      /\ rcvLog'[r] = Append(rcvLog[r], [msg |-> Periodic(n, r), printed |-> {"succeeded"}])
  BY <1>1, FrameTaken
<1>4. /\ Len(queues[q]) \in Nat \ {0}
      /\ Len(queues'[q]) = Len(queues[q]) - 1
      /\ \A i \in 1 .. Len(queues'[q]) : queues'[q][i] = queues[q][i + 1]
  BY <1>1, <1>2, <1>3, ReceiveEffect
<1>5. n \in Nat /\ rcvLog[r] \in Seq(LogEntry)
  BY <1>1
<1>6. /\ Len(rcvLog'[r]) = n + 1
      /\ \A i \in 1 .. n : rcvLog'[r][i] = rcvLog[r][i]
      /\ rcvLog'[r][n + 1] = [msg |-> Periodic(n, r), printed |-> {"succeeded"}]
  <2>1. [msg |-> Periodic(n, r), printed |-> {"succeeded"}] \in LogEntry
    BY <1>5, FrameFits, CommonAssumption DEF LogEntry, Verdicts, Keys
  <2>2. QED
    BY <1>3, <1>5, <2>1
<1>7. /\ sndIndex[s] = n + Len(queues[q])
      /\ \A i \in 1 .. n :
           rcvLog[r][i] = [msg |-> Periodic(i - 1, r), printed |-> {"succeeded"}]
      /\ \A i \in 1 .. Len(queues[q]) : queues[q][i] = Periodic(n + i - 1, r)
  BY <1>3 DEF Delivered
<1>8. sndIndex'[s] = Len(rcvLog'[r]) + Len(queues'[q])
  <2>1. /\ sndIndex'[s] = n + Len(queues[q]) /\ Len(rcvLog'[r]) = n + 1
        /\ Len(queues'[q]) = Len(queues[q]) - 1
    BY <1>2, <1>4, <1>6, <1>7
  <2> HIDE DEF n
  <2>2. sndIndex'[s] = (n + 1) + Len(queues'[q])
    BY <1>4, <1>5, <2>1
  <2>3. QED
    BY <2>1, <2>2
<1>9. ASSUME NEW i \in 1 .. Len(rcvLog'[r])
      PROVE  rcvLog'[r][i] = [msg |-> Periodic(i - 1, r), printed |-> {"succeeded"}]
  <2>1. CASE i \in 1 .. n
    BY <1>6, <1>7, <2>1
  <2>2. CASE i = n + 1
    <3>1. i - 1 = n
      BY <1>5, <2>2
    <3>2. QED
      BY <1>6, <2>2, <3>1
  <2>3. QED
    BY <1>5, <1>6, <2>1, <2>2
<1>10. ASSUME NEW i \in 1 .. Len(queues'[q])
       PROVE  queues'[q][i] = Periodic(Len(rcvLog'[r]) + i - 1, r)
  <2>1. i \in Nat /\ i + 1 \in 1 .. Len(queues[q])
    BY <1>4
  <2>2. queues[q][i + 1] = Periodic(n + (i + 1) - 1, r)
    BY <1>7, <2>1
  <2>3. n + (i + 1) - 1 = Len(rcvLog'[r]) + i - 1
    BY <1>5, <1>6, <2>1
  <2>4. QED
    BY <1>4, <2>2, <2>3
<1>11. Delivered(s, r)'
  BY <1>2, <1>8, <1>9, <1>10 DEF Delivered
<1>12. sndPc[s] \notin SenderUnannounced /\ sndPc[s] # "receiveKey"
  BY <1>3 DEF SenderDelivers, SenderFinished, SenderUnannounced
<1>13. QED
  BY <1>1, <1>2, <1>3, <1>11, <1>12 DEF SessionState

(* The end of a sender *)
LEMMA EndingKeepsState ==
  ASSUME IInv, SInv, NEW s \in Senders, NEW r \in Receivers, Session(s, r),
         \/ SenderClose(s) \/ DismissSender(s)
         \/ UnlinkReceiverQueue(s) \/ UnlinkSenderQueue(s),
         UNCHANGED rcvVars
  PROVE  SessionState(s, r)'
<1>1. /\ sndPc[s] \in {"close", "enterExit", "unlinkIn", "unlinkOut"}
      /\ sndPc'[s] \in {"enterExit", "unlinkIn", "unlinkOut", "exited"}
      /\ sndKey' = sndKey /\ sndIndex' = sndIndex /\ queues' = queues
      /\ rcvPc' = rcvPc /\ rcvIn' = rcvIn /\ rcvLog' = rcvLog
  BY DEF SenderClose, DismissSender, UnlinkReceiverQueue, UnlinkSenderQueue, SenderGoes,
     MqUnlink, mqVars, rcvVars, IInv, TypeOK, SenderTypeOK
<1>2. /\ sndPc[s] \in SenderDelivers /\ sndPc'[s] \in SenderDelivers
      /\ sndPc'[s] \notin SenderUnannounced /\ sndPc'[s] # "receiveKey"
  BY <1>1 DEF SenderDelivers, SenderFinished, SenderUnannounced
<1>3. SessionState(s, r)
  BY DEF SInv
<1>4. QED
  BY <1>1, <1>2, <1>3 DEF SessionState, Delivered

-----------------------------------------------------------------------------
(* What a step does to other sessions: nothing *)

LEMMA OwnQueuesOnly ==
  ASSUME IInv, NEW s \in Senders, NEW r \in Receivers, Moves(s, r),
         NEW p \in 1 .. Len(queues), p \notin {sndOut[s], sndIn[s], rcvIn[r], rcvOut[r]}
  PROVE  queues'[p] = queues[p]
<1>1. /\ queues \in Seq(Seq(Message)) /\ \A n \in QueueNames : names[n] \in 0 .. Len(queues)
      /\ MqTypeOK
  BY DEF IInv, TypeOK, MqTypeOK, DescriptorsValid
<1>2. CASE queues' = queues
  BY <1>2
<1>3. CASE \E n \in QueueNames : MqOpen(n)
  BY <1>1, <1>3, OpenEffect
<1>4. CASE \E m : \E a \in {sndOut[s], sndIn[s], rcvIn[r], rcvOut[r]} :
             queues' = [queues EXCEPT ![a] = m]
  BY <1>1, <1>4
<1>5. QED
  <2>1. CASE SenderMoves(s)
    BY <1>2, <1>3, <1>4, <2>1
       DEF SenderMoves, SenderStep, SenderLaunch, SetupSenderCommunication,
       SetupReceiverCommunication, Generate, SendPublicKey, ReceiveSymmetricKey,
       SendPeriodicMessage, SenderClose, DismissSender, UnlinkReceiverQueue,
       UnlinkSenderQueue, MqSend, MqReceive, MqUnlink, mqVars, QueueNames
  <2>2. CASE ReceiverMoves(r)
    BY <1>2, <1>3, <1>4, <2>2
       DEF ReceiverMoves, ReceiverStep, ReceiverLaunch, OpenReceiverToSender,
       OpenSenderToReceiver, GetPublicKey, DeriveKey, SendSymmetricKey,
       ReceivePeriodicMessage, MqSend, MqReceive, mqVars, QueueNames
  <2>3. QED
    BY <2>1, <2>2 DEF Moves

(* A session can only move beside another that is under way if its own      *)
(* sender has exited: then its receiver takes a frame.                     *)
LEMMA OnlyLateReceives ==
  ASSUME OneAtATime, IInv, SInv, TakeTurns', NEW s \in Senders, NEW r \in Receivers,
         Session(s, r), Moves(s, r), OthersStill(s, r),
         NEW t \in Senders, NEW q \in Receivers, Session(t, q), t # s,
         Begun(t, q), sndPc[t] # "exited"
  PROVE  sndPc[s] = "exited" /\ ReceivePeriodicMessage(r) /\ UNCHANGED sndVars
<1>1. /\ q # r /\ TakeTurns /\ NamesCurrent /\ SessionState(s, r)
      /\ Begun(t, q)' /\ sndPc'[t] # "exited"
  BY SessionsDistinct DEF OthersStill, Begun, SInv
<1>2. Begun(s, r)'
  BY <1>1, SenderTurns, ReceiverTurns DEF Moves, Begun
<1>3. sndPc'[s] = "exited"
  BY <1>1, <1>2, OthersOverNext
<1>4. CASE SenderMoves(s) /\ UNCHANGED rcvVars
  <2>1. sndPc[s] = "unlinkOut"
    BY <1>3, <1>4
       DEF SenderMoves, SenderStep, SenderLaunch, SetupSenderCommunication,
       SetupReceiverCommunication, Generate, SendPublicKey, ReceiveSymmetricKey,
       SendPeriodicMessage, SenderClose, DismissSender, UnlinkReceiverQueue,
       UnlinkSenderQueue, SenderGoes, AfterFrame, IInv, TypeOK, SenderTypeOK
  <2>2. Begun(s, r)
    BY <2>1 DEF Begun
  <2>3. QED
    BY <1>1, <2>1, <2>2, OthersOver
<1>5. CASE ReceiverMoves(r) /\ UNCHANGED sndVars
  <2>1. sndPc[s] = "exited"
    BY <1>3, <1>5 DEF sndVars
  <2>2. rcvPc[r] = "periodic"
    BY <1>1, <2>1 DEF SessionState, SenderDelivers, SenderFinished
  <2>3. QED
    BY <1>5, <2>1, <2>2
       DEF ReceiverMoves, ReceiverStep, ReceiverLaunch, OpenReceiverToSender,
       OpenSenderToReceiver, GetPublicKey, DeriveKey, SendSymmetricKey, ReceiverGoes
<1>6. QED
  BY <1>4, <1>5 DEF Moves

LEMMA OtherSessionsKept ==
  ASSUME OneAtATime, IInv, SInv, TakeTurns', NEW s \in Senders, NEW r \in Receivers,
         Session(s, r), Moves(s, r), OthersStill(s, r),
         NEW t \in Senders, NEW q \in Receivers, Session(t, q), t # s
  PROVE  SessionState(t, q)'
<1>1. /\ NamesCurrent /\ ReadersApart /\ SessionState(t, q) /\ SessionState(s, r)
      /\ TakeTurns /\ MqTypeOK
  BY DEF SInv, IInv, TypeOK
<1>2. /\ q # r /\ sndPc'[t] = sndPc[t] /\ sndKey'[t] = sndKey[t]
      /\ sndIndex'[t] = sndIndex[t] /\ rcvPc'[q] = rcvPc[q] /\ rcvIn'[q] = rcvIn[q]
      /\ rcvPub'[q] = rcvPub[q] /\ rcvLog'[q] = rcvLog[q]
  BY SessionsDistinct DEF OthersStill
<1>3. CASE ~Begun(t, q)
  BY <1>1, <1>2, <1>3 DEF SessionState, Begun, SenderDelivers, SenderFinished,
     SenderUnannounced
<1>4. sndPc[t] \in SenderDelivers => rcvPc[q] = "periodic" /\ rcvIn[q] \in 1 .. Len(queues)
  BY <1>1, ReceiverHoldsNames DEF SessionState
<1>5. CASE sndPc[t] = "exited"
  <2>1. sndPc[t] \in SenderDelivers /\ sndPc[t] \notin SenderUnannounced
    BY <1>5 DEF SenderDelivers, SenderFinished, SenderUnannounced
  <2>2. rcvIn[q] # sndOut[s]
    BY <1>1, <1>4, <1>5, <2>1 DEF ReadersApart, NamesCurrent, NoQueue
  <2>3. rcvIn[q] # sndIn[s] /\ rcvIn[q] # rcvOut[r]
    BY <1>4, <2>1 DEF IInv, ChannelsSeparate, Forward, Reply
  <2>4. rcvIn[q] # rcvIn[r]
    BY <1>1, <1>2, <1>4, <2>1 DEF ReadersApart, NoQueue
  <2>5. queues'[rcvIn[q]] = queues[rcvIn[q]]
    BY <1>4, <2>1, <2>2, <2>3, <2>4, OwnQueuesOnly
  <2>6. Delivered(t, q)'
    BY <1>1, <1>2, <2>1, <2>5 DEF SessionState, Delivered
  <2>7. QED
    BY <1>1, <1>2, <1>5, <2>1, <2>6 DEF SessionState
<1>6. CASE Begun(t, q) /\ sndPc[t] # "exited"
  <2>1. sndPc[s] = "exited" /\ ReceivePeriodicMessage(r)
    BY <1>6, OnlyLateReceives
  <2>2. rcvIn[r] \in 1 .. Len(queues) /\ MqReceive(rcvIn[r])
    BY <1>1, <2>1, ReceiverHoldsNames DEF ReceivePeriodicMessage
  <2>3. names' = names /\ \A p \in 1 .. Len(queues) : p # rcvIn[r] => queues'[p] = queues[p]
    BY <1>1, <2>2, ReceiveEffect
  <2>4. \A n \in QueueNames : names[n] # rcvIn[r]
    <3>1. names[kSenderToReceiverQueue] # rcvIn[r]
      BY <1>1, <2>1 DEF ReadersApart
    <3>2. names[kReceiverToSenderQueue] # rcvIn[r]
      BY <2>2 DEF IInv, ChannelsSeparate, Forward, Reply
    <3>3. QED
      BY <3>1, <3>2 DEF QueueNames
  <2>5. \A n \in QueueNames : Pending(n)' = Pending(n)
    <3> SUFFICES ASSUME NEW n \in QueueNames PROVE Pending(n)' = Pending(n)
      OBVIOUS
    <3>1. names[n] \in 0 .. Len(queues) /\ Len(queues) \in Nat
      BY <1>1 DEF IInv, DescriptorsValid, MqTypeOK
    <3>2. CASE names[n] = NoQueue
      BY <2>3, <3>2 DEF Pending
    <3>3. CASE names[n] # NoQueue
      <4>1. names[n] \in 1 .. Len(queues)
        BY <3>1, <3>3 DEF NoQueue
      <4>2. QED
        BY <2>3, <2>4, <3>3, <4>1 DEF Pending
    <3>4. QED
      BY <3>2, <3>3
  <2>6. sndPc[t] \in SenderDelivers => queues'[rcvIn[q]] = queues[rcvIn[q]]
    BY <1>1, <1>2, <1>4, <2>2, <2>3 DEF ReadersApart, NoQueue
  <2>7. sndPc[t] \in SenderDelivers => Delivered(t, q)'
    BY <1>1, <1>2, <2>6 DEF SessionState, Delivered
  <2>8. QED
    BY <1>1, <1>2, <1>6, <2>5, <2>7 DEF SessionState, QueueNames
<1>7. QED
  BY <1>3, <1>5, <1>6

-----------------------------------------------------------------------------
(* The invariant *)

LEMMA OwnSessionKept ==
  ASSUME CommonAssumption, OneAtATime, IInv, SInv, TakeTurns',
         NEW s \in Senders, NEW r \in Receivers,
         Session(s, r), Moves(s, r), OthersStill(s, r)
  PROVE  SessionState(s, r)'
<1>1. CASE SenderMoves(s) /\ UNCHANGED rcvVars
  BY <1>1, SenderSetupKeepsState, PublicKeySent, SymmetricKeyTaken, FrameSent,
     EndingKeepsState DEF SenderMoves, SenderStep, SenderSetup
<1>2. CASE ReceiverMoves(r) /\ UNCHANGED sndVars
  BY <1>2, ReceiverSetupKeepsState, PublicKeyTaken, KeyDerived, SymmetricKeySent,
     FrameReceived DEF ReceiverMoves, ReceiverStep, ReceiverSetup
<1>3. QED
  BY <1>1, <1>2 DEF Moves

LEMMA SessionsInitially == ASSUME CommonAssumption, Init PROVE SInv
<1> USE DEF Init, MqInit, SenderInit, ReceiverInit, NoQueue
<1>1. TakeTurns
  BY DEF TakeTurns, SenderUnannounced, ReceiverUnpaired
<1>2. NamesCurrent /\ ReadersApart
  BY DEF NamesCurrent, ReadersApart, QueueNames, kSenderToReceiverQueue,
     kReceiverToSenderQueue
<1>3. \A s \in Senders, r \in Receivers : SessionState(s, r)
  BY DEF SessionState, SenderUnannounced, SenderDelivers, SenderFinished,
     ReceiverUnpaired, Begun
<1>4. QED
  BY <1>1, <1>2, <1>3 DEF SInv

LEMMA SessionsUnchanged == ASSUME SInv, UNCHANGED vars PROVE SInv'
<1> USE DEF vars, mqVars, sndVars, rcvVars, SInv
<1>1. TakeTurns' /\ ReadersApart'
  BY DEF TakeTurns, ReadersApart, Session
<1>2. NamesCurrent'
  BY DEF NamesCurrent, Session, Begun
<1>3. ASSUME NEW s \in Senders, NEW r \in Receivers, Session(s, r)
      PROVE  SessionState(s, r)'
  <2>1. \A n \in QueueNames : Pending(n)' = Pending(n)
    BY DEF Pending
  <2>2. Delivered(s, r)' = Delivered(s, r) /\ Begun(s, r)' = Begun(s, r)
    BY DEF Delivered, Begun
  <2>3. QED
    BY <1>3, <2>1, <2>2 DEF SessionState, QueueNames
<1>4. QED
  BY <1>1, <1>2, <1>3 DEF Session

LEMMA SessionsKept ==
  ASSUME CommonAssumption, SecureCommAssumption, OneAtATime, IInv, SInv, Next, Undisturbed'
  PROVE  SInv'
<1>1. TakeTurns /\ NamesCurrent /\ TypeOK
  BY DEF SInv, IInv
<1>2. PICK s \in Senders, r \in Receivers :
        Session(s, r) /\ Moves(s, r) /\ OthersStill(s, r)
  BY <1>1, SessionMoves
<1>3. TakeTurns'
  BY <1>1, <1>2, TurnsKept DEF SInv
<1>4. NamesCurrent' /\ ReadersApart'
  BY <1>2, <1>3, SenderKeepsNames, ReceiverKeepsNames DEF Moves
<1>5. ASSUME NEW t \in Senders, NEW q \in Receivers, Session(t, q)
      PROVE  SessionState(t, q)'
  <2>1. CASE t = s
    <3>1. q = r
      BY <1>2, <1>5, <2>1, SessionsDistinct
    <3>2. QED
      BY <1>2, <1>3, <2>1, <3>1, OwnSessionKept
  <2>2. CASE t # s
    BY <1>2, <1>3, <1>5, <2>2, OtherSessionsKept
  <2>3. QED
    BY <2>1, <2>2
<1>6. QED
  BY <1>3, <1>4, <1>5 DEF SInv, Session

(* Kills and failures are counted, up to their bounds.                      *)
LEMMA DisturbancesCounted ==
  ASSUME [Next]_vars
  PROVE  /\ kills' = kills \/ (kills' = kills + 1 /\ kills < MaxKills)
         /\ faults' = faults \/ (faults' = faults + 1 /\ faults < MaxFaults)
<1>1. CASE UNCHANGED vars
  BY <1>1 DEF vars, mqVars
<1>2. CASE Next
  <2>1. kills' = kills \/ (kills' = kills + 1 /\ kills < MaxKills)
    BY <1>2 DEF Next, Launch, Kill, SenderRuns, ReceiverRuns
  <2>2. faults' = faults \/ MqFails
    BY <1>2 DEF Next, Launch, Kill, SenderRuns, ReceiverRuns,
       SenderStep, ReceiverStep, SenderLaunch, ReceiverLaunch, SenderKilled, ReceiverKilled,
       SenderEnter, ReceiverEnter, SenderFault, ReceiverFault, mqVars,
       SetupSenderCommunication, SetupReceiverCommunication, SenderSetupFails,
       Generate, SendPublicKey, SendPublicKeyFails, DismissSendFailure,
       ReceiveSymmetricKey, ReceiveSymmetricKeyFails, DismissReceiveFailure,
       SendPeriodicMessage, SendPeriodicMessageFails, SenderClose,
       DismissSender, UnlinkReceiverQueue, UnlinkSenderQueue, OpenReceiverToSender,
       OpenSenderToReceiver, ReceiverSetupFails, GetPublicKey, GetPublicKeyFails,
       DeriveKey, SendSymmetricKey, SendSymmetricKeyFails, ReceivePeriodicMessage,
       ReceivePeriodicMessageFails, DismissReceiver,
       MqOpen, MqSend, MqReceive, MqUnlink
  <2>3. QED
    BY <2>1, <2>2 DEF MqFails
<1>3. QED
  BY <1>1, <1>2

LEMMA DisturbedForGood == ASSUME TypeOK, [Next]_vars, Undisturbed' PROVE Undisturbed
BY DisturbancesCounted DEF TypeOK, MqTypeOK, Undisturbed

(* SInv: as long as nothing is killed and no call fails, sessions used one  *)
(* at a time take their turns, own both names while they last, and are as  *)
(* far as their sender is (the whole of both mains).                       *)
THEOREM SessionInvariant ==
  ASSUME OneAtATime PROVE Spec => [](Undisturbed => SInv)
<1>1. Init => SInv
  BY CommonAssumption, SessionsInitially
<1>2. IInv /\ (Undisturbed => SInv) /\ [Next]_vars => (Undisturbed => SInv)'
  <2> SUFFICES ASSUME IInv, Undisturbed => SInv, [Next]_vars, Undisturbed' PROVE SInv'
    OBVIOUS
  <2>1. SInv
    BY DisturbedForGood DEF IInv
  <2>2. QED
    BY <2>1, CommonAssumption, SecureCommAssumption, SessionsKept, SessionsUnchanged
<1>3. QED
  BY <1>1, <1>2, Invariant, PTL DEF Spec

-----------------------------------------------------------------------------
(* What follows from it *)

(* NoAbort: Botan never throws, as load_key finds the public key of the     *)
(* session's sender and decrypt the key of the session's receiver.         *)
THEOREM NothingThrows ==
  ASSUME OneAtATime PROVE Spec => [](Undisturbed => NoAbort)
<1>1. SInv => NoAbort
  BY DEF SInv, TakeTurns, NoAbort, SenderUnannounced, SenderDelivers, SenderFinished,
     ReceiverUnpaired, ReceiverPaired
<1>2. QED
  BY <1>1, SessionInvariant, PTL

LEMMA Joined ==
  ASSUME NEW S, NEW a \in Seq(S), NEW b \in Seq(S), NEW c \in Seq(S),
         Len(c) = Len(a) + Len(b),
         \A i \in 1 .. Len(a) : c[i] = a[i],
         \A i \in 1 .. Len(b) : c[Len(a) + i] = b[i]
  PROVE  a \o b = c
<1>1. a \o b \in Seq(S) /\ Len(a \o b) = Len(c)
  OBVIOUS
<1>2. ASSUME NEW i \in 1 .. Len(c) PROVE (a \o b)[i] = c[i]
  <2>1. CASE i <= Len(a)
    BY <2>1
  <2>2. CASE ~(i <= Len(a))
    <3>1. i - Len(a) \in 1 .. Len(b) /\ Len(a) + (i - Len(a)) = i
      BY <2>2
    <3>2. (a \o b)[i] = b[i - Len(a)]
      BY <2>2
    <3>3. QED
      BY <3>1, <3>2
  <2>3. QED
    BY <2>1, <2>2
<1>3. QED
  BY <1>1, <1>2, SMTT(30)

LEMMA DeliveredAll ==
  ASSUME CommonAssumption, TypeOK, NEW s \in Senders, NEW r \in Receivers,
         rcvIn[r] \in 1 .. Len(queues), Delivered(s, r)
  PROVE  /\ Taken(r) \o queues[rcvIn[r]] = FramesUnder(r, sndIndex[s])
         /\ \A i \in 1 .. Len(rcvLog[r]) : Verified(rcvLog[r][i])
<1> DEFINE q == queues[rcvIn[r]]
           n == Len(rcvLog[r])
<1>1. /\ q \in Seq(Message) /\ rcvLog[r] \in Seq(LogEntry) /\ n \in Nat /\ Len(q) \in Nat
      /\ sndIndex[s] \in Nat
  BY DEF TypeOK, MqTypeOK, ReceiverTypeOK, SenderTypeOK
<1>2. /\ sndIndex[s] = n + Len(q)
      /\ \A i \in 1 .. n :
           rcvLog[r][i] = [msg |-> Periodic(i - 1, r), printed |-> {"succeeded"}]
      /\ \A i \in 1 .. Len(q) : q[i] = Periodic(n + i - 1, r)
  BY DEF Delivered
<1>3. ASSUME NEW i \in 1 .. n
      PROVE  rcvLog[r][i].msg = Periodic(i - 1, r) /\ Verified(rcvLog[r][i])
  <2>1. rcvLog[r][i] = [msg |-> Periodic(i - 1, r), printed |-> {"succeeded"}]
    BY <1>2
  <2> HIDE DEF n
  <2>2. QED
    BY <2>1 DEF Verified
<1>4. Taken(r) \in Seq(Message) /\ Len(Taken(r)) = n
      /\ \A i \in 1 .. n : Taken(r)[i] = Periodic(i - 1, r)
  <2>1. ASSUME NEW i \in 1 .. n PROVE rcvLog[r][i].msg \in Message
    <3>1. rcvLog[r][i] \in LogEntry
      BY <1>1
    <3>2. QED
      BY <3>1 DEF LogEntry
  <2>2. QED
    BY <1>1, <1>3, <2>1 DEF Taken
<1>5. FramesUnder(r, sndIndex[s]) \in Seq(Message) /\ Len(FramesUnder(r, sndIndex[s])) = sndIndex[s]
      /\ \A i \in 1 .. sndIndex[s] : FramesUnder(r, sndIndex[s])[i] = Periodic(i - 1, r)
  <2>1. \A i \in 1 .. sndIndex[s] : Periodic(i - 1, r) \in Message
    BY <1>1, FrameFits DEF Keys
  <2>2. QED
    BY <1>1, <2>1 DEF FramesUnder
<1> HIDE DEF n, q
<1>6. \A i \in 1 .. n : i \in 1 .. sndIndex[s]
  BY <1>1, <1>2
<1>7. ASSUME NEW i \in 1 .. Len(q)
      PROVE  FramesUnder(r, sndIndex[s])[n + i] = q[i]
  <2>1. n + i \in 1 .. sndIndex[s]
    BY <1>1, <1>2
  <2>2. q[i] = Periodic(n + i - 1, r)
    BY <1>2
  <2>3. PICK j \in 1 .. sndIndex[s] : j = n + i
    BY <2>1
  <2>4. FramesUnder(r, sndIndex[s])[j] = Periodic(j - 1, r)
    BY <1>5
  <2>5. FramesUnder(r, sndIndex[s])[j] = q[i]
    <3>1. j - 1 = n + i - 1
      <4>1. j = n + i
        BY <2>3
      <4>2. QED
        BY <1>1, <4>1
    <3>2. Periodic(j - 1, r) = Periodic(n + i - 1, r)
      BY <3>1, Zenon
    <3>3. QED
      BY <2>2, <2>4, <3>2, Zenon
  <2>6. QED
    BY <2>3, <2>5, Zenon
<1>8. Taken(r) \o q = FramesUnder(r, sndIndex[s])
  <2>1. Len(FramesUnder(r, sndIndex[s])) = Len(Taken(r)) + Len(q)
    BY <1>1, <1>2, <1>4, <1>5
  <2>2. \A i \in 1 .. Len(Taken(r)) : FramesUnder(r, sndIndex[s])[i] = Taken(r)[i]
    BY <1>4, <1>5, <1>6
  <2>3. \A i \in 1 .. Len(q) : FramesUnder(r, sndIndex[s])[Len(Taken(r)) + i] = q[i]
    BY <1>4, <1>7
  <2>4. QED
    BY <1>1, <1>4, <1>5, <2>1, <2>2, <2>3, Joined
<1>9. QED
  BY <1>3, <1>8 DEF q, n

(* NoFrameLost: what a receiver has taken and what waits for it are all the *)
(* frames its sender has sent, in order, before and after the sender closes *)
(* and unlinks the queue (~MqUnlinker), whatever other sessions do.        *)
THEOREM FramesAllDelivered ==
  ASSUME OneAtATime PROVE Spec => [](Undisturbed => NoFrameLost)
<1>1. IInv /\ SInv => NoFrameLost
  <2> SUFFICES ASSUME IInv, SInv, NEW r \in Receivers, NEW s, s = rcvPub[r],
                      s # None, rcvPc[r] = "periodic"
               PROVE  IF sndKey[s] = r
                        THEN /\ Taken(r) \o queues[rcvIn[r]] = FramesUnder(r, sndIndex[s])
                             /\ \A i \in 1 .. Len(rcvLog[r]) : Verified(rcvLog[r][i])
                        ELSE rcvLog[r] = <<>> /\ sndIndex[s] = 0
    BY DEF NoFrameLost
  <2>1. s \in Senders /\ TypeOK /\ TakeTurns /\ NamesCurrent
    BY DEF IInv, TypeOK, ReceiverTypeOK, SInv
  <2>2. PICK t \in Senders : Session(t, r)
    BY DEF OneAtATime
  <2>3. SessionState(t, r) /\ rcvIn[r] \in 1 .. Len(queues)
    BY <2>1, <2>2, ReceiverHoldsNames DEF SInv
  <2>4. CASE sndPc[t] = "receiveKey"
    <3>1. s = t /\ sndIndex[t] = 0 /\ rcvLog[r] = <<>>
      BY <2>3, <2>4 DEF SessionState, ReceiverPaired, SenderDelivers, SenderFinished
    <3>2. sndKey[t] = t
      BY <2>4 DEF IInv, KeyedBeforeUse
    <3>3. sndKey[s] # r
      BY <3>1, <3>2, CommonAssumption
    <3>4. QED
      BY <3>1, <3>3
  <2>5. CASE sndPc[t] \in SenderDelivers
    <3>1. sndKey[t] = r /\ Delivered(t, r)
      BY <2>3, <2>5 DEF SessionState
    <3>2. s = t
      BY <3>1 DEF IInv, KeyAgreement
    <3>3. QED
      BY <2>1, <2>3, <3>1, <3>2, CommonAssumption, DeliveredAll
  <2>6. sndPc[t] \notin SenderUnannounced
    BY <2>3 DEF SessionState, ReceiverUnpaired
  <2>7. QED
    BY <2>1, <2>4, <2>5, <2>6 DEF TakeTurns
<1>2. QED
  BY <1>1, Invariant, SessionInvariant, PTL

(* NoMutualWait: a sender is only blocked in mq_receive or mq_send while    *)
(* the receiver of its session still has a step to make that ends this.    *)
THEOREM NeverBothWait ==
  ASSUME OneAtATime PROVE Spec => [](Undisturbed => NoMutualWait)
<1>1. IInv /\ SInv => NoMutualWait
  <2> SUFFICES ASSUME IInv, SInv, NEW s \in Senders, SenderWaits(s)
               PROVE  \E r \in Receivers :
                        /\ Session(s, r)
                        /\ rcvPc[r] \in ReceiverPcs \ {"exited", "aborted", "killed"}
                        /\ ~ReceiverWaits(r)
    BY DEF NoMutualWait
  <2>1. PICK r \in Receivers : Session(s, r)
    BY DEF OneAtATime
  <2>2. /\ TakeTurns /\ NamesCurrent /\ SessionState(s, r)
        /\ rcvPc[r] \in ReceiverPcs \ {"exited", "aborted", "killed"}
        /\ kMaxMessages \in Nat \ {0}
    BY <2>1, CommonAssumption DEF SInv, TakeTurns, ReceiverUnpaired, ReceiverPaired, ReceiverPcs,
       ReceiverGone
  <2>3. /\ sndPc[s] \in {"sendPublicKey", "receiveKey", "periodic"}
        /\ sndOut[s] = names[kSenderToReceiverQueue]
        /\ sndIn[s] = names[kReceiverToSenderQueue]
        /\ sndOut[s] # NoQueue /\ sndIn[s] # NoQueue
    BY <2>2, SenderHoldsNames DEF SenderWaits, NoQueue
  <2>4. SUFFICES ASSUME ReceiverWaits(r) PROVE FALSE
    BY <2>1, <2>2
  <2>5. CASE sndPc[s] = "sendPublicKey"
    <3>1. queues[sndOut[s]] = <<>>
      BY <2>2, <2>3, <2>5 DEF SessionState, SenderUnannounced, Begun, Pending, QueueNames
    <3>2. QED
      BY <2>2, <2>5, <3>1 DEF SenderWaits
  <2>6. CASE sndPc[s] = "receiveKey"
    <3>1. queues[sndIn[s]] = <<>>
      BY <2>6 DEF SenderWaits
    <3>2. rcvPc[r] # "periodic"
      <4>1. SUFFICES ASSUME rcvPc[r] = "periodic" PROVE FALSE
        OBVIOUS
      <4>2. queues[sndIn[s]] = <<SymKey(s, r)>>
        BY <2>2, <2>3, <2>6, <4>1 DEF SessionState, Pending
      <4>3. Len(<<SymKey(s, r)>>) # Len(<<>>)
        OBVIOUS
      <4>4. QED
        BY <3>1, <4>2, <4>3
    <3>3. CASE rcvPc[r] = "getPublicKey"
      <4>1. rcvIn[r] = sndOut[s] /\ queues[rcvIn[r]] = <<>>
        BY <2>1, <2>2, <2>3, <2>4, <2>6, <3>3, ReceiverHoldsNames DEF ReceiverWaits
      <4>2. queues[sndOut[s]] = <<PublicKey(s)>>
        BY <2>2, <2>3, <2>6, <3>3 DEF SessionState, Pending, ReceiverUnpaired
      <4>3. Len(<<PublicKey(s)>>) # Len(<<>>)
        OBVIOUS
      <4>4. QED
        BY <4>1, <4>2, <4>3
    <3>4. CASE rcvPc[r] = "sendKey"
      <4>1. rcvOut[r] = sndIn[s] /\ Len(queues[rcvOut[r]]) = kMaxMessages
        BY <2>1, <2>2, <2>3, <2>4, <2>6, <3>4, ReceiverHoldsNames DEF ReceiverWaits
      <4>2. QED
        BY <2>2, <3>1, <4>1
    <3>5. QED
      BY <2>4, <3>2, <3>3, <3>4 DEF ReceiverWaits
  <2>7. CASE sndPc[s] = "periodic"
    <3>1. Len(queues[sndOut[s]]) = kMaxMessages
      BY <2>7 DEF SenderWaits
    <3>2. rcvPc[r] = "periodic"
      BY <2>2, <2>7 DEF SessionState, SenderDelivers
    <3>3. rcvIn[r] = sndOut[s] /\ queues[rcvIn[r]] = <<>>
      BY <2>1, <2>2, <2>3, <2>4, <2>7, <3>2, ReceiverHoldsNames DEF ReceiverWaits
    <3>4. QED
      BY <2>2, <3>1, <3>3
  <2>8. QED
    BY <2>3, <2>5, <2>6, <2>7
<1>2. QED
  BY <1>1, Invariant, SessionInvariant, PTL

-----------------------------------------------------------------------------
(* Every session is a channel of its own *)

(* A log of the first frames, all of them matching, shows their counters.   *)
LEMMA CountersShown ==
  ASSUME NEW log, NEW n \in Nat, NEW r \in Receivers, Len(log) = n,
         \A i \in 1 .. n : log[i] = [msg |-> Periodic(i - 1, r), printed |-> {"succeeded"}]
  PROVE  [i \in 1 .. Len(log) |-> IF Verified(log[i]) THEN log[i].msg.ctr ELSE None]
           = [i \in 1 .. n |-> CounterByte(i - 1)]
<1>1. ASSUME NEW i \in 1 .. n
      PROVE  (IF Verified(log[i]) THEN log[i].msg.ctr ELSE None) = CounterByte(i - 1)
  BY DEF Verified, Periodic
<1>2. QED
  BY <1>1

LEMMA CountersAppended ==
  ASSUME NEW n \in Nat, n < kByteModulo
  PROVE  /\ Len([i \in 1 .. n |-> CounterByte(i - 1)]) = n
         /\ [i \in 1 .. n + 1 |-> CounterByte(i - 1)]
              = Append([i \in 1 .. n |-> CounterByte(i - 1)], n)
<1> DEFINE a == [i \in 1 .. n |-> CounterByte(i - 1)]
           b == [i \in 1 .. n + 1 |-> CounterByte(i - 1)]
<1>1. \A i \in 1 .. n + 1 : CounterByte(i - 1) \in Nat
  BY DEF CounterByte, kByteModulo
<1>2. a \in Seq(Nat) /\ Len(a) = n /\ b \in Seq(Nat) /\ Len(b) = n + 1
  BY <1>1
<1>3. CounterByte(n) = n
  BY DEF CounterByte, kByteModulo
<1>4. /\ Append(a, n) \in Seq(Nat) /\ Len(Append(a, n)) = n + 1
      /\ \A i \in 1 .. n : Append(a, n)[i] = a[i]
      /\ Append(a, n)[n + 1] = n
  BY <1>2
<1>5. ASSUME NEW i \in 1 .. n + 1 PROVE b[i] = Append(a, n)[i]
  <2>1. CASE i \in 1 .. n
    BY <1>4, <2>1
  <2>2. CASE i = n + 1
    BY <1>3, <1>4, <2>2
  <2>3. QED
    BY <2>1, <2>2
<1>6. QED
  BY <1>2, <1>4, <1>5

(* send_periodic_message: the queue holds what the receiver lags behind.    *)
LEMMA SendOnChannel ==
  ASSUME CommonAssumption, IInv, SInv, NEW s \in Senders, NEW r \in Receivers,
         Session(s, r), SendPeriodicMessage(s), UNCHANGED rcvVars
  PROVE  Channel(s, r)!Send
<1>1. /\ NamesCurrent /\ SessionState(s, r) /\ sndPc[s] = "periodic"
      /\ sndIndex[s] < kNumMessagesToSend
      /\ rcvLog \in [Receivers -> Seq(LogEntry)] /\ queues \in Seq(Seq(Message))
      /\ sndIndex \in [Senders -> 0 .. kNumMessagesToSend]
  BY DEF IInv, TypeOK, MqTypeOK, SenderTypeOK, ReceiverTypeOK, SInv, KeyedBeforeUse,
     SenderConnected, SendPeriodicMessage, SenderGoes
<1>2. rcvPc[r] = "periodic" /\ Delivered(s, r)
  BY <1>1 DEF SessionState, SenderDelivers
<1>3. sndOut[s] = rcvIn[r] /\ rcvIn[r] \in 1 .. Len(queues)
  BY <1>1, <1>2, SenderHoldsNames, ReceiverHoldsNames
<1>4. Len(queues[rcvIn[r]]) < kMaxMessages /\ sndIndex'[s] = sndIndex[s] + 1 /\ rcvLog' = rcvLog
  BY <1>1, <1>3 DEF SendPeriodicMessage, MqSend, rcvVars
<1> DEFINE n == Len(rcvLog[r])
<1>5. n \in Nat /\ Len(queues[rcvIn[r]]) \in Nat /\ sndIndex[s] \in Nat
  BY <1>1, <1>3
<1>6. Len(VerifiedCounters(r)) = n /\ VerifiedCounters(r)' = VerifiedCounters(r)
  BY <1>4, <1>5 DEF VerifiedCounters, Verified
<1>7. sndIndex[s] - n < kMaxMessages
  <2>1. sndIndex[s] = n + Len(queues[rcvIn[r]])
    BY <1>2 DEF Delivered
  <2> HIDE DEF n
  <2>2. QED
    BY <1>4, <1>5, <2>1, CommonAssumption
<1>8. QED
  BY <1>1, <1>4, <1>6, <1>7 DEF Channel!Send

(* receive_periodic_messages: the message taken is the next frame sent.     *)
LEMMA VerifyOnChannel ==
  ASSUME CommonAssumption, kNumMessagesToSend <= kByteModulo, IInv, SInv,
         NEW s \in Senders, NEW r \in Receivers,
         Session(s, r), ReceivePeriodicMessage(r), UNCHANGED sndVars
  PROVE  Channel(s, r)!Verify
<1> DEFINE n == Len(rcvLog[r])
<1>1. /\ Delivered(s, r) /\ rcvIn[r] \in 1 .. Len(queues) /\ queues[rcvIn[r]] # <<>>
      /\ rcvLog' = [rcvLog EXCEPT ![r] =
           Append(@, [msg |-> Periodic(n, r), printed |-> {"succeeded"}])]
  BY FrameTaken
<1>2. /\ rcvLog[r] \in Seq(LogEntry) /\ n \in Nat /\ rcvLog \in [Receivers -> Seq(LogEntry)]
      /\ queues \in Seq(Seq(Message)) /\ sndIndex[s] \in 0 .. kNumMessagesToSend
  BY DEF IInv, TypeOK, MqTypeOK, SenderTypeOK, ReceiverTypeOK
<1>3. Len(queues[rcvIn[r]]) \in Nat \ {0}
  BY <1>1, <1>2
<1>4. n < sndIndex[s] /\ n < kByteModulo
  <2>1. sndIndex[s] = n + Len(queues[rcvIn[r]])
    BY <1>1 DEF Delivered
  <2> HIDE DEF n
  <2>2. QED
    BY <1>2, <1>3, <2>1, CommonAssumption DEF kByteModulo
<1>5. /\ Len(rcvLog'[r]) = n + 1
      /\ \A i \in 1 .. n + 1 :
           rcvLog'[r][i] = [msg |-> Periodic(i - 1, r), printed |-> {"succeeded"}]
  <2>1. [msg |-> Periodic(n, r), printed |-> {"succeeded"}] \in LogEntry
    BY <1>2, FrameFits, CommonAssumption DEF LogEntry, Verdicts, Keys
  <2>2. /\ Len(rcvLog'[r]) = n + 1
        /\ \A i \in 1 .. n : rcvLog'[r][i] = rcvLog[r][i]
        /\ rcvLog'[r][n + 1] = [msg |-> Periodic(n, r), printed |-> {"succeeded"}]
    BY <1>1, <1>2, <2>1
  <2>3. \A i \in 1 .. n : rcvLog[r][i] = [msg |-> Periodic(i - 1, r), printed |-> {"succeeded"}]
    BY <1>1 DEF Delivered
  <2>4. ASSUME NEW i \in 1 .. n + 1
        PROVE  rcvLog'[r][i] = [msg |-> Periodic(i - 1, r), printed |-> {"succeeded"}]
    <3>1. CASE i \in 1 .. n
      BY <2>2, <2>3, <3>1
    <3>2. CASE i = n + 1
      <4>1. i - 1 = n
        BY <1>2, <3>2
      <4>2. QED
        BY <2>2, <3>2, <4>1
    <3>3. i \in 1 .. n \/ i = n + 1
      BY <1>2
    <3>4. QED
      BY <3>1, <3>2, <3>3, Zenon
  <2>5. QED
    BY <2>2, <2>4
<1>6. VerifiedCounters(r) = [i \in 1 .. n |-> CounterByte(i - 1)]
  BY <1>1, <1>2, CountersShown DEF VerifiedCounters, Delivered
<1>7. VerifiedCounters(r)' = [i \in 1 .. n + 1 |-> CounterByte(i - 1)]
  <2>1. VerifiedCounters(r)'
          = [i \in 1 .. Len(rcvLog'[r]) |->
               IF Verified(rcvLog'[r][i]) THEN rcvLog'[r][i].msg.ctr ELSE None]
    BY DEF VerifiedCounters, Verified
  <2>2. n + 1 \in Nat
    BY <1>2
  <2>3. QED
    BY <1>5, <2>1, <2>2, CountersShown
<1>8. /\ Len(VerifiedCounters(r)) = n
      /\ VerifiedCounters(r)' = Append(VerifiedCounters(r), Len(VerifiedCounters(r)))
  BY <1>2, <1>4, <1>6, <1>7, CountersAppended
<1>9. QED
  BY <1>4, <1>8 DEF Channel!Verify, sndVars

(* What makes no frame leaves both ends of the channel alone.               *)
LEMMA SenderStutters ==
  ASSUME TypeOK, NEW s \in Senders, NEW r \in Receivers,
         SenderMoves(s), ~SendPeriodicMessage(s), UNCHANGED rcvVars
  PROVE  sndIndex'[s] = sndIndex[s] /\ rcvLog'[r] = rcvLog[r]
BY DEF SenderMoves, SenderStep, SenderLaunch, SetupSenderCommunication,
   SetupReceiverCommunication, Generate, SendPublicKey, ReceiveSymmetricKey,
   SenderClose, DismissSender, UnlinkReceiverQueue, UnlinkSenderQueue, rcvVars

LEMMA ReceiverStutters ==
  ASSUME TypeOK, NEW s \in Senders, NEW r \in Receivers,
         ReceiverMoves(r), ~ReceivePeriodicMessage(r), UNCHANGED sndVars
  PROVE  sndIndex'[s] = sndIndex[s] /\ rcvLog'[r] = rcvLog[r]
BY DEF ReceiverMoves, ReceiverStep, ReceiverLaunch, OpenReceiverToSender,
   OpenSenderToReceiver, GetPublicKey, DeriveKey, SendSymmetricKey, sndVars

LEMMA ChannelStutters ==
  ASSUME NEW s \in Senders, NEW r \in Receivers,
         sndIndex'[s] = sndIndex[s], rcvLog'[r] = rcvLog[r]
  PROVE  UNCHANGED Channel(s, r)!vars
BY DEF Channel!vars, VerifiedCounters, Verified

LEMMA ChannelSteps ==
  ASSUME CommonAssumption, OneAtATime, kNumMessagesToSend <= kByteModulo,
         IInv, SInv, [Next]_vars, Undisturbed',
         NEW s \in Senders, NEW r \in Receivers, Session(s, r)
  PROVE  [Channel(s, r)!Next]_(Channel(s, r)!vars)
<1>1. CASE UNCHANGED vars
  BY <1>1, ChannelStutters DEF vars, sndVars, rcvVars
<1>2. CASE Next
  <2>1. TakeTurns /\ TypeOK
    BY DEF SInv, IInv
  <2>2. PICK t \in Senders, q \in Receivers :
          Session(t, q) /\ Moves(t, q) /\ OthersStill(t, q)
    BY <1>2, <2>1, SessionMoves
  <2>3. CASE t # s
    <3>1. q # r
      BY <2>2, <2>3, SessionsDistinct
    <3>2. sndIndex'[s] = sndIndex[s] /\ rcvLog'[r] = rcvLog[r]
      BY <2>2, <2>3, <3>1 DEF OthersStill
    <3>3. QED
      BY <3>2, ChannelStutters
  <2>4. CASE t = s
    <3>1. q = r
      BY <2>2, <2>4, SessionsDistinct
    <3>2. CASE SenderMoves(s) /\ UNCHANGED rcvVars
      <4>1. CASE SendPeriodicMessage(s)
        BY <3>2, <4>1, SendOnChannel DEF Channel!Next
      <4>2. CASE ~SendPeriodicMessage(s)
        BY <2>1, <3>2, <4>2, SenderStutters, ChannelStutters
      <4>3. QED
        BY <4>1, <4>2
    <3>3. CASE ReceiverMoves(r) /\ UNCHANGED sndVars
      <4>1. CASE ReceivePeriodicMessage(r)
        BY <3>3, <4>1, VerifyOnChannel DEF Channel!Next
      <4>2. CASE ~ReceivePeriodicMessage(r)
        BY <2>1, <3>3, <4>2, ReceiverStutters, ChannelStutters
      <4>3. QED
        BY <4>1, <4>2
    <3>4. QED
      BY <2>2, <2>4, <3>1, <3>2, <3>3 DEF Moves
  <2>5. QED
    BY <2>3, <2>4
<1>3. QED
  BY <1>1, <1>2

LEMMA ChannelStarts ==
  ASSUME CommonAssumption, Init, NEW s \in Senders, NEW r \in Receivers
  PROVE  Channel(s, r)!Init
BY DEF Init, SenderInit, ReceiverInit, Channel!Init, VerifiedCounters

(* PairsAreChannels: each session implements PeriodicChannel step by step,  *)
(* at the same time and independently of every other session, as long as   *)
(* nothing is killed or fails and the counter byte does not wrap           *)
(* (send_periodic_message and receive_periodic_messages).                  *)
THEOREM ChannelsImplemented ==
  ASSUME OneAtATime, kNumMessagesToSend <= kByteModulo
  PROVE  Spec => PairsAreChannels
<1>1. Init => \A s \in Senders, r \in Receivers : Session(s, r) => Channel(s, r)!Init
  BY CommonAssumption, ChannelStarts
<1>2. IInv /\ (Undisturbed => SInv) /\ [Next]_vars =>
        [Undisturbed' =>
           \A s \in Senders, r \in Receivers :
             Session(s, r) => [Channel(s, r)!Next]_(Channel(s, r)!vars)]_vars
  <2> SUFFICES ASSUME IInv, Undisturbed => SInv, [Next]_vars, Undisturbed',
                      NEW s \in Senders, NEW r \in Receivers, Session(s, r)
               PROVE  [Channel(s, r)!Next]_(Channel(s, r)!vars)
    OBVIOUS
  <2>1. SInv
    BY DisturbedForGood DEF IInv
  <2>2. QED
    BY <2>1, CommonAssumption, ChannelSteps
<1>3. QED
  BY <1>1, <1>2, Invariant, SessionInvariant, PTL DEF Spec, PairsAreChannels

(* Where nobody is ever killed and no call ever fails, each session is a    *)
(* PeriodicChannel for the whole of the behaviour.                         *)
COROLLARY CleanChannels ==
  ASSUME OneAtATime, kNumMessagesToSend <= kByteModulo, MaxKills = 0, MaxFaults = 0,
         NEW s \in Senders, NEW r \in Receivers, Session(s, r)
  PROVE  Spec => Channel(s, r)!SafeSpec
<1>1. Init => Channel(s, r)!Init
  BY CommonAssumption, ChannelStarts
<1>2. Init => Undisturbed
  BY DEF Init, MqInit, Undisturbed
<1>3. IInv /\ Undisturbed /\ [Next]_vars => Undisturbed'
  BY DisturbancesCounted DEF Undisturbed
<1>4. IInv /\ SInv /\ Undisturbed' /\ [Next]_vars
        => [Channel(s, r)!Next]_(Channel(s, r)!vars)
  BY CommonAssumption, ChannelSteps
<1>5. QED
  BY <1>1, <1>2, <1>3, <1>4, Invariant, SessionInvariant, PTL DEF Spec, Channel!SafeSpec
=============================================================================
