-------------------------- MODULE SecureCommProofs --------------------------
(***************************************************************************)
(* Theorems about SecureComm, for every set of processes, every queue      *)
(* capacity, every number of frames, and any number of kills and failing   *)
(* calls.                                                                  *)
(***************************************************************************)
EXTENDS SecureComm, TLAPS

-----------------------------------------------------------------------------
(* What each queue operation does to the queue objects *)

LEMMA OpenEffect ==
  ASSUME MqTypeOK, NEW n \in QueueNames, names[n] \in 0 .. Len(queues), MqOpen(n)
  PROVE  /\ MqTypeOK'
         /\ Opened(n) \in 1 .. Len(queues')
         /\ Len(queues') = Len(queues) \/ Len(queues') = Len(queues) + 1
         /\ \A q \in 1 .. Len(queues) : queues'[q] = queues[q]
         /\ \A q \in 1 .. Len(queues') : q \notin 1 .. Len(queues) =>
              q = Len(queues) + 1 /\ q = Opened(n) /\ queues'[q] = <<>>
         /\ Opened(n) \in 1 .. Len(queues) => Opened(n) = names[n]
         /\ names' = [names EXCEPT ![n] = Opened(n)]
<1>1. queues \in Seq(Seq(Message)) /\ names \in [QueueNames -> Nat]
  BY DEF MqTypeOK
<1>2. <<>> \in Seq(Message)
  OBVIOUS
<1>3. CASE names[n] = NoQueue
  <2>1. queues' = Append(queues, <<>>) /\ Opened(n) = Len(queues) + 1
    BY <1>3 DEF MqOpen, Opened
  <2>2. QED
    BY <1>1, <1>2, <2>1 DEF MqOpen, MqTypeOK
<1>4. CASE names[n] # NoQueue
  <2>1. queues' = queues /\ Opened(n) = names[n]
    BY <1>4 DEF MqOpen, Opened
  <2>2. QED
    BY <1>1, <1>4, <2>1 DEF MqOpen, MqTypeOK, NoQueue
<1>5. QED
  BY <1>3, <1>4

LEMMA SendEffect ==
  ASSUME MqTypeOK, NEW q \in 1 .. Len(queues), NEW m \in Message, MqSend(q, m)
  PROVE  /\ MqTypeOK'
         /\ Len(queues') = Len(queues)
         /\ names' = names
         /\ \A p \in 1 .. Len(queues) : p # q => queues'[p] = queues[p]
         /\ Len(queues'[q]) = Len(queues[q]) + 1
         /\ \A i \in 1 .. Len(queues[q]) : queues'[q][i] = queues[q][i]
         /\ queues'[q][Len(queues[q]) + 1] = m
<1>1. queues \in Seq(Seq(Message)) /\ queues[q] \in Seq(Message)
  BY DEF MqTypeOK
<1>2. queues' = [queues EXCEPT ![q] = Append(queues[q], m)]
  BY DEF MqSend
<1>3. Append(queues[q], m) \in Seq(Message)
  BY <1>1
<1>4. QED
  BY <1>1, <1>2, <1>3 DEF MqSend, MqTypeOK

LEMMA ReceiveEffect ==
  ASSUME MqTypeOK, NEW q \in 1 .. Len(queues), MqReceive(q)
  PROVE  /\ MqTypeOK'
         /\ Len(queues') = Len(queues)
         /\ names' = names
         /\ \A p \in 1 .. Len(queues) : p # q => queues'[p] = queues[p]
         /\ Len(queues[q]) \in Nat \ {0}
         /\ Head(queues[q]) = queues[q][1]
         /\ Head(queues[q]) \in Message
         /\ Len(queues'[q]) = Len(queues[q]) - 1
         /\ \A i \in 1 .. Len(queues'[q]) : queues'[q][i] = queues[q][i + 1]
<1>1. queues \in Seq(Seq(Message)) /\ queues[q] \in Seq(Message)
  BY DEF MqTypeOK
<1>2. queues[q] # <<>> /\ queues' = [queues EXCEPT ![q] = Tail(queues[q])]
  BY DEF MqReceive
<1>3. Tail(queues[q]) \in Seq(Message)
  BY <1>1, <1>2
<1>4. QED
  BY <1>1, <1>2, <1>3 DEF MqReceive, MqTypeOK

-----------------------------------------------------------------------------
(* How the global parts of the invariant survive each kind of step.  Most   *)
(* steps only drop references to queue objects, and no step touches a key  *)
(* that a receiver has already derived.                                    *)

ReferencesShrink ==
  /\ \A n \in QueueNames : names'[n] \in {names[n], NoQueue}
  /\ \A s \in Senders : /\ sndOut'[s] \in {sndOut[s], NoQueue}
                        /\ sndIn'[s] \in {sndIn[s], NoQueue}
  /\ \A r \in Receivers : /\ rcvIn'[r] \in {rcvIn[r], NoQueue}
                          /\ rcvOut'[r] \in {rcvOut[r], NoQueue}

KeysStable ==
  \A r \in Receivers :
    rcvKey[r] # None => rcvKey'[r] = rcvKey[r] /\ rcvPub'[r] = rcvPub[r]

LEMMA ShrinkForward ==
  ASSUME ReferencesShrink, NEW q \in Nat \ {0}
  PROVE  (Forward(q)' => Forward(q)) /\ (Reply(q)' => Reply(q))
BY DEF ReferencesShrink, Forward, Reply, NoQueue, QueueNames

(* A step that leaves the objects alone. *)
LEMMA LocalKeepsChannels ==
  ASSUME MqTypeOK, ChannelsSeparate, ReferencesShrink, queues' = queues
  PROVE  ChannelsSeparate'
<1>1. \A q \in 1 .. Len(queues) : q \in Nat \ {0}
  BY DEF MqTypeOK
<1>2. QED
  BY <1>1, ShrinkForward DEF ChannelsSeparate

LEMMA ReceiveKeepsChannels ==
  ASSUME MqTypeOK, ChannelsSeparate, ReferencesShrink,
         NEW p \in 1 .. Len(queues), MqReceive(p)
  PROVE  ChannelsSeparate'
<1>1. SUFFICES ASSUME NEW q \in 1 .. Len(queues')
               PROVE  /\ ~(Forward(q)' /\ Reply(q)')
                      /\ Forward(q)' => \A i \in 1 .. Len(queues'[q]) :
                           queues'[q][i] \in PublicKeyMsg \cup PeriodicMsg
                      /\ Reply(q)' => \A i \in 1 .. Len(queues'[q]) :
                           queues'[q][i] \in SymKeyMsg
  BY DEF ChannelsSeparate
<1>2. q \in 1 .. Len(queues) /\ q \in Nat \ {0}
  BY ReceiveEffect DEF MqTypeOK
<1>3. (Forward(q)' => Forward(q)) /\ (Reply(q)' => Reply(q))
  BY <1>2, ShrinkForward
<1>4. queues[q] \in Seq(Message)
  BY <1>2 DEF MqTypeOK
<1>5. \A i \in 1 .. Len(queues'[q]) :
        \E j \in 1 .. Len(queues[q]) : queues'[q][i] = queues[q][j]
  <2>1. CASE q = p
    <3>1. \A i \in 1 .. Len(queues'[q]) :
            i + 1 \in 1 .. Len(queues[q]) /\ queues'[q][i] = queues[q][i + 1]
      BY <1>4, <2>1, ReceiveEffect
    <3>2. QED
      BY <3>1
  <2>2. CASE q # p
    BY <1>2, <2>2, ReceiveEffect
  <2>3. QED
    BY <2>1, <2>2
<1>6. QED
  BY <1>2, <1>3, <1>5 DEF ChannelsSeparate

(* Sending a message of the queue's own direction. *)
LEMMA SendKeepsChannels ==
  ASSUME MqTypeOK, ChannelsSeparate, ReferencesShrink,
         NEW p \in 1 .. Len(queues), NEW m \in Message, MqSend(p, m),
         \/ Forward(p) /\ m \in PublicKeyMsg \cup PeriodicMsg
         \/ Reply(p) /\ m \in SymKeyMsg
  PROVE  ChannelsSeparate'
<1>1. SUFFICES ASSUME NEW q \in 1 .. Len(queues')
               PROVE  /\ ~(Forward(q)' /\ Reply(q)')
                      /\ Forward(q)' => \A i \in 1 .. Len(queues'[q]) :
                           queues'[q][i] \in PublicKeyMsg \cup PeriodicMsg
                      /\ Reply(q)' => \A i \in 1 .. Len(queues'[q]) :
                           queues'[q][i] \in SymKeyMsg
  BY DEF ChannelsSeparate
<1>2. q \in 1 .. Len(queues) /\ q \in Nat \ {0}
  BY SendEffect DEF MqTypeOK
<1>3. (Forward(q)' => Forward(q)) /\ (Reply(q)' => Reply(q))
  BY <1>2, ShrinkForward
<1>4. queues[q] \in Seq(Message)
  BY <1>2 DEF MqTypeOK
<1>5. CASE q # p
  <2>1. queues'[q] = queues[q]
    BY <1>2, <1>5, SendEffect
  <2>2. QED
    BY <1>2, <1>3, <2>1 DEF ChannelsSeparate
<1>6. CASE q = p
  <2>1. \A i \in 1 .. Len(queues'[q]) :
          \/ i \in 1 .. Len(queues[q]) /\ queues'[q][i] = queues[q][i]
          \/ queues'[q][i] = m
    BY <1>4, <1>6, SendEffect
  <2>2. QED
    BY <1>2, <1>3, <1>6, <2>1 DEF ChannelsSeparate
<1>7. QED
  BY <1>5, <1>6

LEMMA LocalKeepsWrapped ==
  ASSUME CommonAssumption, MqTypeOK, WrappedKeysGenuine, KeysStable, queues' = queues
  PROVE  WrappedKeysGenuine'
BY DEF WrappedKeysGenuine, KeysStable, CommonAssumption, SymKeyMsg

LEMMA ReceiveKeepsWrapped ==
  ASSUME CommonAssumption, MqTypeOK, WrappedKeysGenuine, KeysStable,
         NEW p \in 1 .. Len(queues), MqReceive(p)
  PROVE  WrappedKeysGenuine'
<1>1. SUFFICES ASSUME NEW q \in 1 .. Len(queues'), NEW i \in 1 .. Len(queues'[q]),
                      queues'[q][i] \in SymKeyMsg
               PROVE  /\ rcvKey'[queues'[q][i].key] = queues'[q][i].key
                      /\ rcvPub'[queues'[q][i].key] = queues'[q][i].to
  BY DEF WrappedKeysGenuine
<1>2. q \in 1 .. Len(queues)
  BY ReceiveEffect
<1>3. queues[q] \in Seq(Message)
  BY <1>2 DEF MqTypeOK
<1>4. PICK j \in 1 .. Len(queues[q]) : queues'[q][i] = queues[q][j]
  <2>1. CASE q = p
    <3>1. i + 1 \in 1 .. Len(queues[q]) /\ queues'[q][i] = queues[q][i + 1]
      BY <1>1, <1>3, <2>1, ReceiveEffect
    <3>2. QED
      BY <3>1
  <2>2. CASE q # p
    BY <1>1, <1>2, <2>2, ReceiveEffect
  <2>3. QED
    BY <2>1, <2>2
<1>5. QED
  BY <1>1, <1>2, <1>4 DEF WrappedKeysGenuine, KeysStable, CommonAssumption, SymKeyMsg

LEMMA SendKeepsWrapped ==
  ASSUME CommonAssumption, MqTypeOK, WrappedKeysGenuine, KeysStable,
         NEW p \in 1 .. Len(queues), NEW m \in Message, MqSend(p, m),
         m \in SymKeyMsg => rcvKey[m.key] = m.key /\ rcvPub[m.key] = m.to
  PROVE  WrappedKeysGenuine'
<1>1. SUFFICES ASSUME NEW q \in 1 .. Len(queues'), NEW i \in 1 .. Len(queues'[q]),
                      queues'[q][i] \in SymKeyMsg
               PROVE  /\ rcvKey'[queues'[q][i].key] = queues'[q][i].key
                      /\ rcvPub'[queues'[q][i].key] = queues'[q][i].to
  BY DEF WrappedKeysGenuine
<1>2. q \in 1 .. Len(queues)
  BY SendEffect
<1>3. queues[q] \in Seq(Message)
  BY <1>2 DEF MqTypeOK
<1>4. \/ i \in 1 .. Len(queues[q]) /\ queues'[q][i] = queues[q][i]
      \/ queues'[q][i] = m
  BY <1>1, <1>2, <1>3, SendEffect
<1>5. LET k == queues'[q][i] IN
        k.key \in Receivers /\ rcvKey[k.key] = k.key /\ rcvPub[k.key] = k.to
  BY <1>1, <1>2, <1>4 DEF WrappedKeysGenuine, SymKeyMsg
<1>6. QED
  BY <1>5 DEF KeysStable, CommonAssumption

(* mq_open of the sender-to-receiver name: the only object that becomes     *)
(* reachable is the one the name already refers to, or a new, empty one.   *)
LEMMA OpenForwardKeepsChannels ==
  ASSUME MqTypeOK, DescriptorsValid, ChannelsSeparate, MqOpen(kSenderToReceiverQueue),
         \A s \in Senders : sndOut'[s] \in {sndOut[s], Opened(kSenderToReceiverQueue)},
         \A r \in Receivers : rcvIn'[r] \in {rcvIn[r], Opened(kSenderToReceiverQueue)},
         sndIn' = sndIn, rcvOut' = rcvOut
  PROVE  ChannelsSeparate'
<1> DEFINE n == kSenderToReceiverQueue
<1>1. n \in QueueNames /\ names[n] \in 0 .. Len(queues) /\ Len(queues) \in Nat
  BY DEF QueueNames, DescriptorsValid, MqTypeOK
<1>2. SUFFICES ASSUME NEW q \in 1 .. Len(queues')
               PROVE  /\ ~(Forward(q)' /\ Reply(q)')
                      /\ Forward(q)' => \A i \in 1 .. Len(queues'[q]) :
                           queues'[q][i] \in PublicKeyMsg \cup PeriodicMsg
                      /\ Reply(q)' => \A i \in 1 .. Len(queues'[q]) :
                           queues'[q][i] \in SymKeyMsg
  BY DEF ChannelsSeparate
<1>3. names' = [names EXCEPT ![n] = Opened(n)]
  BY <1>1, OpenEffect
<1>4. Forward(q)' => Forward(q) \/ q = Opened(n)
  BY <1>1, <1>3 DEF Forward, MqTypeOK
<1>5. Reply(q)' => Reply(q)
  BY <1>1, <1>3 DEF Reply, MqTypeOK, QueueNames, kSenderToReceiverQueue, kReceiverToSenderQueue
<1>6. CASE q \in 1 .. Len(queues)
  <2>1. q = Opened(n) => Forward(q)
    BY <1>1, <1>6, OpenEffect DEF Forward
  <2>2. queues'[q] = queues[q]
    BY <1>1, <1>6, OpenEffect
  <2>3. QED
    BY <1>4, <1>5, <1>6, <2>1, <2>2 DEF ChannelsSeparate
<1>7. CASE q \notin 1 .. Len(queues)
  <2>1. queues'[q] = <<>> /\ q = Len(queues) + 1
    BY <1>1, <1>7, OpenEffect
  <2>2. ~Reply(q)
    BY <1>1, <2>1 DEF Reply, DescriptorsValid, QueueNames
  <2>3. QED
    BY <1>5, <2>1, <2>2
<1>8. QED
  BY <1>6, <1>7

(* mq_open of the receiver-to-sender name. *)
LEMMA OpenReplyKeepsChannels ==
  ASSUME MqTypeOK, DescriptorsValid, ChannelsSeparate, MqOpen(kReceiverToSenderQueue),
         \A s \in Senders : sndIn'[s] \in {sndIn[s], Opened(kReceiverToSenderQueue)},
         \A r \in Receivers : rcvOut'[r] \in {rcvOut[r], Opened(kReceiverToSenderQueue)},
         sndOut' = sndOut, rcvIn' = rcvIn
  PROVE  ChannelsSeparate'
<1> DEFINE n == kReceiverToSenderQueue
<1>1. n \in QueueNames /\ names[n] \in 0 .. Len(queues) /\ Len(queues) \in Nat
  BY DEF QueueNames, DescriptorsValid, MqTypeOK
<1>2. SUFFICES ASSUME NEW q \in 1 .. Len(queues')
               PROVE  /\ ~(Forward(q)' /\ Reply(q)')
                      /\ Forward(q)' => \A i \in 1 .. Len(queues'[q]) :
                           queues'[q][i] \in PublicKeyMsg \cup PeriodicMsg
                      /\ Reply(q)' => \A i \in 1 .. Len(queues'[q]) :
                           queues'[q][i] \in SymKeyMsg
  BY DEF ChannelsSeparate
<1>3. names' = [names EXCEPT ![n] = Opened(n)]
  BY <1>1, OpenEffect
<1>4. Reply(q)' => Reply(q) \/ q = Opened(n)
  BY <1>1, <1>3 DEF Reply, MqTypeOK
<1>5. Forward(q)' => Forward(q)
  BY <1>1, <1>3 DEF Forward, MqTypeOK, QueueNames, kSenderToReceiverQueue, kReceiverToSenderQueue
<1>6. CASE q \in 1 .. Len(queues)
  <2>1. q = Opened(n) => Reply(q)
    BY <1>1, <1>6, OpenEffect DEF Reply
  <2>2. queues'[q] = queues[q]
    BY <1>1, <1>6, OpenEffect
  <2>3. QED
    BY <1>4, <1>5, <1>6, <2>1, <2>2 DEF ChannelsSeparate
<1>7. CASE q \notin 1 .. Len(queues)
  <2>1. queues'[q] = <<>> /\ q = Len(queues) + 1
    BY <1>1, <1>7, OpenEffect
  <2>2. ~Forward(q)
    BY <1>1, <2>1 DEF Forward, DescriptorsValid, QueueNames
  <2>3. QED
    BY <1>5, <2>1, <2>2
<1>8. QED
  BY <1>6, <1>7

LEMMA OpenKeepsWrapped ==
  ASSUME CommonAssumption, MqTypeOK, WrappedKeysGenuine, KeysStable,
         NEW n \in QueueNames, names[n] \in 0 .. Len(queues), MqOpen(n)
  PROVE  WrappedKeysGenuine'
<1>1. SUFFICES ASSUME NEW q \in 1 .. Len(queues'), NEW i \in 1 .. Len(queues'[q]),
                      queues'[q][i] \in SymKeyMsg
               PROVE  /\ rcvKey'[queues'[q][i].key] = queues'[q][i].key
                      /\ rcvPub'[queues'[q][i].key] = queues'[q][i].to
  BY DEF WrappedKeysGenuine
<1>2. q \in 1 .. Len(queues)
  <2>1. q \notin 1 .. Len(queues) => queues'[q] = <<>>
    BY OpenEffect
  <2>2. QED
    BY <1>1, <2>1
<1>3. queues'[q] = queues[q]
  BY <1>2, OpenEffect
<1>4. QED
  BY <1>1, <1>2, <1>3 DEF WrappedKeysGenuine, KeysStable, CommonAssumption, SymKeyMsg

-----------------------------------------------------------------------------
(* The sender's steps *)

SenderQuietStep(s) ==
  \/ SenderLaunch(s) \/ SenderKilled(s) \/ SenderSetupFails(s) \/ Generate(s)
  \/ SendPublicKeyFails(s) \/ DismissSendFailure(s)
  \/ ReceiveSymmetricKeyFails(s) \/ DismissReceiveFailure(s)
  \/ SendPeriodicMessageFails(s) \/ SenderClose(s) \/ DismissSender(s)
  \/ UnlinkReceiverQueue(s) \/ UnlinkSenderQueue(s)

(* Every step of a sender that transfers no message and opens no queue:     *)
(* queue contents and received keys stay, references are only dropped.     *)
LEMMA SenderQuietEffect ==
  ASSUME CommonAssumption, IInv, NEW s \in Senders, SenderQuietStep(s),
         UNCHANGED rcvVars
  PROVE  /\ queues' = queues /\ faults' \in Nat
         /\ names' \in [QueueNames -> Nat]
         /\ \A n \in QueueNames : names'[n] \in {names[n], NoQueue}
         /\ \/ UNCHANGED <<sndOut, sndIn>>
            \/ SenderCloses(s) /\ sndPc'[s] \notin SenderConnected \cup {"openIn"}
         /\ sndPc' = [sndPc EXCEPT ![s] = sndPc'[s]]
         /\ sndPc'[s] \in SenderConnected => sndPc[s] \in SenderConnected
         /\ sndPc'[s] # "openIn"
         /\ SenderTypeOK'
         /\ KeyedBeforeUse'
         /\ KeyAgreement'
<1> USE CommonAssumption
    DEF IInv, TypeOK, SenderQuietStep, SenderLaunch, SenderKilled, SenderSetupFails,
        Generate, SendPublicKeyFails, DismissSendFailure, ReceiveSymmetricKeyFails,
        DismissReceiveFailure, SendPeriodicMessageFails, SenderClose, DismissSender,
        UnlinkReceiverQueue, UnlinkSenderQueue, SenderGoes
<1>1. queues' = queues /\ faults' \in Nat
  BY DEF MqTypeOK, mqVars, MqFails, MqUnlink
<1>2. /\ names' \in [QueueNames -> Nat]
      /\ \A n \in QueueNames : names'[n] \in {names[n], NoQueue}
  <2>1. \/ names' = names
        \/ \E n \in QueueNames : names' = [names EXCEPT ![n] = NoQueue]
    BY DEF mqVars, MqFails, MqUnlink, QueueNames
  <2>2. NoQueue \in Nat
    BY DEF NoQueue
  <2>3. QED
    BY <2>1, <2>2 DEF MqTypeOK
<1>3. \/ UNCHANGED <<sndOut, sndIn>>
      \/ SenderCloses(s) /\ sndPc'[s] \notin SenderConnected \cup {"openIn"}
  BY DEF SenderTypeOK, SenderConnected, SenderGone
<1>4. /\ sndPc' = [sndPc EXCEPT ![s] = sndPc'[s]]
      /\ sndPc'[s] \in SenderConnected => sndPc[s] \in SenderConnected
      /\ sndPc'[s] # "openIn"
  BY DEF SenderTypeOK, SenderConnected, SenderGone
<1>5. SenderTypeOK'
  BY DEF SenderTypeOK, SenderPcs, SenderGone, SenderCloses, NoQueue, Keys
<1>6. KeyedBeforeUse' /\ KeyAgreement'
  BY DEF KeyedBeforeUse, KeyAgreement, SenderKeyed, SenderConnected, SenderGone,
     SenderTypeOK, Keys, rcvVars
<1>7. QED
  BY <1>1, <1>2, <1>3, <1>4, <1>5, <1>6

LEMMA SenderQuiet ==
  ASSUME CommonAssumption, IInv, NEW s \in Senders, SenderQuietStep(s),
         UNCHANGED rcvVars, kills' \in Nat
  PROVE  IInv'
<1> USE CommonAssumption, SenderQuietEffect DEF IInv, TypeOK
<1>1. MqTypeOK' /\ ReceiverTypeOK'
  BY DEF MqTypeOK, ReceiverTypeOK, rcvVars
<1>2. DescriptorsValid'
  <2>1. Len(queues') = Len(queues) /\ Len(queues) \in Nat /\ 0 \in 0 .. Len(queues)
    BY DEF MqTypeOK
  <2>2. \A n \in QueueNames : names'[n] \in 0 .. Len(queues)
    BY <2>1 DEF DescriptorsValid, NoQueue
  <2>3. \A t \in Senders :
          /\ sndOut'[t] \in 0 .. Len(queues)
          /\ sndIn'[t] \in 0 .. Len(queues)
          /\ sndPc'[t] \in SenderConnected \cup {"openIn"} => sndOut'[t] # NoQueue
          /\ sndPc'[t] \in SenderConnected => sndIn'[t] # NoQueue
    <3>1. CASE UNCHANGED <<sndOut, sndIn>>
      BY <3>1 DEF DescriptorsValid, SenderTypeOK
    <3>2. CASE SenderCloses(s) /\ sndPc'[s] \notin SenderConnected \cup {"openIn"}
      BY <2>1, <3>2 DEF DescriptorsValid, SenderCloses, SenderTypeOK, NoQueue
    <3>3. QED
      BY <3>1, <3>2
  <2>4. QED
    BY <2>1, <2>2, <2>3 DEF DescriptorsValid, rcvVars
<1>3. ChannelsSeparate' /\ WrappedKeysGenuine'
  <2>1. ReferencesShrink
    <3>1. \A t \in Senders : /\ sndOut'[t] \in {sndOut[t], NoQueue}
                             /\ sndIn'[t] \in {sndIn[t], NoQueue}
      <4>1. CASE UNCHANGED <<sndOut, sndIn>>
        BY <4>1
      <4>2. CASE SenderCloses(s)
        BY <4>2 DEF SenderCloses, SenderTypeOK
      <4>3. QED
        BY <4>1, <4>2
    <3>2. QED
      BY <3>1 DEF ReferencesShrink, rcvVars
  <2>2. KeysStable
    BY DEF KeysStable, rcvVars
  <2>3. QED
    BY <2>1, <2>2, LocalKeepsChannels, LocalKeepsWrapped
<1>4. QED
  BY <1>1, <1>2, <1>3

(* The two mq_open calls of a sender. *)
LEMMA SenderOpens ==
  ASSUME CommonAssumption, IInv, NEW s \in Senders,
         SetupSenderCommunication(s) \/ SetupReceiverCommunication(s),
         UNCHANGED rcvVars, kills' \in Nat
  PROVE  IInv'
<1> USE CommonAssumption DEF IInv, TypeOK
<1>1. KeysStable
  BY DEF KeysStable, rcvVars
<1>2. \A n \in QueueNames : names[n] \in 0 .. Len(queues)
  BY DEF DescriptorsValid
<1>3. PICK n \in QueueNames :
        /\ MqOpen(n)
        /\ \/ n = kSenderToReceiverQueue /\ SetupSenderCommunication(s)
           \/ n = kReceiverToSenderQueue /\ SetupReceiverCommunication(s)
  BY DEF SetupSenderCommunication, SetupReceiverCommunication, QueueNames
<1>4. /\ MqTypeOK' /\ Opened(n) \in 1 .. Len(queues') /\ Opened(n) \in Nat \ {0}
      /\ Len(queues) \in Nat /\ Len(queues') \in {Len(queues), Len(queues) + 1}
      /\ names' = [names EXCEPT ![n] = Opened(n)]
  BY <1>2, <1>3, OpenEffect DEF MqTypeOK
<1>5. SenderTypeOK' /\ ReceiverTypeOK'
  <2>1. CASE n = kSenderToReceiverQueue /\ SetupSenderCommunication(s)
    BY <1>4, <2>1 DEF SenderTypeOK, SenderPcs, SenderGone, SenderGoes, ReceiverTypeOK,
       rcvVars, SetupSenderCommunication
  <2>2. CASE n = kReceiverToSenderQueue /\ SetupReceiverCommunication(s)
    BY <1>4, <2>2 DEF SenderTypeOK, SenderPcs, SenderGone, SenderGoes, ReceiverTypeOK,
       rcvVars, SetupReceiverCommunication
  <2>3. QED
    BY <1>3, <2>1, <2>2
<1>6. DescriptorsValid'
  <2>1. \A m \in QueueNames : names'[m] \in 0 .. Len(queues')
    BY <1>2, <1>4 DEF MqTypeOK
  <2>2. \A t \in Senders :
          /\ sndOut'[t] \in 0 .. Len(queues')
          /\ sndIn'[t] \in 0 .. Len(queues')
          /\ sndPc'[t] \in SenderConnected \cup {"openIn"} => sndOut'[t] # NoQueue
          /\ sndPc'[t] \in SenderConnected => sndIn'[t] # NoQueue
    <3>1. CASE n = kSenderToReceiverQueue /\ SetupSenderCommunication(s)
      BY <1>4, <3>1 DEF DescriptorsValid, SenderTypeOK, SenderGoes, SenderConnected,
         NoQueue, SetupSenderCommunication
    <3>2. CASE n = kReceiverToSenderQueue /\ SetupReceiverCommunication(s)
      BY <1>4, <3>2 DEF DescriptorsValid, SenderTypeOK, SenderGoes, SenderConnected,
         NoQueue, SetupReceiverCommunication
    <3>3. QED
      BY <1>3, <3>1, <3>2
  <2>3. QED
    BY <1>4, <2>1, <2>2 DEF DescriptorsValid, rcvVars
<1>7. ChannelsSeparate'
  <2>1. CASE SetupSenderCommunication(s)
    BY <2>1, OpenForwardKeepsChannels
       DEF SetupSenderCommunication, SenderTypeOK, rcvVars
  <2>2. CASE SetupReceiverCommunication(s)
    BY <2>2, OpenReplyKeepsChannels
       DEF SetupReceiverCommunication, SenderTypeOK, rcvVars
  <2>3. QED
    BY <2>1, <2>2
<1>8. WrappedKeysGenuine'
  BY <1>1, <1>2, <1>3, OpenKeepsWrapped
<1>9. KeyedBeforeUse' /\ KeyAgreement'
  BY DEF KeyedBeforeUse, KeyAgreement, SenderKeyed, SenderConnected, SenderTypeOK,
     SenderGoes, rcvVars, SetupSenderCommunication, SetupReceiverCommunication
<1>10. QED
  BY <1>4, <1>5, <1>6, <1>7, <1>8, <1>9

(* The two mq_send calls of a sender. *)
LEMMA SenderSends ==
  ASSUME CommonAssumption, IInv, NEW s \in Senders,
         SendPublicKey(s) \/ SendPeriodicMessage(s),
         UNCHANGED rcvVars, kills' \in Nat
  PROVE  IInv'
<1> USE CommonAssumption DEF IInv, TypeOK
<1>1. PICK m \in PublicKeyMsg \cup PeriodicMsg : MqSend(sndOut[s], m)
  <2>1. CASE SendPublicKey(s)
    BY <2>1 DEF SendPublicKey, PublicKey, PublicKeyMsg
  <2>2. CASE SendPeriodicMessage(s)
    <3>1. sndKey[s] \in Keys /\ sndIndex[s] \in Nat
      BY <2>2 DEF SendPeriodicMessage, SenderGoes, KeyedBeforeUse, SenderKeyed,
         SenderConnected, SenderTypeOK
    <3>2. CounterByte(sndIndex[s]) \in 0 .. kByteModulo - 1
      BY <3>1 DEF CounterByte, kByteModulo
    <3>3. Periodic(sndIndex[s], sndKey[s]) \in PeriodicMsg
      BY <3>1, <3>2 DEF Periodic, PeriodicMsg
    <3>4. QED
      BY <2>2, <3>3 DEF SendPeriodicMessage
  <2>3. QED
    BY <2>1, <2>2
<1>2. m \in Message /\ m \notin SymKeyMsg
  BY DEF Message, PublicKeyMsg, PeriodicMsg, SymKeyMsg
<1>3. /\ sndOut[s] \in 1 .. Len(queues) /\ Forward(sndOut[s])
      /\ UNCHANGED <<sndOut, sndIn, sndKey>>
  <2>1. sndPc[s] \in SenderConnected
    BY DEF SenderGoes, SenderConnected, SendPublicKey, SendPeriodicMessage
  <2>2. sndOut[s] \in 0 .. Len(queues) /\ sndOut[s] # 0 /\ Len(queues) \in Nat
    BY <2>1 DEF DescriptorsValid, NoQueue, MqTypeOK
  <2>3. QED
    BY <2>2 DEF Forward, SendPublicKey, SendPeriodicMessage
<1>4. MqTypeOK' /\ Len(queues') = Len(queues) /\ names' = names
  BY <1>1, <1>2, <1>3, SendEffect
<1>5. SenderTypeOK'
  <2>1. CASE SendPublicKey(s)
    BY <2>1 DEF SenderTypeOK, SenderPcs, SenderGone, SenderGoes, SendPublicKey
  <2>2. CASE SendPeriodicMessage(s)
    <3>1. sndIndex[s] + 1 \in 0 .. kNumMessagesToSend
      BY <2>2 DEF KeyedBeforeUse, SenderConnected, SenderTypeOK, SenderGoes,
         SendPeriodicMessage
    <3>2. sndStatus' \in [Senders -> {kOK, kNOT_OK}]
      BY <2>2 DEF SenderTypeOK, SendPeriodicMessage
    <3>3. sndPc' \in [Senders -> SenderPcs]
      BY <2>2 DEF SenderTypeOK, SenderPcs, SenderGoes, AfterFrame, SendPeriodicMessage
    <3>4. QED
      BY <1>3, <2>2, <3>1, <3>2, <3>3 DEF SenderTypeOK, SendPeriodicMessage
  <2>3. QED
    BY <2>1, <2>2
<1>6. DescriptorsValid'
  BY <1>3, <1>4 DEF DescriptorsValid, SenderTypeOK, SenderGoes, SenderConnected,
     AfterFrame, rcvVars, SendPublicKey, SendPeriodicMessage
<1>7. ReferencesShrink /\ KeysStable
  BY <1>3, <1>4 DEF ReferencesShrink, KeysStable, rcvVars
<1>8. ChannelsSeparate' /\ WrappedKeysGenuine'
  BY <1>1, <1>2, <1>3, <1>7, SendKeepsChannels, SendKeepsWrapped
<1>9. KeyedBeforeUse' /\ KeyAgreement'
  BY DEF KeyedBeforeUse, KeyAgreement, SenderKeyed, SenderConnected, SenderTypeOK,
     SenderGoes, AfterFrame, rcvVars, SendPublicKey, SendPeriodicMessage
<1>10. ReceiverTypeOK'
  BY DEF ReceiverTypeOK, rcvVars
<1>11. QED
  BY <1>4, <1>5, <1>6, <1>8, <1>9, <1>10

(* The mq_receive of a sender: the key it decrypts was wrapped for it, by a *)
(* receiver that has it.                                                   *)
LEMMA SenderReceives ==
  ASSUME CommonAssumption, IInv, NEW s \in Senders, ReceiveSymmetricKey(s),
         UNCHANGED rcvVars, kills' \in Nat
  PROVE  IInv'
<1> DEFINE m == Head(queues[sndIn[s]])
<1> USE CommonAssumption DEF IInv, TypeOK
<1>1. /\ sndIn[s] \in 1 .. Len(queues) /\ Reply(sndIn[s])
      /\ MqReceive(sndIn[s])
  <2>1. sndPc[s] \in SenderConnected
    BY DEF SenderConnected, ReceiveSymmetricKey
  <2>2. sndIn[s] \in 0 .. Len(queues) /\ sndIn[s] # 0 /\ Len(queues) \in Nat
    BY <2>1 DEF DescriptorsValid, NoQueue, MqTypeOK
  <2>3. QED
    BY <2>2 DEF Reply, ReceiveSymmetricKey
<1>2. /\ MqTypeOK' /\ Len(queues') = Len(queues) /\ names' = names
      /\ 1 \in 1 .. Len(queues[sndIn[s]]) /\ m = queues[sndIn[s]][1]
  BY <1>1, ReceiveEffect
<1>3. /\ m \in SymKeyMsg
      /\ rcvKey[m.key] = m.key /\ rcvPub[m.key] = m.to /\ m.key \in Receivers
  BY <1>1, <1>2 DEF ChannelsSeparate, WrappedKeysGenuine, SymKeyMsg
<1>4. \/ /\ m.to = s /\ SenderGoes(s, "receiveKey", "periodic")
         /\ sndKey' = [sndKey EXCEPT ![s] = m.key]
         /\ UNCHANGED <<sndOut, sndIn>>
      \/ /\ SenderGoes(s, "receiveKey", "aborted")
         /\ SenderCloses(s)
         /\ UNCHANGED sndKey
  BY DEF ReceiveSymmetricKey, Decrypts, Assigned
<1>5. SenderTypeOK' /\ ReceiverTypeOK'
  <2>1. sndPc' \in [Senders -> SenderPcs] /\ sndKey' \in [Senders -> Keys \cup {None}]
    BY <1>3, <1>4 DEF SenderTypeOK, SenderPcs, SenderGone, SenderGoes, Keys
  <2>2. sndOut' \in [Senders -> Nat] /\ sndIn' \in [Senders -> Nat]
    BY <1>4 DEF SenderTypeOK, SenderCloses, NoQueue
  <2>3. QED
    BY <2>1, <2>2 DEF SenderTypeOK, ReceiverTypeOK, rcvVars, ReceiveSymmetricKey
<1>6. ReferencesShrink /\ KeysStable
  BY <1>2, <1>4 DEF ReferencesShrink, SenderCloses, SenderTypeOK, KeysStable, rcvVars
<1>7. DescriptorsValid'
  BY <1>2, <1>4 DEF DescriptorsValid, SenderTypeOK, SenderGoes, SenderCloses,
     SenderConnected, NoQueue, MqTypeOK, rcvVars
<1>8. ChannelsSeparate' /\ WrappedKeysGenuine'
  BY <1>1, <1>6, ReceiveKeepsChannels, ReceiveKeepsWrapped
<1>9. KeyedBeforeUse'
  BY <1>3, <1>4 DEF KeyedBeforeUse, SenderKeyed, SenderConnected, SenderTypeOK,
     SenderGoes, Keys, rcvVars, ReceiveSymmetricKey
<1>10. KeyAgreement'
  BY <1>3, <1>4 DEF KeyAgreement, SenderTypeOK, rcvVars
<1>11. QED
  BY <1>2, <1>5, <1>7, <1>8, <1>9, <1>10

-----------------------------------------------------------------------------
(* The receiver's steps *)

ReceiverQuietStep(r) ==
  \/ ReceiverLaunch(r) \/ ReceiverKilled(r) \/ ReceiverSetupFails(r)
  \/ GetPublicKeyFails(r) \/ DeriveKey(r) \/ SendSymmetricKeyFails(r)
  \/ ReceivePeriodicMessageFails(r) \/ DismissReceiver(r)

LEMMA AgreementStable ==
  ASSUME CommonAssumption, KeyAgreement, KeysStable, UNCHANGED sndVars
  PROVE  KeyAgreement'
BY DEF KeyAgreement, KeysStable, CommonAssumption, sndVars

(* Every step of a receiver that transfers no message and opens no queue;   *)
(* among them the derivation of its key, which happens once.               *)
LEMMA ReceiverQuietEffect ==
  ASSUME CommonAssumption, IInv, NEW r \in Receivers, ReceiverQuietStep(r)
  PROVE  /\ queues' = queues /\ names' = names /\ faults' \in Nat
         /\ \/ UNCHANGED <<rcvIn, rcvOut>>
            \/ ReceiverCloses(r) /\ rcvPc'[r] \notin ReceiverConnected \cup {"openIn"}
         /\ rcvPc' = [rcvPc EXCEPT ![r] = rcvPc'[r]]
         /\ rcvPc'[r] \in ReceiverConnected => rcvPc[r] \in ReceiverConnected
         /\ rcvPc'[r] # "openIn"
         /\ ReceiverTypeOK'
         /\ KeysStable
         /\ UNCHANGED sndVars => KeyedBeforeUse'
<1> USE CommonAssumption
    DEF IInv, TypeOK, ReceiverQuietStep, ReceiverLaunch, ReceiverKilled,
        ReceiverSetupFails, GetPublicKeyFails, DeriveKey, SendSymmetricKeyFails,
        ReceivePeriodicMessageFails, DismissReceiver, ReceiverGoes
<1>1. queues' = queues /\ names' = names /\ faults' \in Nat
  BY DEF MqTypeOK, mqVars, MqFails
<1>2. \/ UNCHANGED <<rcvIn, rcvOut>>
      \/ ReceiverCloses(r) /\ rcvPc'[r] \notin ReceiverConnected \cup {"openIn"}
  BY DEF ReceiverTypeOK, ReceiverConnected, ReceiverGone
<1>3. /\ rcvPc' = [rcvPc EXCEPT ![r] = rcvPc'[r]]
      /\ rcvPc'[r] \in ReceiverConnected => rcvPc[r] \in ReceiverConnected
      /\ rcvPc'[r] # "openIn"
  BY DEF ReceiverTypeOK, ReceiverConnected, ReceiverGone
<1>4. /\ rcvPc' \in [Receivers -> ReceiverPcs]
      /\ rcvKey' \in [Receivers -> Receivers \cup {None}]
      /\ rcvStatus' \in [Receivers -> {kOK, kNOT_OK}]
      /\ UNCHANGED <<rcvPub, rcvLog>>
  <2>1. UNCHANGED <<rcvPub, rcvLog>>
    OBVIOUS
  <2>2. rcvPc' \in [Receivers -> ReceiverPcs]
    BY DEF ReceiverTypeOK, ReceiverPcs, ReceiverGone
  <2>3. rcvKey' \in [Receivers -> Receivers \cup {None}]
    BY DEF ReceiverTypeOK, FreshKey
  <2>4. rcvStatus' \in [Receivers -> {kOK, kNOT_OK}]
    BY DEF ReceiverTypeOK
  <2>5. QED
    BY <2>1, <2>2, <2>3, <2>4
<1>5. ReceiverTypeOK'
  <2>1. rcvIn' \in [Receivers -> Nat] /\ rcvOut' \in [Receivers -> Nat]
    <3>1. rcvIn \in [Receivers -> Nat] /\ rcvOut \in [Receivers -> Nat]
      BY DEF ReceiverTypeOK
    <3>2. CASE UNCHANGED <<rcvIn, rcvOut>>
      BY <3>1, <3>2
    <3>3. CASE ReceiverCloses(r)
      BY <3>1, <3>3 DEF ReceiverCloses, NoQueue
    <3>4. QED
      BY <1>2, <3>2, <3>3
  <2>2. rcvPub' \in [Receivers -> Senders \cup {None}]
    BY <1>4 DEF ReceiverTypeOK
  <2>3. rcvLog' \in [Receivers -> Seq(LogEntry)]
    BY <1>4 DEF ReceiverTypeOK
  <2>4. QED
    BY <1>4, <2>1, <2>2, <2>3 DEF ReceiverTypeOK
<1>6. \/ /\ rcvKey' = rcvKey
         /\ \A from \in ReceiverKeyless : rcvPc'[r] = from => rcvKey[r] = None
         /\ rcvPc'[r] \in {"openOut", "openIn", "getPublicKey"} => rcvPub[r] = None
         /\ rcvPc'[r] = "sendKey" => rcvPc[r] = "sendKey"
      \/ /\ rcvKey[r] = None /\ rcvKey' = [rcvKey EXCEPT ![r] = r]
         /\ rcvPc'[r] \in {"sendKey", "aborted"}
         /\ rcvPc'[r] = "sendKey" => rcvPub[r] # None
  <2>1. CASE DeriveKey(r)
    BY <2>1 DEF KeyedBeforeUse, ReceiverKeyless, ReceiverTypeOK, FreshKey
  <2>2. CASE ~DeriveKey(r)
    BY <2>2 DEF KeyedBeforeUse, ReceiverKeyless, ReceiverTypeOK, ReceiverGone
  <2>3. QED
    BY <2>1, <2>2
<1>7. QED
  <2>1. KeysStable
    BY <1>4, <1>6 DEF KeysStable, ReceiverTypeOK
  <2>2. ASSUME UNCHANGED sndVars PROVE KeyedBeforeUse'
    <3>1. \A t \in Receivers :
            /\ rcvKey'[t] \in {None, t}
            /\ rcvPc'[t] \in ReceiverKeyless => rcvKey'[t] = None
            /\ rcvPc'[t] \in {"off", "openOut", "openIn", "getPublicKey"} =>
                 rcvPub'[t] = None
            /\ rcvPc'[t] = "sendKey" => rcvPub'[t] \in Senders /\ rcvKey'[t] = t
      BY <1>3, <1>4, <1>6 DEF KeyedBeforeUse, ReceiverKeyless, ReceiverTypeOK
    <3>2. QED
      BY <2>2, <3>1 DEF KeyedBeforeUse, sndVars
  <2>3. QED
    BY <1>1, <1>2, <1>3, <1>5, <2>1, <2>2

LEMMA ReceiverQuiet ==
  ASSUME CommonAssumption, IInv, NEW r \in Receivers, ReceiverQuietStep(r),
         UNCHANGED sndVars, kills' \in Nat
  PROVE  IInv'
<1> USE CommonAssumption, ReceiverQuietEffect DEF IInv, TypeOK
<1>1. MqTypeOK' /\ SenderTypeOK'
  BY DEF MqTypeOK, SenderTypeOK, sndVars
<1>2. DescriptorsValid'
  <2>1. Len(queues') = Len(queues) /\ Len(queues) \in Nat /\ 0 \in 0 .. Len(queues)
    BY DEF MqTypeOK
  <2>2. \A t \in Receivers :
          /\ rcvIn'[t] \in 0 .. Len(queues)
          /\ rcvOut'[t] \in 0 .. Len(queues)
          /\ rcvPc'[t] \in ReceiverConnected \cup {"openIn"} => rcvOut'[t] # NoQueue
          /\ rcvPc'[t] \in ReceiverConnected => rcvIn'[t] # NoQueue
    <3>1. CASE UNCHANGED <<rcvIn, rcvOut>>
      BY <3>1 DEF DescriptorsValid, ReceiverTypeOK
    <3>2. CASE ReceiverCloses(r) /\ rcvPc'[r] \notin ReceiverConnected \cup {"openIn"}
      BY <2>1, <3>2 DEF DescriptorsValid, ReceiverCloses, ReceiverTypeOK, NoQueue
    <3>3. QED
      BY <3>1, <3>2
  <2>3. QED
    BY <2>1, <2>2 DEF DescriptorsValid, sndVars
<1>3. ChannelsSeparate' /\ WrappedKeysGenuine'
  <2>1. ReferencesShrink
    <3>1. \A t \in Receivers : /\ rcvIn'[t] \in {rcvIn[t], NoQueue}
                               /\ rcvOut'[t] \in {rcvOut[t], NoQueue}
      <4>1. CASE UNCHANGED <<rcvIn, rcvOut>>
        BY <4>1
      <4>2. CASE ReceiverCloses(r)
        BY <4>2 DEF ReceiverCloses, ReceiverTypeOK
      <4>3. QED
        BY <4>1, <4>2
    <3>2. QED
      BY <3>1 DEF ReferencesShrink, sndVars
  <2>2. QED
    BY <2>1, LocalKeepsChannels, LocalKeepsWrapped
<1>4. KeyAgreement'
  BY AgreementStable
<1>5. QED
  BY <1>1, <1>2, <1>3, <1>4

(* The two mq_open calls of a receiver. *)
LEMMA ReceiverOpens ==
  ASSUME CommonAssumption, IInv, NEW r \in Receivers,
         OpenReceiverToSender(r) \/ OpenSenderToReceiver(r),
         UNCHANGED sndVars, kills' \in Nat
  PROVE  IInv'
<1> USE CommonAssumption DEF IInv, TypeOK
<1>1. KeysStable
  BY DEF KeysStable, OpenReceiverToSender, OpenSenderToReceiver
<1>2. \A n \in QueueNames : names[n] \in 0 .. Len(queues)
  BY DEF DescriptorsValid
<1>3. PICK n \in QueueNames :
        /\ MqOpen(n)
        /\ \/ n = kReceiverToSenderQueue /\ OpenReceiverToSender(r)
           \/ n = kSenderToReceiverQueue /\ OpenSenderToReceiver(r)
  BY DEF OpenReceiverToSender, OpenSenderToReceiver, QueueNames
<1>4. /\ MqTypeOK' /\ Opened(n) \in 1 .. Len(queues') /\ Opened(n) \in Nat \ {0}
      /\ Len(queues) \in Nat /\ Len(queues') \in {Len(queues), Len(queues) + 1}
      /\ names' = [names EXCEPT ![n] = Opened(n)]
  BY <1>2, <1>3, OpenEffect DEF MqTypeOK
<1>5. ReceiverTypeOK' /\ SenderTypeOK'
  <2>1. CASE n = kReceiverToSenderQueue /\ OpenReceiverToSender(r)
    BY <1>4, <2>1 DEF ReceiverTypeOK, ReceiverPcs, ReceiverGone, ReceiverGoes,
       SenderTypeOK, sndVars, OpenReceiverToSender
  <2>2. CASE n = kSenderToReceiverQueue /\ OpenSenderToReceiver(r)
    BY <1>4, <2>2 DEF ReceiverTypeOK, ReceiverPcs, ReceiverGone, ReceiverGoes,
       SenderTypeOK, sndVars, OpenSenderToReceiver
  <2>3. QED
    BY <1>3, <2>1, <2>2
<1>6. DescriptorsValid'
  <2>1. \A m \in QueueNames : names'[m] \in 0 .. Len(queues')
    BY <1>2, <1>4 DEF MqTypeOK
  <2>2. \A t \in Receivers :
          /\ rcvIn'[t] \in 0 .. Len(queues')
          /\ rcvOut'[t] \in 0 .. Len(queues')
          /\ rcvPc'[t] \in ReceiverConnected \cup {"openIn"} => rcvOut'[t] # NoQueue
          /\ rcvPc'[t] \in ReceiverConnected => rcvIn'[t] # NoQueue
    <3>1. CASE n = kReceiverToSenderQueue /\ OpenReceiverToSender(r)
      BY <1>4, <3>1 DEF DescriptorsValid, ReceiverTypeOK, ReceiverGoes,
         ReceiverConnected, NoQueue, OpenReceiverToSender
    <3>2. CASE n = kSenderToReceiverQueue /\ OpenSenderToReceiver(r)
      BY <1>4, <3>2 DEF DescriptorsValid, ReceiverTypeOK, ReceiverGoes,
         ReceiverConnected, NoQueue, OpenSenderToReceiver
    <3>3. QED
      BY <1>3, <3>1, <3>2
  <2>3. QED
    BY <1>4, <2>1, <2>2 DEF DescriptorsValid, sndVars
<1>7. ChannelsSeparate'
  <2>1. CASE OpenReceiverToSender(r)
    BY <2>1, OpenReplyKeepsChannels DEF OpenReceiverToSender, ReceiverTypeOK, sndVars
  <2>2. CASE OpenSenderToReceiver(r)
    BY <2>2, OpenForwardKeepsChannels DEF OpenSenderToReceiver, ReceiverTypeOK, sndVars
  <2>3. QED
    BY <2>1, <2>2
<1>8. WrappedKeysGenuine'
  BY <1>1, <1>2, <1>3, OpenKeepsWrapped
<1>9. KeyedBeforeUse'
  BY DEF KeyedBeforeUse, ReceiverKeyless, ReceiverTypeOK, ReceiverGoes, sndVars,
     OpenReceiverToSender, OpenSenderToReceiver
<1>10. KeyAgreement'
  BY <1>1, AgreementStable
<1>11. QED
  BY <1>4, <1>5, <1>6, <1>7, <1>8, <1>9, <1>10

(* The mq_send of a receiver: what it encrypts is its own key, for the      *)
(* sender whose public key it holds.                                       *)
LEMMA ReceiverSends ==
  ASSUME CommonAssumption, IInv, NEW r \in Receivers, SendSymmetricKey(r),
         UNCHANGED sndVars, kills' \in Nat
  PROVE  IInv'
<1> DEFINE m == SymKey(rcvPub[r], rcvKey[r])
<1> USE CommonAssumption DEF IInv, TypeOK
<1>1. /\ rcvPc[r] = "sendKey" /\ MqSend(rcvOut[r], m)
      /\ UNCHANGED <<rcvIn, rcvOut, rcvPub, rcvKey, rcvLog>>
  BY DEF SendSymmetricKey, ReceiverGoes
<1>2. /\ rcvPub[r] \in Senders /\ rcvKey[r] = r
      /\ m \in SymKeyMsg /\ m \in Message
      /\ m.key = r /\ m.to = rcvPub[r]
  BY <1>1 DEF KeyedBeforeUse, SymKey, SymKeyMsg, Message
<1>3. rcvOut[r] \in 1 .. Len(queues) /\ Reply(rcvOut[r])
  <2>1. rcvOut[r] \in 0 .. Len(queues) /\ rcvOut[r] # 0 /\ Len(queues) \in Nat
    BY <1>1 DEF DescriptorsValid, ReceiverConnected, NoQueue, MqTypeOK
  <2>2. QED
    BY <2>1 DEF Reply
<1>4. MqTypeOK' /\ Len(queues') = Len(queues) /\ names' = names
  BY <1>1, <1>2, <1>3, SendEffect
<1>5. ReceiverTypeOK' /\ SenderTypeOK'
  BY <1>1 DEF ReceiverTypeOK, ReceiverPcs, ReceiverGone, ReceiverGoes, SenderTypeOK,
     sndVars, SendSymmetricKey
<1>6. DescriptorsValid'
  BY <1>1, <1>4 DEF DescriptorsValid, ReceiverTypeOK, ReceiverGoes, ReceiverConnected,
     sndVars, SendSymmetricKey
<1>7. ReferencesShrink /\ KeysStable
  BY <1>1, <1>4 DEF ReferencesShrink, KeysStable, sndVars
<1>8. ChannelsSeparate' /\ WrappedKeysGenuine'
  BY <1>1, <1>2, <1>3, <1>7, SendKeepsChannels, SendKeepsWrapped
<1>9. KeyedBeforeUse'
  BY <1>1 DEF KeyedBeforeUse, ReceiverKeyless, ReceiverTypeOK, ReceiverGoes, sndVars,
     SendSymmetricKey
<1>10. KeyAgreement'
  BY <1>7, AgreementStable
<1>11. QED
  BY <1>4, <1>5, <1>6, <1>8, <1>9, <1>10

(* The mq_receive of get_public_key. *)
LEMMA ReceiverGetsPublicKey ==
  ASSUME CommonAssumption, IInv, NEW r \in Receivers, GetPublicKey(r),
         UNCHANGED sndVars, kills' \in Nat
  PROVE  IInv'
<1> DEFINE m == Head(queues[rcvIn[r]])
<1> USE CommonAssumption DEF IInv, TypeOK
<1>1. rcvPc[r] = "getPublicKey" /\ MqReceive(rcvIn[r]) /\ UNCHANGED <<rcvKey, rcvLog>>
  BY DEF GetPublicKey
<1>2. rcvIn[r] \in 1 .. Len(queues) /\ rcvKey[r] = None
  <2>1. rcvIn[r] \in 0 .. Len(queues) /\ rcvIn[r] # 0 /\ Len(queues) \in Nat
    BY <1>1 DEF DescriptorsValid, ReceiverConnected, NoQueue, MqTypeOK
  <2>2. QED
    BY <1>1, <2>1 DEF KeyedBeforeUse, ReceiverKeyless
<1>3. /\ MqTypeOK' /\ Len(queues') = Len(queues) /\ names' = names
      /\ m \in Message
  BY <1>1, <1>2, ReceiveEffect
<1> DEFINE loads == /\ m.type = "PublicKey"
                   /\ ReceiverGoes(r, "getPublicKey", "deriveKey")
                   /\ rcvPub' = [rcvPub EXCEPT ![r] = m.owner]
                   /\ rcvStatus' = [rcvStatus EXCEPT ![r] = kOK]
                   /\ UNCHANGED <<rcvIn, rcvOut>>
           throws == /\ ReceiverGoes(r, "getPublicKey", "aborted")
                     /\ ReceiverCloses(r)
                     /\ UNCHANGED <<rcvPub, rcvStatus>>
<1>4. loads \/ throws
  BY DEF GetPublicKey, LoadsKey
<1>5. m.type = "PublicKey" => m.owner \in Senders
  BY <1>3 DEF Message, PublicKeyMsg, SymKeyMsg, PeriodicMsg
<1>6. ReceiverTypeOK'
  <2>1. rcvPc' \in [Receivers -> ReceiverPcs]
    BY <1>4 DEF ReceiverTypeOK, ReceiverPcs, ReceiverGone, ReceiverGoes
  <2>2. rcvIn' \in [Receivers -> Nat] /\ rcvOut' \in [Receivers -> Nat]
    <3>1. rcvIn \in [Receivers -> Nat] /\ rcvOut \in [Receivers -> Nat]
      BY DEF ReceiverTypeOK
    <3>2. CASE loads
      BY <3>1, <3>2
    <3>3. CASE throws
      BY <3>1, <3>3 DEF ReceiverCloses, NoQueue
    <3>4. QED
      BY <1>4, <3>2, <3>3
  <2>3. /\ rcvPub' \in [Receivers -> Senders \cup {None}]
        /\ rcvStatus' \in [Receivers -> {kOK, kNOT_OK}]
    BY <1>4, <1>5 DEF ReceiverTypeOK
  <2>4. QED
    BY <1>1, <2>1, <2>2, <2>3 DEF ReceiverTypeOK
<1>7. SenderTypeOK'
  BY DEF SenderTypeOK, sndVars
<1>8. DescriptorsValid'
  <2>1. Len(queues') = Len(queues) /\ 0 \in 0 .. Len(queues)
    BY <1>3 DEF MqTypeOK
  <2>2. CASE loads
    BY <1>3, <2>1, <2>2 DEF DescriptorsValid, ReceiverTypeOK, ReceiverGoes,
       ReceiverConnected, sndVars
  <2>3. CASE throws
    BY <1>3, <2>1, <2>3 DEF DescriptorsValid, ReceiverTypeOK, ReceiverGoes,
       ReceiverCloses, ReceiverConnected, NoQueue, sndVars
  <2>4. QED
    BY <1>4, <2>2, <2>3
<1>9. ReferencesShrink /\ KeysStable
  BY <1>1, <1>2, <1>3, <1>4 DEF ReferencesShrink, KeysStable, ReceiverCloses,
     ReceiverTypeOK, sndVars
<1>10. ChannelsSeparate' /\ WrappedKeysGenuine'
  BY <1>1, <1>2, <1>9, ReceiveKeepsChannels, ReceiveKeepsWrapped
<1>11. KeyedBeforeUse'
  BY <1>1, <1>4, <1>5 DEF KeyedBeforeUse, ReceiverKeyless, ReceiverTypeOK, ReceiverGoes,
     sndVars
<1>12. KeyAgreement'
  BY <1>9, AgreementStable
<1>13. QED
  BY <1>3, <1>6, <1>7, <1>8, <1>10, <1>11, <1>12

(* The mq_receive of receive_periodic_messages. *)
LEMMA ReceiverReceives ==
  ASSUME CommonAssumption, IInv, NEW r \in Receivers, ReceivePeriodicMessage(r),
         UNCHANGED sndVars, kills' \in Nat
  PROVE  IInv'
<1> DEFINE m == Head(queues[rcvIn[r]])
           e == [msg |-> m, printed |-> Printed(rcvKey[r], m)]
<1> USE CommonAssumption DEF IInv, TypeOK
<1>1. /\ rcvPc[r] = "periodic" /\ MqReceive(rcvIn[r])
      /\ rcvLog' = [rcvLog EXCEPT ![r] = Append(rcvLog[r], e)]
      /\ UNCHANGED <<rcvPc, rcvIn, rcvOut, rcvPub, rcvKey, rcvStatus>>
  BY DEF ReceivePeriodicMessage
<1>2. rcvIn[r] \in 1 .. Len(queues)
  <2>1. rcvIn[r] \in 0 .. Len(queues) /\ rcvIn[r] # 0 /\ Len(queues) \in Nat
    BY <1>1 DEF DescriptorsValid, ReceiverConnected, NoQueue, MqTypeOK
  <2>2. QED
    BY <2>1
<1>3. /\ MqTypeOK' /\ Len(queues') = Len(queues) /\ names' = names
      /\ m \in Message
  BY <1>1, <1>2, ReceiveEffect
<1>4. ReceiverTypeOK'
  <2>1. e \in LogEntry
    <3>1. Printed(rcvKey[r], m) \in SUBSET Verdicts
      BY DEF Printed, Verdicts
    <3>2. QED
      BY <1>3, <3>1 DEF LogEntry
  <2>2. Append(rcvLog[r], e) \in Seq(LogEntry)
    BY <2>1 DEF ReceiverTypeOK
  <2>3. rcvLog' \in [Receivers -> Seq(LogEntry)]
    BY <1>1, <2>2 DEF ReceiverTypeOK
  <2>4. QED
    BY <1>1, <2>3 DEF ReceiverTypeOK
<1>5. SenderTypeOK'
  BY DEF SenderTypeOK, sndVars
<1>6. DescriptorsValid'
  <2>1. Len(queues') = Len(queues) /\ UNCHANGED <<names, rcvPc, rcvIn, rcvOut>>
    BY <1>1, <1>3
  <2>2. QED
    BY <2>1 DEF DescriptorsValid, sndVars
<1>7. ReferencesShrink /\ KeysStable
  BY <1>1, <1>3 DEF ReferencesShrink, KeysStable, sndVars
<1>8. ChannelsSeparate' /\ WrappedKeysGenuine'
  BY <1>1, <1>2, <1>7, ReceiveKeepsChannels, ReceiveKeepsWrapped
<1>9. KeyedBeforeUse'
  BY <1>1 DEF KeyedBeforeUse, sndVars
<1>10. KeyAgreement'
  BY <1>7, AgreementStable
<1>11. QED
  BY <1>3, <1>4, <1>5, <1>6, <1>8, <1>9, <1>10

-----------------------------------------------------------------------------
(* The invariant and what follows from it *)

LEMMA Initially == ASSUME CommonAssumption, Init PROVE IInv
<1> USE CommonAssumption DEF Init, MqInit, SenderInit, ReceiverInit
<1>1. TypeOK
  BY DEF TypeOK, MqTypeOK, SenderTypeOK, ReceiverTypeOK, SenderPcs, SenderGone,
     ReceiverPcs, ReceiverGone, NoQueue
<1>2. DescriptorsValid
  BY DEF DescriptorsValid, NoQueue, SenderConnected, ReceiverConnected
<1>3. ChannelsSeparate /\ WrappedKeysGenuine
  BY DEF ChannelsSeparate, WrappedKeysGenuine
<1>4. KeyedBeforeUse /\ KeyAgreement
  BY DEF KeyedBeforeUse, KeyAgreement, SenderKeyed, SenderConnected, ReceiverKeyless
<1>5. QED
  BY <1>1, <1>2, <1>3, <1>4 DEF IInv

LEMMA Inductive ==
  ASSUME CommonAssumption, SecureCommAssumption, IInv, [Next]_vars PROVE IInv'
<1> USE CommonAssumption
<1>1. CASE UNCHANGED vars
  BY <1>1 DEF vars, mqVars, sndVars, rcvVars, IInv, TypeOK, MqTypeOK, SenderTypeOK,
     ReceiverTypeOK, DescriptorsValid, ChannelsSeparate, Forward, Reply,
     KeyedBeforeUse, WrappedKeysGenuine, KeyAgreement
<1>2. CASE Next
  <2>1. kills' \in Nat
    BY <1>2 DEF Next, Launch, Kill, SenderRuns, ReceiverRuns, IInv, TypeOK
  <2>2. ASSUME NEW s \in Senders, SenderQuietStep(s) \/ SenderStep(s) \/ SenderEnter(s)
                 \/ SenderFault(s), UNCHANGED rcvVars
        PROVE  IInv'
    BY <2>1, <2>2, SenderQuiet, SenderOpens, SenderSends, SenderReceives
       DEF SenderQuietStep, SenderStep, SenderEnter, SenderFault
  <2>3. ASSUME NEW r \in Receivers, ReceiverQuietStep(r) \/ ReceiverStep(r)
                 \/ ReceiverEnter(r) \/ ReceiverFault(r), UNCHANGED sndVars
        PROVE  IInv'
    BY <2>1, <2>3, ReceiverQuiet, ReceiverOpens, ReceiverSends, ReceiverGetsPublicKey,
       ReceiverReceives
       DEF ReceiverQuietStep, ReceiverStep, ReceiverEnter, ReceiverFault
  <2>4. QED
    BY <1>2, <2>2, <2>3 DEF Next, Launch, Kill, SenderRuns, ReceiverRuns,
       SenderQuietStep, ReceiverQuietStep
<1>3. QED
  BY <1>1, <1>2

(* The inductive invariant: descriptors are valid, no queue object serves   *)
(* both directions, every encrypted key in a queue is genuine, and nobody  *)
(* uses a key he does not have.                                            *)
THEOREM Invariant == Spec => []IInv
<1>1. Init => IInv
  BY CommonAssumption, Initially
<1>2. IInv /\ [Next]_vars => IInv'
  BY CommonAssumption, SecureCommAssumption, Inductive
<1>3. QED
  BY <1>1, <1>2, PTL DEF Spec

(* Every variable of both programs and of the kernel's queues stays within  *)
(* its type: in particular send_periodic_message never sends a frame past  *)
(* kNumMessagesToSend, nor anything before it has a key.                   *)
THEOREM TypeCorrect == Spec => []TypeOK
BY Invariant, PTL DEF IInv

(* The setup functions never connect a process's sending end to the wrong   *)
(* queue, in spite of names unlinked and recreated under other processes.  *)
THEOREM ChannelsDisciplined == Spec => []ChannelDiscipline
<1>1. IInv => ChannelDiscipline
  <2>1. SUFFICES ASSUME IInv PROVE ChannelDiscipline
    OBVIOUS
  <2>2. queues \in Seq(Seq(Message)) /\ Len(queues) \in Nat
    BY <2>1 DEF IInv, TypeOK, MqTypeOK
  <2>3. ASSUME NEW s \in Senders, sndIn[s] # NoQueue,
               NEW i \in DOMAIN queues[sndIn[s]]
        PROVE  queues[sndIn[s]][i] \in SymKeyMsg
    <3>1. sndIn[s] \in 1 .. Len(queues) /\ Reply(sndIn[s])
      BY <2>1, <2>2, <2>3 DEF IInv, DescriptorsValid, NoQueue, Reply
    <3>2. i \in 1 .. Len(queues[sndIn[s]])
      BY <2>2, <2>3, <3>1
    <3>3. QED
      BY <2>1, <3>1, <3>2 DEF IInv, ChannelsSeparate
  <2>4. ASSUME NEW r \in Receivers, rcvIn[r] # NoQueue,
               NEW i \in DOMAIN queues[rcvIn[r]]
        PROVE  queues[rcvIn[r]][i] \in PublicKeyMsg \cup PeriodicMsg
    <3>1. rcvIn[r] \in 1 .. Len(queues) /\ Forward(rcvIn[r])
      BY <2>1, <2>2, <2>4 DEF IInv, DescriptorsValid, NoQueue, Forward
    <3>2. i \in 1 .. Len(queues[rcvIn[r]])
      BY <2>2, <2>4, <3>1
    <3>3. QED
      BY <2>1, <3>1, <3>2 DEF IInv, ChannelsSeparate
  <2>5. QED
    BY <2>3, <2>4 DEF ChannelDiscipline
<1>2. QED
  BY <1>1, Invariant, PTL

(* A sender that has decrypted a key shares it with the one receiver that   *)
(* generated it for this sender's public key, whatever queues, crashes and *)
(* failures lie in between.                                                *)
THEOREM KeysAgree == Spec => []KeyAgreement
BY Invariant, PTL DEF IInv

(* The key that receive_symmetric_key decrypts was wrapped for this sender. *)
LEMMA KeyReceived ==
  ASSUME CommonAssumption, IInv, NEW s \in Senders, ReceiveSymmetricKey(s)
  PROVE  \/ sndKey' = sndKey
         \/ /\ sndKey[s] = s
            /\ \E r \in Receivers : /\ rcvKey[r] = r
                                    /\ rcvPub[r] = s
                                    /\ sndKey' = [sndKey EXCEPT ![s] = r]
<1> DEFINE m == Head(queues[sndIn[s]])
<1> USE CommonAssumption DEF IInv, TypeOK
<1>1. sndPc[s] = "receiveKey" /\ MqReceive(sndIn[s]) /\ sndKey[s] = s
  BY DEF ReceiveSymmetricKey, KeyedBeforeUse
<1>2. sndIn[s] \in 1 .. Len(queues) /\ Reply(sndIn[s])
  <2>1. sndIn[s] \in 0 .. Len(queues) /\ sndIn[s] # 0 /\ Len(queues) \in Nat
    BY <1>1 DEF DescriptorsValid, SenderConnected, NoQueue, MqTypeOK
  <2>2. QED
    BY <2>1 DEF Reply
<1>3. 1 \in 1 .. Len(queues[sndIn[s]]) /\ m = queues[sndIn[s]][1]
  BY <1>1, <1>2, ReceiveEffect
<1>4. rcvKey[m.key] = m.key /\ rcvPub[m.key] = m.to /\ m.key \in Receivers
  BY <1>2, <1>3 DEF ChannelsSeparate, WrappedKeysGenuine, SymKeyMsg
<1>5. sndKey' = sndKey \/ (m.to = s /\ sndKey' = [sndKey EXCEPT ![s] = m.key])
  BY DEF ReceiveSymmetricKey, Decrypts, Assigned
<1>6. QED
  BY <1>1, <1>4, <1>5

(* The exchange implemented by the two programs is the abstract key         *)
(* transport: keys are wrapped once, for one sender, and unwrapped at most *)
(* once by the sender they were wrapped for.                               *)
THEOREM TransportImplemented == Spec => ImplementsKeyTransport
<1> DEFINE w == [r \in Receivers |-> IF rcvKey[r] # None THEN rcvPub[r] ELSE None]
           h == [s \in Senders |-> IF sndKey[s] \in Receivers THEN sndKey[s] ELSE None]
<1>1. Init => KT!Init
  BY CommonAssumption DEF Init, SenderInit, ReceiverInit, KT!Init
<1>2. IInv /\ [Next]_vars => [KT!Next]_KT!vars
  <2> SUFFICES ASSUME IInv, [Next]_vars PROVE [KT!Next]_KT!vars
    OBVIOUS
  <2> USE CommonAssumption
  <2>1. sndKey \in [Senders -> Keys \cup {None}] /\ rcvPub \in [Receivers -> Senders \cup {None}]
        /\ rcvKey \in [Receivers -> Receivers \cup {None}]
    BY DEF IInv, TypeOK, SenderTypeOK, ReceiverTypeOK
  <2>2. CASE UNCHANGED vars
    BY <2>2 DEF vars, sndVars, rcvVars, KT!vars
  <2>3. ASSUME NEW s \in Senders, UNCHANGED rcvVars,
               \/ sndKey' = sndKey
               \/ sndKey[s] = None /\ sndKey' = [sndKey EXCEPT ![s] = s]
        PROVE  UNCHANGED KT!vars
    <3>1. w' = w
      BY <2>3 DEF rcvVars
    <3>2. \A t \in Senders : sndKey'[t] = sndKey[t]
             \/ (sndKey'[t] \notin Receivers /\ sndKey[t] \notin Receivers)
      BY <2>1, <2>3
    <3>3. h' = h
      BY <3>2
    <3>4. QED
      BY <3>1, <3>3 DEF KT!vars
  <2>4. ASSUME NEW s \in Senders, ReceiveSymmetricKey(s), UNCHANGED rcvVars
        PROVE  [KT!Next]_KT!vars
    <3>1. CASE sndKey' = sndKey
      BY <2>3, <2>4, <3>1
    <3>2. CASE sndKey' # sndKey
      <4>1. PICK r \in Receivers : /\ rcvKey[r] = r /\ rcvPub[r] = s /\ sndKey[s] = s
                                   /\ sndKey' = [sndKey EXCEPT ![s] = r]
        BY <2>4, <3>2, KeyReceived
      <4>2. h[s] = None /\ w[r] = s
        BY <4>1
      <4>3. h' = [h EXCEPT ![s] = r] /\ w' = w
        BY <2>1, <2>4, <4>1 DEF rcvVars
      <4>4. QED
        BY <4>2, <4>3 DEF KT!Next, KT!Unwrap
    <3>3. QED
      BY <3>1, <3>2
  <2>5. ASSUME UNCHANGED sndVars, KeysStable,
               \A t \in Receivers : rcvKey[t] = None => rcvKey'[t] = None
        PROVE  UNCHANGED KT!vars
    <3>1. w' = w
      BY <2>5 DEF KeysStable
    <3>2. h' = h
      BY <2>5 DEF sndVars
    <3>3. QED
      BY <3>1, <3>2 DEF KT!vars
  <2>6. ASSUME NEW r \in Receivers, DeriveKey(r), UNCHANGED sndVars
        PROVE  [KT!Next]_KT!vars
    <3>1. rcvKey[r] = None /\ rcvKey' = [rcvKey EXCEPT ![r] = r] /\ rcvPub' = rcvPub
      BY <2>6 DEF DeriveKey, ReceiverGoes, FreshKey, IInv, KeyedBeforeUse, ReceiverKeyless
    <3>2. w[r] = None /\ w' = [w EXCEPT ![r] = rcvPub[r]] /\ h' = h
      BY <2>1, <2>6, <3>1 DEF sndVars
    <3>3. CASE rcvPub[r] \in Senders
      BY <3>2, <3>3 DEF KT!Next, KT!Wrap
    <3>4. CASE rcvPub[r] = None
      BY <3>2, <3>4 DEF KT!vars
    <3>5. QED
      BY <2>1, <3>3, <3>4
  <2>7. ASSUME NEW s \in Senders, UNCHANGED rcvVars,
               SenderQuietStep(s) \/ SenderStep(s) \/ SenderEnter(s) \/ SenderFault(s)
        PROVE  [KT!Next]_KT!vars
    <3>1. CASE Generate(s)
      <4>1. sndKey[s] = None /\ sndKey' = [sndKey EXCEPT ![s] = s]
        BY <3>1 DEF Generate, SenderGoes, IInv, KeyedBeforeUse
      <4>2. QED
        BY <2>3, <2>7, <4>1
    <3>2. CASE ReceiveSymmetricKey(s)
      BY <2>4, <2>7, <3>2
    <3>3. CASE ~Generate(s) /\ ~ReceiveSymmetricKey(s)
      <4>1. sndKey' = sndKey
        BY <2>7, <3>3
           DEF SenderQuietStep, SenderStep, SenderEnter, SenderFault, SenderLaunch,
               SenderKilled, SetupSenderCommunication, SetupReceiverCommunication,
               SenderSetupFails, SendPublicKey, SendPublicKeyFails, DismissSendFailure,
               ReceiveSymmetricKeyFails, DismissReceiveFailure, SendPeriodicMessage,
               SendPeriodicMessageFails, SenderClose, DismissSender,
               UnlinkReceiverQueue, UnlinkSenderQueue
      <4>2. QED
        BY <2>3, <2>7, <4>1
    <3>4. QED
      BY <3>1, <3>2, <3>3
  <2>8. ASSUME NEW r \in Receivers, UNCHANGED sndVars,
               \/ ReceiverQuietStep(r) \/ ReceiverStep(r)
               \/ ReceiverEnter(r) \/ ReceiverFault(r)
        PROVE  [KT!Next]_KT!vars
    <3>1. CASE DeriveKey(r)
      BY <2>6, <2>8, <3>1
    <3>2. CASE GetPublicKey(r)
      <4>1. /\ rcvKey[r] = None /\ rcvKey' = rcvKey
            /\ \A t \in Receivers : t # r => rcvPub'[t] = rcvPub[t]
        BY <2>1, <3>2 DEF GetPublicKey, IInv, KeyedBeforeUse, ReceiverKeyless
      <4>2. QED
        BY <2>5, <2>8, <4>1 DEF KeysStable
    <3>3. CASE ~DeriveKey(r) /\ ~GetPublicKey(r)
      <4>1. rcvKey' = rcvKey /\ rcvPub' = rcvPub
        BY <2>8, <3>3
           DEF ReceiverQuietStep, ReceiverStep, ReceiverEnter, ReceiverFault,
               ReceiverLaunch, ReceiverKilled, OpenReceiverToSender,
               OpenSenderToReceiver, ReceiverSetupFails, GetPublicKeyFails,
               SendSymmetricKey, SendSymmetricKeyFails, ReceivePeriodicMessage,
               ReceivePeriodicMessageFails, DismissReceiver
      <4>2. QED
        BY <2>5, <2>8, <4>1 DEF KeysStable
    <3>4. QED
      BY <3>1, <3>2, <3>3
  <2>9. QED
    BY <2>2, <2>7, <2>8 DEF Next, Launch, Kill, SenderRuns, ReceiverRuns,
       SenderQuietStep, ReceiverQuietStep
<1>3. QED
  BY <1>1, <1>2, Invariant, PTL DEF Spec, ImplementsKeyTransport, KT!Spec
=============================================================================
