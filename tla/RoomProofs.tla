----------------------------- MODULE RoomProofs -----------------------------
(***************************************************************************)
(* With a single sender, for every number of receivers and every number of *)
(* kills and failing calls: its periodic sends never block once it has a   *)
(* receiver's key, if the queue holds as many messages as it sends frames. *)
(***************************************************************************)
EXTENDS DeliveryProofs

(* What a step puts into a queue is of the kind this queue holds.           *)
LEMMA PostedKind ==
  ASSUME CommonAssumption, IInv, NEW q \in 1 .. Len(queues), NEW m \in Message, Posts(q, m)
  PROVE  \A n \in Waiting(q) : m.type = "SymKey" <=> n.type = "SymKey"
<1>1. CASE \E s \in Senders :
             q = sndOut[s] /\ (m = PublicKey(s) \/ m = Periodic(sndIndex[s], sndKey[s]))
  <2>1. Forward(q) /\ m.type # "SymKey"
    BY <1>1 DEF Forward, PublicKey, Periodic
  <2>2. \A n \in Waiting(q) : n.type # "SymKey"
    BY <2>1 DEF IInv, ChannelsSeparate, Waiting, PublicKeyMsg, PeriodicMsg
  <2>3. QED
    BY <2>1, <2>2
<1>2. CASE \E r \in Receivers : q = rcvOut[r] /\ m = SymKey(rcvPub[r], rcvKey[r])
  <2>1. Reply(q) /\ m.type = "SymKey"
    BY <1>2 DEF Reply, SymKey
  <2>2. \A n \in Waiting(q) : n.type = "SymKey"
    BY <2>1 DEF IInv, ChannelsSeparate, Waiting, SymKeyMsg
  <2>3. QED
    BY <2>1, <2>2
<1>3. QED
  BY <1>1, <1>2 DEF Posts

(* The messages of a queue after a drain, by place.                         *)
LEMMA DrainedPlaces ==
  ASSUME MqTypeOK, MqTypeOK', Drains, NEW q \in 1 .. Len(queues'), Len(queues'[q]) # 0
  PROVE  /\ q \in 1 .. Len(queues)
         /\ Len(queues'[q]) \in Nat /\ Len(queues[q]) \in Nat
         /\ \E d \in {0, 1} :
              /\ Len(queues'[q]) + d <= Len(queues[q])
              /\ \A i \in 1 .. Len(queues'[q]) :
                   i + d \in 1 .. Len(queues[q]) /\ queues'[q][i] = queues[q][i + d]
<1>1. q \in 1 .. Len(queues)
  BY DEF Drains
<1>2. Len(queues'[q]) \in Nat \ {0} /\ Len(queues[q]) \in Nat
  BY SMTT(30), <1>1 DEF MqTypeOK
<1>3. PICK d \in {0, 1} :
        \A i \in 1 .. Len(queues'[q]) :
          i + d \in 1 .. Len(queues[q]) /\ queues'[q][i] = queues[q][i + d]
  BY DEF Drains
<1>4. Len(queues'[q]) + d <= Len(queues[q])
  <2>1. Len(queues'[q]) \in 1 .. Len(queues'[q])
    BY <1>2
  <2>2. Len(queues'[q]) + d \in 1 .. Len(queues[q])
    BY <1>3, <2>1
  <2>3. QED
    BY <1>2, <2>2
<1>5. QED
  BY <1>1, <1>2, <1>3, <1>4

LEMMA DrainedWaiting ==
  ASSUME MqTypeOK, MqTypeOK', Drains, NEW q \in 1 .. Len(queues'), NEW m \in Waiting(q)'
  PROVE  q \in 1 .. Len(queues) /\ m \in Waiting(q)
<1>1. PICK i \in 1 .. Len(queues'[q]) : m = queues'[q][i]
  BY DEF Waiting
<1>2. Len(queues'[q]) # 0
  BY <1>1 DEF MqTypeOK
<1>3. PICK d \in {0, 1} : i + d \in 1 .. Len(queues[q]) /\ m = queues[q][i + d]
  BY <1>1, <1>2, DrainedPlaces
<1>4. QED
  BY <1>2, <1>3, DrainedPlaces DEF Waiting

(* And after a message has been added.                                      *)
LEMMA AddedWaiting ==
  ASSUME MqTypeOK, NEW q, NEW m, Adds(q, m)
  PROVE  /\ \A p \in 1 .. Len(queues) : p # q => Waiting(p)' = Waiting(p)
         /\ \A x \in Waiting(q)' : x \in Waiting(q) \/ x = m
         /\ \A x \in Waiting(q) : x \in Waiting(q)'
         /\ m \in Waiting(q)'
<1>1. Len(queues[q]) \in Nat
  BY DEF Adds, MqTypeOK
<1>2. QED
  BY <1>1 DEF Adds, Waiting

-----------------------------------------------------------------------------
(* The conjuncts of RoomInv *)

LEMMA OneKindKept ==
  ASSUME CommonAssumption, IInv, IInv', [Next]_vars, OneKindPerQueue
  PROVE  OneKindPerQueue'
<1> SUFFICES ASSUME NEW q \in 1 .. Len(queues'), NEW m \in Waiting(q)', NEW n \in Waiting(q)',
                    m.type = "SymKey"
             PROVE  n.type = "SymKey"
  BY DEF OneKindPerQueue
<1>1. MqTypeOK /\ MqTypeOK'
  BY DEF IInv, TypeOK
<1>2. CASE Drains
  <2>1. q \in 1 .. Len(queues) /\ m \in Waiting(q) /\ n \in Waiting(q)
    BY <1>1, <1>2, DrainedWaiting
  <2>2. QED
    BY <2>1 DEF OneKindPerQueue
<1>3. ASSUME NEW p \in Nat, NEW x \in Message, Posts(p, x), Adds(p, x)
      PROVE  n.type = "SymKey"
  <2>1. p \in 1 .. Len(queues) /\ q \in 1 .. Len(queues)
    BY <1>3 DEF Adds
  <2>2. \A y \in Waiting(p) : x.type = "SymKey" <=> y.type = "SymKey"
    BY <1>3, <2>1, PostedKind
  <2>3. CASE q = p
    <3>1. \A y \in Waiting(q)' : y \in Waiting(q) \/ y = x
      BY <1>1, <1>3, <2>3, AddedWaiting
    <3>2. QED
      BY <2>1, <2>2, <2>3, <3>1 DEF OneKindPerQueue
  <2>4. CASE q # p
    <3>1. Waiting(q)' = Waiting(q)
      BY <1>3, <2>1, <2>4 DEF Adds, Waiting
    <3>2. QED
      BY <2>1, <3>1 DEF OneKindPerQueue
  <2>5. QED
    BY <2>3, <2>4
<1>4. QED
  BY <1>2, <1>3, StepTransfers

(* Before its send, the only sender has no public key anywhere.             *)
LEMMA NoneAnnounced ==
  ASSUME MqTypeOK, DInv, NEW s, Senders = {s}, sndPc[s] \in SenderUnannounced,
         NEW q \in 1 .. Len(queues), NEW m \in Waiting(q)
  PROVE  m.type # "PublicKey"
<1>1. m \in Message
  BY DEF MqTypeOK, Waiting
<1>2. CASE m \in PublicKeyMsg
  <2>1. m.owner = s
    BY <1>2 DEF PublicKeyMsg
  <2>2. QED
    BY <2>1 DEF DInv, PublicKeysPlaced
<1>3. QED
  BY <1>1, <1>2 DEF Message, SymKeyMsg, PeriodicMsg

LEMMA PostedPublicKey ==
  ASSUME NEW s, Senders = {s}, NEW q, NEW m, Posts(q, m), m.type = "PublicKey"
  PROVE  SendPublicKey(s) /\ sndPc[s] \in SenderUnannounced
BY DEF Posts, Periodic, SymKey, SendPublicKey, SenderGoes, SenderUnannounced

LEMMA OnePublicKeyKept ==
  ASSUME CommonAssumption, IInv, IInv', DInv, [Next]_vars, OnePublicKey,
         NEW s, Senders = {s}
  PROVE  OnePublicKey'
<1> SUFFICES ASSUME NEW p \in 1 .. Len(queues'), NEW q \in 1 .. Len(queues'),
                    NEW i \in 1 .. Len(queues'[p]), NEW j \in 1 .. Len(queues'[q]),
                    queues'[p][i].type = "PublicKey", queues'[q][j].type = "PublicKey"
             PROVE  p = q /\ i = j
  BY DEF OnePublicKey
<1>1. MqTypeOK /\ MqTypeOK'
  BY DEF IInv, TypeOK
<1>2. i \in Nat \ {0} /\ j \in Nat \ {0}
      /\ Len(queues'[p]) \in Nat \ {0} /\ Len(queues'[q]) \in Nat \ {0}
  BY <1>1 DEF MqTypeOK
<1>3. CASE Drains
  <2>1. PICK d \in {0, 1} :
          \A k \in 1 .. Len(queues'[p]) :
            k + d \in 1 .. Len(queues[p]) /\ queues'[p][k] = queues[p][k + d]
    BY <1>1, <1>2, <1>3, DrainedPlaces
  <2>2. PICK e \in {0, 1} :
          \A k \in 1 .. Len(queues'[q]) :
            k + e \in 1 .. Len(queues[q]) /\ queues'[q][k] = queues[q][k + e]
    BY <1>1, <1>2, <1>3, DrainedPlaces
  <2>3. p \in 1 .. Len(queues) /\ q \in 1 .. Len(queues)
    BY <1>1, <1>2, <1>3, DrainedPlaces
  <2>4. p = q
    <3>1. i + d \in 1 .. Len(queues[p]) /\ queues[p][i + d].type = "PublicKey"
      BY <2>1
    <3>2. j + e \in 1 .. Len(queues[q]) /\ queues[q][j + e].type = "PublicKey"
      BY <2>2
    <3>3. QED
      BY <2>3, <3>1, <3>2 DEF OnePublicKey
  <2>5. i + d = j + d
    <3>1. /\ i + d \in 1 .. Len(queues[p]) /\ j + d \in 1 .. Len(queues[p])
          /\ queues[p][i + d].type = "PublicKey" /\ queues[p][j + d].type = "PublicKey"
      BY <2>1, <2>4
    <3>2. QED
      BY <2>3, <3>1 DEF OnePublicKey
  <2>6. QED
    BY <1>2, <2>4, <2>5
<1>4. ASSUME NEW a \in Nat, NEW x \in Message, Posts(a, x), Adds(a, x)
      PROVE  p = q /\ i = j
  <2> DEFINE Old(b, k) == /\ b \in 1 .. Len(queues) /\ k \in 1 .. Len(queues[b])
                          /\ queues'[b][k] = queues[b][k]
             New(b, k) == b = a /\ k = Len(queues[a]) + 1 /\ queues'[b][k] = x
  <2>1. \A b \in 1 .. Len(queues') : \A k \in 1 .. Len(queues'[b]) : Old(b, k) \/ New(b, k)
    <3> TAKE b \in 1 .. Len(queues')
    <3> TAKE k \in 1 .. Len(queues'[b])
    <3>1. b \in 1 .. Len(queues) /\ a \in 1 .. Len(queues)
      BY <1>4 DEF Adds
    <3>2. Len(queues[a]) \in Nat
      <4> HIDE DEF Old, New
      <4>1. queues[a] \in Seq(Message)
        BY <1>1, <3>1 DEF MqTypeOK
      <4>2. QED
        BY <4>1
    <3>3. CASE b # a
      <4> HIDE DEF New
      <4>1. \A c \in 1 .. Len(queues) : c # a => queues'[c] = queues[c]
        BY <1>4 DEF Adds
      <4>2. queues'[b] = queues[b]
        BY <3>1, <3>3, <4>1
      <4>3. k \in 1 .. Len(queues[b])
        <5> HIDE DEF Old
        <5> QED
          BY <4>2
      <4>4. queues'[b][k] = queues[b][k]
        BY <4>2
      <4>5. QED
        BY <3>1, <4>3, <4>4
    <3>4. CASE b = a
      <4>1. k \in 1 .. Len(queues[a]) \/ k = Len(queues[a]) + 1
        BY <1>4, <3>2, <3>4 DEF Adds
      <4>2. QED
        BY <1>4, <3>1, <3>4, <4>1 DEF Adds
    <3>5. QED
      BY <3>3, <3>4
  <2>2. CASE x.type = "PublicKey"
    <3>1. \A b \in 1 .. Len(queues) : \A k \in 1 .. Len(queues[b]) :
            queues[b][k].type # "PublicKey"
      BY <1>1, <1>4, <2>2, PostedPublicKey, NoneAnnounced DEF Waiting
    <3>2. New(p, i) /\ New(q, j)
      BY <2>1, <3>1
    <3>3. QED
      BY <3>2
  <2>3. CASE x.type # "PublicKey"
    <3>1. Old(p, i) /\ Old(q, j)
      BY <2>1, <2>3
    <3>2. QED
      BY <3>1 DEF OnePublicKey
  <2>4. QED
    BY <2>2, <2>3
<1>5. QED
  BY <1>3, <1>4, StepTransfers

LEMMA PublicKeyLoadedKept ==
  ASSUME CommonAssumption, IInv, IInv', DInv, [Next]_vars, OnePublicKey, PublicKeyLoaded,
         NEW s, Senders = {s}
  PROVE  PublicKeyLoaded'
<1> SUFFICES ASSUME NEW r \in Receivers, rcvPub'[r] # None,
                    NEW q \in 1 .. Len(queues'), NEW m \in Waiting(q)', m.type = "PublicKey"
             PROVE  FALSE
  BY DEF PublicKeyLoaded
<1>1. MqTypeOK /\ MqTypeOK'
  BY DEF IInv, TypeOK
<1>2. CASE rcvPub[r] # None
  <2>1. ~(q \in 1 .. Len(queues) /\ m \in Waiting(q))
    BY <1>2 DEF PublicKeyLoaded
  <2>2. Posts(q, m)
    BY <2>1, NewMessage
  <2>3. sndPc[s] \in SenderUnannounced
    BY <2>2, PostedPublicKey
  <2>4. rcvPub[r] = s
    BY <1>2 DEF IInv, TypeOK, ReceiverTypeOK
  <2>5. QED
    BY <1>2, <2>3, <2>4 DEF DInv, PublicKeysPlaced
<1>3. CASE rcvPub[r] = None
  <2> DEFINE a == rcvIn[r]
  <2>1. a \in 1 .. Len(queues) /\ MqReceive(a) /\ Head(queues[a]).type = "PublicKey"
    BY <1>3, NewPublicKey
  <2>2. /\ Len(queues') = Len(queues)
        /\ \A p \in 1 .. Len(queues) : p # a => queues'[p] = queues[p]
        /\ Len(queues[a]) \in Nat \ {0}
        /\ queues[a][1].type = "PublicKey"
        /\ Len(queues'[a]) = Len(queues[a]) - 1
        /\ \A i \in 1 .. Len(queues'[a]) : queues'[a][i] = queues[a][i + 1]
    BY <1>1, <2>1, ReceiveEffect
  <2>3. PICK i \in 1 .. Len(queues'[q]) : m = queues'[q][i]
    BY DEF Waiting
  <2>4. 1 \in 1 .. Len(queues[a])
    BY <2>2
  <2>5. CASE q = a
    <3>1. i + 1 \in 1 .. Len(queues[a]) /\ queues[a][i + 1].type = "PublicKey" /\ i + 1 # 1
      BY <2>2, <2>3, <2>5
    <3>2. QED
      BY <2>1, <2>2, <2>4, <3>1 DEF OnePublicKey
  <2>6. CASE q # a
    BY <2>1, <2>2, <2>3, <2>4, <2>6 DEF OnePublicKey
  <2>7. QED
    BY <2>5, <2>6
<1>4. QED
  BY <1>2, <1>3

(* The only sender counts each frame that it adds.                          *)
LEMMA PostCounted ==
  ASSUME CommonAssumption, IInv, NEW s, Senders = {s}, NEW q, NEW m, Posts(q, m)
  PROVE  \/ m.type = "SymKey"
         \/ m.type = "PublicKey" /\ SendPublicKey(s)
         \/ m.type = "Periodic" /\ sndIndex'[s] = sndIndex[s] + 1
<1>1. sndIndex \in [Senders -> Nat]
  BY CommonAssumption DEF IInv, TypeOK, SenderTypeOK
<1>2. QED
  BY <1>1 DEF Posts, PublicKey, Periodic, SymKey, SendPeriodicMessage

LEMMA FramesCountedKept ==
  ASSUME CommonAssumption, IInv, IInv', DInv, [Next]_vars,
         OneKindPerQueue, FramesCounted, NEW s, Senders = {s}
  PROVE  FramesCounted'
<1> SUFFICES ASSUME NEW q \in 1 .. Len(queues'),
                    ~ \E m \in Waiting(q)' : m.type = "SymKey"
             PROVE  \/ Len(queues'[q]) <= sndIndex'[s]
                    \/ HoldsPublicKey(q)' /\ Len(queues'[q]) <= sndIndex'[s] + 1
  BY DEF FramesCounted
<1>1. MqTypeOK /\ MqTypeOK' /\ sndIndex[s] \in Nat /\ sndIndex'[s] \in Nat
  BY CommonAssumption DEF IInv, TypeOK, SenderTypeOK
<1>2. sndIndex[s] <= sndIndex'[s]
  BY StepProgress DEF Progress
<1>3. Len(queues'[q]) \in Nat
  BY <1>1 DEF MqTypeOK
<1>4. CASE Len(queues'[q]) = 0
  BY <1>1, <1>4
<1>5. CASE Drains /\ Len(queues'[q]) # 0
  <2>1. q \in 1 .. Len(queues) /\ Len(queues[q]) \in Nat
    BY <1>1, <1>5, DrainedPlaces
  <2>2. PICK d \in {0, 1} :
          /\ Len(queues'[q]) + d <= Len(queues[q])
          /\ \A i \in 1 .. Len(queues'[q]) :
               i + d \in 1 .. Len(queues[q]) /\ queues'[q][i] = queues[q][i + d]
    BY <1>1, <1>5, DrainedPlaces
  <2>3. ~ \E m \in Waiting(q) : m.type = "SymKey"
    <3>1. queues'[q][1] \in Waiting(q)'
      BY <1>3, <1>5 DEF Waiting
    <3>2. queues'[q][1] \in Waiting(q) /\ queues'[q][1].type # "SymKey"
      BY <1>1, <1>5, <3>1, DrainedWaiting
    <3>3. QED
      BY <2>1, <3>2 DEF OneKindPerQueue
  <2>4. CASE Len(queues[q]) <= sndIndex[s]
    BY SMTT(30), <1>1, <1>2, <1>3, <2>1, <2>2, <2>4
  <2>5. CASE HoldsPublicKey(q) /\ Len(queues[q]) <= sndIndex[s] + 1
    <3>1. CASE Len(queues'[q]) < Len(queues[q])
      BY SMTT(30), <1>1, <1>2, <1>3, <2>1, <2>5, <3>1
    <3>2. CASE Len(queues'[q]) = Len(queues[q])
      <4>1. d = 0
        BY <1>3, <2>1, <2>2, <3>2
      <4>2. \A i \in 1 .. Len(queues[q]) : queues'[q][i] = queues[q][i]
        BY <2>1, <2>2, <3>2, <4>1
      <4>3. Waiting(q)' = Waiting(q)
        BY <3>2, <4>2 DEF Waiting
      <4>4. HoldsPublicKey(q)'
        BY <2>5, <4>3 DEF HoldsPublicKey
      <4>5. QED
        BY <1>1, <1>2, <1>3, <2>1, <2>5, <3>2, <4>4
    <3>3. QED
      BY <1>3, <2>1, <2>2, <3>1, <3>2
  <2>6. QED
    BY <2>1, <2>3, <2>4, <2>5 DEF FramesCounted
<1>6. ASSUME NEW a \in Nat, NEW x \in Message, Posts(a, x), Adds(a, x)
      PROVE  \/ Len(queues'[q]) <= sndIndex'[s]
             \/ HoldsPublicKey(q)' /\ Len(queues'[q]) <= sndIndex'[s] + 1
  <2>1. q \in 1 .. Len(queues) /\ a \in 1 .. Len(queues) /\ Len(queues[q]) \in Nat
    BY <1>1, <1>6 DEF Adds, MqTypeOK
  <2>2. /\ \A p \in 1 .. Len(queues) : p # a => Waiting(p)' = Waiting(p)
        /\ \A m \in Waiting(a) : m \in Waiting(a)'
        /\ x \in Waiting(a)'
    BY <1>1, <1>6, AddedWaiting
  <2>3. ~ \E m \in Waiting(q) : m.type = "SymKey"
    BY <2>1, <2>2
  <2>4. \/ Len(queues[q]) <= sndIndex[s]
        \/ HoldsPublicKey(q) /\ Len(queues[q]) <= sndIndex[s] + 1
    BY <2>1, <2>3 DEF FramesCounted
  <2>5. HoldsPublicKey(q) => HoldsPublicKey(q)'
    BY <2>1, <2>2 DEF HoldsPublicKey
  <2>6. CASE q # a
    <3>1. Len(queues'[q]) = Len(queues[q])
      BY <1>6, <2>1, <2>6 DEF Adds
    <3>2. QED
      BY SMTT(30), <1>1, <1>2, <2>1, <2>4, <2>5, <3>1
  <2>7. CASE q = a /\ x.type = "Periodic" /\ sndIndex'[s] = sndIndex[s] + 1
    <3>1. Len(queues'[q]) = Len(queues[q]) + 1
      BY <1>6, <2>7 DEF Adds
    <3>2. QED
      BY SMTT(30), <1>1, <2>1, <2>4, <2>5, <2>7, <3>1
  <2>8. CASE q = a /\ x.type = "PublicKey" /\ SendPublicKey(s)
    <3>1. Len(queues'[q]) = Len(queues[q]) + 1
      BY <1>6, <2>8 DEF Adds
    <3>2. ~HoldsPublicKey(q)
      <4>1. sndPc[s] \in SenderUnannounced
        BY <2>8 DEF SendPublicKey, SenderGoes, SenderUnannounced
      <4>2. QED
        BY <1>1, <2>1, <4>1, NoneAnnounced DEF HoldsPublicKey
    <3>3. HoldsPublicKey(q)'
      BY <2>2, <2>8 DEF HoldsPublicKey
    <3>4. QED
      BY SMTT(30), <1>1, <1>2, <2>1, <2>4, <3>1, <3>2, <3>3
  <2>9. QED
    BY <1>6, <2>2, <2>6, <2>7, <2>8, PostCounted
<1>7. QED
  BY <1>4, <1>5, <1>6, StepTransfers

-----------------------------------------------------------------------------
(* The results *)

LEMMA RoomInitially == Init => RoomInv
BY DEF Init, MqInit, ReceiverInit, RoomInv, OneKindPerQueue, OnePublicKey,
   PublicKeyLoaded, FramesCounted

LEMMA RoomLeft ==
  ASSUME CommonAssumption, IInv, RoomInv, kNumMessagesToSend <= kMaxMessages,
         NEW s, Senders = {s}
  PROVE  PeriodicSendNeverBlocks
<1> SUFFICES ASSUME sndPc[s] = "periodic", sndKey[s] \in Receivers
             PROVE  ~SenderWaits(s)
  BY DEF PeriodicSendNeverBlocks
<1> DEFINE q == sndOut[s]
<1>1. q \in 1 .. Len(queues) /\ sndIndex[s] < kNumMessagesToSend /\ sndIndex[s] \in Nat
      /\ Len(queues[q]) \in Nat
  BY CommonAssumption DEF IInv, TypeOK, MqTypeOK, SenderTypeOK, DescriptorsValid,
     KeyedBeforeUse, SenderConnected, NoQueue
<1>2. ~HoldsPublicKey(q)
  <2>1. rcvPub[sndKey[s]] # None
    BY CommonAssumption DEF IInv, KeyAgreement
  <2>2. QED
    BY <1>1, <2>1 DEF RoomInv, PublicKeyLoaded, HoldsPublicKey
<1>3. \A m \in Waiting(q) : m.type # "SymKey"
  <2>1. Forward(q)
    BY DEF Forward
  <2>2. QED
    BY <1>1, <2>1 DEF IInv, ChannelsSeparate, Waiting, PublicKeyMsg, PeriodicMsg
<1>4. Len(queues[q]) <= sndIndex[s]
  BY <1>1, <1>2, <1>3 DEF RoomInv, FramesCounted
<1>5. Len(queues[q]) # kMaxMessages
  BY <1>1, <1>4, CommonAssumption
<1>6. QED
  BY <1>5 DEF SenderWaits

(* RoomInv: with a single sender no queue holds more than its frames so     *)
(* far and its one public key, which is gone when a receiver has loaded it *)
(* (send_public_key, get_public_key and send_periodic_message).            *)
THEOREM RoomInvariant ==
  ASSUME NEW s, Senders = {s} PROVE Spec => []RoomInv
<1>1. CommonAssumption
  BY CommonAssumption
<1>2. RoomInv /\ IInv /\ IInv' /\ DInv /\ [Next]_vars => RoomInv'
  BY <1>1, OneKindKept, OnePublicKeyKept, PublicKeyLoadedKept, FramesCountedKept DEF RoomInv
<1>3. QED
  BY <1>2, RoomInitially, Invariant, DeliveryInvariant, PTL DEF Spec

(* PeriodicSendNeverBlocks: if the queue holds as many messages as the only *)
(* sender has frames, none of its periodic sends under a receiver's key    *)
(* blocks, whatever becomes of the receivers (send_periodic_message and    *)
(* the constants of common.hpp).                                           *)
THEOREM SendsNeverBlock ==
  ASSUME NEW s, Senders = {s}, kNumMessagesToSend <= kMaxMessages
  PROVE  Spec => []PeriodicSendNeverBlocks
<1>1. IInv /\ RoomInv => PeriodicSendNeverBlocks
  BY CommonAssumption, RoomLeft
<1>2. QED
  BY <1>1, RoomInvariant, Invariant, PTL
=============================================================================
