-------------------------- MODULE CmacStreamProofs --------------------------
(***************************************************************************)
(* CmacStream implements TaggedFrames, for any senders and receivers on    *)
(* one queue, any number of frames, and any sizes of a public key and of   *)
(* the receive buffer that satisfy CmacStreamAssumption.                   *)
(***************************************************************************)
EXTENDS CmacStream, SequenceTheorems, TLAPS

-----------------------------------------------------------------------------
(* Byte strings *)

LEMMA Bytes ==
  ASSUME NEW n \in Nat, NEW f, f = [i \in 1 .. n |-> f[i]]
  PROVE  f \in Seq({f[i] : i \in 1 .. n}) /\ Len(f) = n
<1> DEFINE S == {f[i] : i \in 1 .. n}
<1>1. f \in [1 .. n -> S]
  OBVIOUS
<1>2. f \in Seq(S)
  BY <1>1, SeqDef
<1>3. 1 .. Len(f) = 1 .. n /\ Len(f) \in Nat
  BY <1>1, <1>2, LenProperties
<1>4. QED
  BY <1>2, <1>3

LEMMA Slice ==
  ASSUME NEW f, NEW m \in Nat \ {0}, NEW n \in Nat, m <= n
  PROVE  SubSeq(f, m, n) = [i \in 1 .. n - m + 1 |-> f[i + m - 1]]
<1> DEFINE S == {f[i] : i \in m .. n}
<1>1. /\ SubSeq(f, m, n) \in Seq(S)
      /\ Len(SubSeq(f, m, n)) = n - m + 1
      /\ \A i \in 1 .. n - m + 1 : SubSeq(f, m, n)[i] = f[i + m - 1]
  BY SubSeqProperties
<1>2. QED
  BY <1>1, LenProperties

LEMMA LastBytes ==
  ASSUME NEW f, NEW l \in Nat, l >= 16
  PROVE  SubSeq(f, l - 16 + 1, l) = [i \in 1 .. 16 |-> f[i + l - 16]]
<1>1. l - 16 + 1 \in Nat \ {0} /\ l - 16 + 1 <= l
  OBVIOUS
<1>2. SubSeq(f, l - 16 + 1, l)
        = [i \in 1 .. l - (l - 16 + 1) + 1 |-> f[i + (l - 16 + 1) - 1]]
  BY <1>1, Slice
<1>3. l - (l - 16 + 1) + 1 = 16 /\ \A i \in 1 .. 16 : i + (l - 16 + 1) - 1 = i + l - 16
  OBVIOUS
<1>4. QED
  BY <1>2, <1>3

LEMMA FirstBytes ==
  ASSUME NEW f, NEW n \in Nat
  PROVE  SubSeq(f, 1, n) = [i \in 1 .. n |-> f[i]]
<1>1. CASE n = 0
  BY <1>1, SubSeqEmpty
<1>2. CASE 1 <= n
  <2>1. SubSeq(f, 1, n) = [i \in 1 .. n - 1 + 1 |-> f[i + 1 - 1]]
    BY <1>2, Slice
  <2>2. n - 1 + 1 = n /\ \A i \in 1 .. n : i + 1 - 1 = i
    OBVIOUS
  <2>3. QED
    BY <2>1, <2>2
<1>3. QED
  BY <1>1, <1>2

(* A MAC object that is at rest absorbs one string, tags it, is at rest.    *)
LEMMA OneUse ==
  ASSUME NEW k, NEW n \in Nat, NEW d, d = [i \in 1 .. n |-> d[i]]
  PROVE  /\ Final(Update(SetKey(k), d)) = Tag(k, d)
         /\ AfterFinal(Update(SetKey(k), d)) = SetKey(k)
<1>1. <<>> \o d = d
  BY Bytes, ConcatEmptySeq
<1>2. Update(SetKey(k), d) = [key |-> k, fed |-> d]
  BY <1>1 DEF Update, SetKey
<1>3. Final(Update(SetKey(k), d)) = Tag(k, d)
  BY <1>2 DEF Final
<1>4. AfterFinal(Update(SetKey(k), d)) = SetKey(k)
  BY <1>2 DEF AfterFinal, SetKey
<1>5. QED
  BY <1>3, <1>4

LEMMA TagOf ==
  ASSUME NEW k, NEW d
  PROVE  /\ Tag(k, d) = [i \in 1 .. 16 |-> Tag(k, d)[i]]
         /\ \A i \in 1 .. 16 : /\ Tag(k, d)[i].kind = "tag"
                               /\ Tag(k, d)[i].key = k
BY DEF Tag, TagByte, kCmacSize

-----------------------------------------------------------------------------
(* Messages *)

LEMMA ContentOf ==
  ASSUME NEW i
  PROVE  /\ Content(i) = [j \in 1 .. 20 |-> Content(i)[j]]
         /\ Content(i)[20] = Plain(CounterByte(i))
         /\ \A j \in 1 .. 19 : Content(i)[j] = Plain(255)
BY DEF Content, kBufferSize

LEMMA FrameOf ==
  ASSUME NEW i, NEW k
  PROVE  /\ Frame(i, k) = [j \in 1 .. 36 |-> Frame(i, k)[j]]
         /\ Len(Frame(i, k)) = 36
         /\ \A j \in 1 .. 20 : Frame(i, k)[j] = Content(i)[j]
         /\ \A j \in 1 .. 16 : Frame(i, k)[j + 20] = Tag(k, Content(i))[j]
<1>1. Frame(i, k) = [j \in 1 .. 36 |-> IF j > 20 THEN Tag(k, Content(i))[j - 20]
                                       ELSE Content(i)[j]]
  BY DEF Frame, Tagged, FrameSize, kBufferSize, kCmacSize
<1>2. Frame(i, k) = [j \in 1 .. 36 |-> Frame(i, k)[j]]
  BY <1>1
<1>3. \A j \in 1 .. 20 : Frame(i, k)[j] = Content(i)[j]
  BY <1>1
<1>4. \A j \in 1 .. 16 : Frame(i, k)[j + 20] = Tag(k, Content(i))[j]
  BY <1>1
<1>5. QED
  BY <1>2, <1>3, <1>4, Bytes

LEMMA DerOf ==
  ASSUME NEW s
  PROVE  /\ Der(s) = [i \in 1 .. DerSize |-> Der(s)[i]]
         /\ Len(Der(s)) = DerSize
         /\ \A i \in 1 .. DerSize : Der(s)[i] = DerByte(s, i)
<1>1. Der(s) = [i \in 1 .. DerSize |-> Der(s)[i]]
  BY DEF Der
<1>2. Len(Der(s)) = DerSize
  BY <1>1, Bytes, CmacStreamAssumption
<1>3. QED
  BY <1>1, <1>2 DEF Der

LEMMA DecodeFrame ==
  ASSUME NEW i, NEW k
  PROVE  Decode(Frame(i, k)) = Periodic(i, k)
<1>1. Frame(i, k)[36] = Tag(k, Content(i))[16]
  BY FrameOf, 16 + 20 = 36
<1>2. Frame(i, k)[36].kind = "tag" /\ Frame(i, k)[36].key = k
  BY <1>1, TagOf
<1>3. Frame(i, k)[20] = Plain(CounterByte(i))
  BY FrameOf, ContentOf
<1>4. Frame(i, k)[20].val = CounterByte(i)
  BY <1>3 DEF Plain
<1>5. Len(Frame(i, k)) = 36
  BY FrameOf
<1>6. QED
  BY <1>2, <1>4, <1>5 DEF Decode, Periodic, kBufferSize

LEMMA DecodeDer ==
  ASSUME NEW s
  PROVE  Decode(Der(s)) = PublicKey(s)
<1>1. 1 \in 1 .. DerSize /\ DerSize \in 1 .. DerSize
  BY CmacStreamAssumption DEF kCmacSize
<1>2. Der(s)[DerSize] = DerByte(s, DerSize) /\ Der(s)[1] = DerByte(s, 1)
  BY <1>1, DerOf
<1>3. Der(s)[DerSize].kind = "der" /\ Der(s)[1].owner = s
  BY <1>2 DEF DerByte
<1>4. Len(Der(s)) = DerSize
  BY DerOf
<1>5. QED
  BY <1>3, <1>4 DEF Decode

LEMMA MessageBytes ==
  ASSUME NEW m \in Messages
  PROVE  /\ m = [i \in 1 .. Len(m) |-> m[i]]
         /\ Len(m) \in Nat /\ Len(m) >= 16 /\ Len(m) <= kMessageSize
<1>1. CASE \E s \in Senders : m = Der(s)
  BY <1>1, DerOf, CmacStreamAssumption DEF kCmacSize
<1>2. CASE \E i \in 0 .. kNumMessagesToSend - 1, s \in Senders : m = Frame(i, KeyOf[s])
  <2>1. PICK i \in 0 .. kNumMessagesToSend - 1, s \in Senders : m = Frame(i, KeyOf[s])
    BY <1>2
  <2>2. Len(m) = 36 /\ m = [j \in 1 .. 36 |-> m[j]]
    BY <2>1, FrameOf
  <2>3. QED
    BY <2>2, CmacStreamAssumption DEF FrameSize, kBufferSize, kCmacSize
<1>3. QED
  BY <1>1, <1>2 DEF Messages
-----------------------------------------------------------------------------
(* One frame sent, one message received *)

LEMMA SentFrame ==
  ASSUME NEW buffer, DOMAIN buffer = 1 .. FrameSize,
         \A j \in 1 .. kBufferSize - 1 : buffer[j] = Plain(255),
         NEW i, NEW k
  PROVE  LET counted == Counted(buffer, i)
             mac     == Update(SetKey(k), Covered(counted))
         IN  /\ Tagged(counted, Final(mac)) = Frame(i, k)
             /\ AfterFinal(mac) = SetKey(k)
<1> DEFINE counted == Counted(buffer, i)
<1>1. \A j \in 1 .. 20 : counted[j] = Content(i)[j]
  <2>1. counted[20] = Plain(CounterByte(i))
    BY DEF Counted, FrameSize, kBufferSize, kCmacSize
  <2>2. \A j \in 1 .. 19 : counted[j] = Plain(255)
    BY DEF Counted, FrameSize, kBufferSize, kCmacSize
  <2>3. QED
    BY <2>1, <2>2, ContentOf
<1>2. Covered(counted) = Content(i)
  <2>1. Covered(counted) = [j \in 1 .. 20 |-> counted[j]]
    BY Slice DEF Covered, kBufferSize
  <2>2. QED
    BY <1>1, <2>1, ContentOf
<1>3. /\ Final(Update(SetKey(k), Content(i))) = Tag(k, Content(i))
      /\ AfterFinal(Update(SetKey(k), Content(i))) = SetKey(k)
  BY OneUse, ContentOf
<1>4. Tagged(counted, Tag(k, Content(i))) = Frame(i, k)
  BY <1>1 DEF Frame, Tagged, FrameSize, kBufferSize, kCmacSize
<1>5. QED
  BY <1>2, <1>3, <1>4

LEMMA ReceivedMessage ==
  ASSUME NEW m \in Messages, NEW buffer
  PROVE  Exact(Received(buffer, m), Len(m)) = m
<1>1. /\ m = [i \in 1 .. Len(m) |-> m[i]]
      /\ Len(m) \in Nat /\ 1 <= Len(m) /\ Len(m) <= kMessageSize /\ kMessageSize \in Nat
  BY MessageBytes, CmacStreamAssumption
<1>2. \A i \in 1 .. Len(m) : Received(buffer, m)[i] = m[i]
  BY <1>1 DEF Received
<1>3. Exact(Received(buffer, m), Len(m)) = [i \in 1 .. Len(m) |-> Received(buffer, m)[i]]
  BY <1>1, Slice DEF Exact
<1>4. QED
  BY <1>1, <1>2, <1>3

LEMMA TrailerOf ==
  ASSUME NEW m \in Messages
  PROVE  Trailer(m) = [i \in 1 .. 16 |-> m[i + Len(m) - 16]]
<1>1. Len(m) \in Nat /\ Len(m) >= 16
  BY MessageBytes
<1>2. Trailer(m) = SubSeq(m, Len(m) - 16 + 1, Len(m))
  BY DEF Trailer, kCmacSize
<1>3. QED
  BY <1>1, <1>2, LastBytes

LEMMA MacOfPayload ==
  ASSUME NEW m \in Messages, NEW k
  PROVE  /\ Final(Update(SetKey(k), Payload(m))) = Tag(k, Payload(m))
         /\ AfterFinal(Update(SetKey(k), Payload(m))) = SetKey(k)
<1>1. Len(m) - 16 \in Nat
  BY MessageBytes
<1>2. Payload(m) = SubSeq(m, 1, Len(m) - 16)
  BY DEF Payload, kCmacSize
<1>3. Payload(m) = [i \in 1 .. Len(m) - 16 |-> m[i]]
  BY <1>1, <1>2, FirstBytes
<1>4. Payload(m) = [i \in 1 .. Len(m) - 16 |-> Payload(m)[i]]
  BY <1>3
<1>5. QED
  BY <1>1, <1>4, OneUse

(* The comparison of receive_periodic_messages is TagMatches.               *)
LEMMA Comparison ==
  ASSUME NEW m \in Messages, NEW k
  PROVE  (Trailer(m) = Tag(k, Payload(m))) <=> TagMatches(k, Decode(m))
<1>1. ASSUME NEW s \in Senders, m = Der(s)
      PROVE  Trailer(m) # Tag(k, Payload(m)) /\ ~TagMatches(k, Decode(m))
  <2>1. DerSize \in Nat /\ DerSize >= 16 /\ Len(m) = DerSize
    BY <1>1, DerOf, CmacStreamAssumption DEF kCmacSize
  <2>2. Trailer(m)[16] = m[DerSize]
    <3>1. Trailer(m) = [i \in 1 .. 16 |-> m[i + DerSize - 16]]
      BY <2>1, TrailerOf
    <3>2. 16 + DerSize - 16 = DerSize
      BY <2>1
    <3>3. QED
      BY <3>1, <3>2
  <2>3. m[DerSize].kind = "der"
    <3>1. DerSize \in 1 .. DerSize
      BY <2>1
    <3>2. m[DerSize] = DerByte(s, DerSize)
      BY <1>1, <3>1, DerOf
    <3>3. QED
      BY <3>2 DEF DerByte
  <2>4. Tag(k, Payload(m))[16].kind = "tag"
    BY TagOf, 16 \in 1 .. 16
  <2>5. Decode(m).type = "PublicKey"
    BY <1>1, DecodeDer DEF PublicKey
  <2>6. QED
    BY <2>2, <2>3, <2>4, <2>5 DEF TagMatches
<1>2. ASSUME NEW i \in 0 .. kNumMessagesToSend - 1, NEW s \in Senders,
             m = Frame(i, KeyOf[s])
      PROVE  (Trailer(m) = Tag(k, Payload(m))) <=> TagMatches(k, Decode(m))
  <2>1. Len(m) = 36
    BY <1>2, FrameOf
  <2>2. Payload(m) = Content(i)
    <3>1. Payload(m) = [j \in 1 .. 20 |-> m[j]]
      BY <2>1, Slice DEF Payload, kCmacSize
    <3>2. QED
      BY <1>2, <3>1, FrameOf, ContentOf
  <2>3. Trailer(m) = Tag(KeyOf[s], Content(i))
    <3>1. Trailer(m) = [j \in 1 .. 16 |-> m[j + 20]]
      <4>1. Trailer(m) = [j \in 1 .. 16 |-> m[j + 36 - 16]]
        BY <2>1, TrailerOf
      <4>2. \A j \in 1 .. 16 : j + 36 - 16 = j + 20
        OBVIOUS
      <4>3. QED
        BY <4>1, <4>2
    <3>2. \A j \in 1 .. 16 : m[j + 20] = Tag(KeyOf[s], Content(i))[j]
      BY <1>2, FrameOf
    <3>3. QED
      BY <3>1, <3>2, TagOf
  <2>4. Tag(KeyOf[s], Content(i)) = Tag(k, Content(i)) <=> KeyOf[s] = k
    <3>1. Tag(KeyOf[s], Content(i))[1].key = KeyOf[s] /\ Tag(k, Content(i))[1].key = k
      BY TagOf
    <3>2. QED
      BY <3>1
  <2>5. TagMatches(k, Decode(m)) <=> KeyOf[s] = k
    BY <1>2, DecodeFrame DEF TagMatches, Periodic
  <2>6. QED
    BY <2>2, <2>3, <2>4, <2>5
<1>3. QED
  BY <1>1, <1>2 DEF Messages
-----------------------------------------------------------------------------
(* The invariant *)

LEMMA StreamInit == Init => StreamInv
<1> SUFFICES ASSUME Init PROVE StreamInv
  OBVIOUS
<1>1. kNumMessagesToSend \in Nat
  BY CommonAssumption
<1>2. \A s \in Senders :
        /\ DOMAIN sndBuffer[s] = 1 .. FrameSize
        /\ \A j \in 1 .. kBufferSize - 1 : sndBuffer[s][j] = Plain(255)
  <2> TAKE s \in Senders
  <2>1. sndBuffer[s] = [i \in 1 .. 36 |-> Plain(255)]
    BY DEF Init, FrameSize, kBufferSize, kCmacSize
  <2>2. QED
    BY <2>1 DEF FrameSize, kBufferSize, kCmacSize
<1>3. verdicts \in [Receivers -> Seq([msg : Messages, matched : BOOLEAN])]
  BY EmptySeq DEF Init
<1>4. queue \in Seq(Messages)
  BY EmptySeq DEF Init
<1>5. /\ announced \in [Senders -> BOOLEAN]
      /\ sndIndex \in [Senders -> 0 .. kNumMessagesToSend]
      /\ DOMAIN sndBuffer = Senders
  BY <1>1 DEF Init
<1>6. QED
  BY <1>2, <1>3, <1>4, <1>5 DEF Init, StreamInv

(* What the three actions do to the bytes, given that all is at rest.       *)
LEMMA SendEffect ==
  ASSUME StreamInv, NEW s \in Senders, SendPeriodicMessage(s)
  PROVE  /\ sndIndex[s] \in 0 .. kNumMessagesToSend - 1
         /\ queue' = Append(queue, Frame(sndIndex[s], KeyOf[s]))
         /\ sndBuffer' = [sndBuffer EXCEPT ![s] = Frame(sndIndex[s], KeyOf[s])]
         /\ sndMac' = sndMac
         /\ sndIndex' = [sndIndex EXCEPT ![s] = @ + 1]
<1> DEFINE i == sndIndex[s]
           k == KeyOf[s]
           counted == Counted(sndBuffer[s], i)
           mac == Update(SetKey(k), Covered(counted))
<1>1. i \in 0 .. kNumMessagesToSend - 1
  BY CommonAssumption DEF StreamInv, SendPeriodicMessage
<1>2. sndMac[s] = SetKey(k) /\ sndMac = [t \in Senders |-> SetKey(KeyOf[t])]
  BY DEF StreamInv
<1>3. Tagged(counted, Final(mac)) = Frame(i, k) /\ AfterFinal(mac) = SetKey(k)
  <2>1. /\ DOMAIN sndBuffer[s] = 1 .. FrameSize
        /\ \A j \in 1 .. kBufferSize - 1 : sndBuffer[s][j] = Plain(255)
    BY DEF StreamInv
  <2>2. QED
    BY <2>1, SentFrame
<1>4. /\ queue' = Append(queue, Tagged(counted, Final(mac)))
      /\ sndBuffer' = [sndBuffer EXCEPT ![s] = Tagged(counted, Final(mac))]
      /\ sndMac' = [sndMac EXCEPT ![s] = AfterFinal(mac)]
      /\ sndIndex' = [sndIndex EXCEPT ![s] = @ + 1]
  BY <1>2 DEF SendPeriodicMessage
<1>5. sndMac' = sndMac
  <2> HIDE DEF mac, counted
  <2>1. sndMac' = [sndMac EXCEPT ![s] = SetKey(KeyOf[s])]
    BY <1>3, <1>4
  <2>2. QED
    BY <1>2, <2>1
<1>6. QED
  BY <1>1, <1>3, <1>4, <1>5

LEMMA ReceiveEffect ==
  ASSUME StreamInv, NEW r \in Receivers, ReceivePeriodicMessage(r)
  PROVE  /\ queue # <<>> /\ Head(queue) \in Messages
         /\ queue' = Tail(queue)
         /\ rcvMac' = rcvMac
         /\ verdicts' = [verdicts EXCEPT ![r] =
              Append(@, [msg |-> Head(queue),
                         matched |-> TagMatches(r, Decode(Head(queue)))])]
<1> DEFINE m == Head(queue)
           temp == Exact(Received(rcvBuffer[r], m), Len(m))
<1>1. queue # <<>> /\ queue' = Tail(queue)
  BY DEF ReceivePeriodicMessage
<1>2. m \in Messages
  BY <1>1, HeadTailProperties DEF StreamInv
<1>3. temp = m
  BY <1>2, ReceivedMessage
<1>4. rcvMac[r] = SetKey(r) /\ rcvMac = [t \in Receivers |-> SetKey(t)]
  BY DEF StreamInv
<1>5. /\ rcvMac' = [rcvMac EXCEPT ![r] = AfterFinal(Update(SetKey(r), Payload(m)))]
      /\ verdicts' = [verdicts EXCEPT ![r] =
           Append(@, [msg |-> m,
                      matched |-> Trailer(m) = Final(Update(SetKey(r), Payload(m)))])]
  BY <1>3, <1>4 DEF ReceivePeriodicMessage
<1>6. /\ Final(Update(SetKey(r), Payload(m))) = Tag(r, Payload(m))
      /\ AfterFinal(Update(SetKey(r), Payload(m))) = SetKey(r)
  BY <1>2, MacOfPayload
<1>7. (Trailer(m) = Tag(r, Payload(m))) = TagMatches(r, Decode(m))
  <2>1. (Trailer(m) = Tag(r, Payload(m))) <=> TagMatches(r, Decode(m))
    BY <1>2, Comparison
  <2>2. TagMatches(r, Decode(m)) \in BOOLEAN
    BY DEF TagMatches
  <2>3. QED
    BY <2>1, <2>2
<1>8. rcvMac' = rcvMac
  BY <1>4, <1>5, <1>6
<1>9. QED
  BY <1>1, <1>2, <1>5, <1>6, <1>7, <1>8

LEMMA StreamStep == StreamInv /\ [Next]_vars => StreamInv'
<1> SUFFICES ASSUME StreamInv, [Next]_vars PROVE StreamInv'
  OBVIOUS
<1>1. CASE UNCHANGED vars
  BY <1>1 DEF vars, sndVars, rcvVars, StreamInv
<1>2. ASSUME NEW s \in Senders, SendDer(s) PROVE StreamInv'
  <2>1. Der(s) \in Messages
    BY DEF Messages
  <2>2. queue' \in Seq(Messages)
    BY <1>2, <2>1 DEF SendDer, StreamInv
  <2>3. announced' \in [Senders -> BOOLEAN]
    BY <1>2 DEF SendDer, StreamInv
  <2>4. UNCHANGED <<sndIndex, sndBuffer, sndMac, rcvMac, verdicts>>
    BY <1>2 DEF SendDer, rcvVars
  <2>5. QED
    BY <2>2, <2>3, <2>4 DEF StreamInv
<1>3. ASSUME NEW s \in Senders, SendPeriodicMessage(s) PROVE StreamInv'
  <2> DEFINE f == Frame(sndIndex[s], KeyOf[s])
  <2>1. /\ sndIndex[s] \in 0 .. kNumMessagesToSend - 1
        /\ queue' = Append(queue, f)
        /\ sndBuffer' = [sndBuffer EXCEPT ![s] = f]
        /\ sndMac' = sndMac
        /\ sndIndex' = [sndIndex EXCEPT ![s] = @ + 1]
    BY <1>3, SendEffect
  <2>2. f \in Messages
    BY <2>1 DEF Messages
  <2>3. queue' \in Seq(Messages)
    BY <2>1, <2>2 DEF StreamInv
  <2>4. sndIndex' \in [Senders -> 0 .. kNumMessagesToSend]
    BY <2>1, CommonAssumption DEF StreamInv
  <2>5. DOMAIN f = 1 .. FrameSize /\ \A j \in 1 .. kBufferSize - 1 : f[j] = Plain(255)
    <3>1. f = [j \in 1 .. 36 |-> f[j]] /\ \A j \in 1 .. 20 : f[j] = Content(sndIndex[s])[j]
      BY FrameOf
    <3>2. \A j \in 1 .. 19 : f[j] = Plain(255)
      BY <3>1, ContentOf
    <3> HIDE DEF f
    <3>3. DOMAIN f = 1 .. 36
      BY <3>1
    <3>4. QED
      BY <3>2, <3>3 DEF FrameSize, kBufferSize, kCmacSize
  <2>6. /\ DOMAIN sndBuffer' = Senders
        /\ \A t \in Senders :
             /\ DOMAIN sndBuffer'[t] = 1 .. FrameSize
             /\ \A j \in 1 .. kBufferSize - 1 : sndBuffer'[t][j] = Plain(255)
    <3> HIDE DEF f
    <3>1. QED
      BY <2>1, <2>5 DEF StreamInv
  <2>7. UNCHANGED <<announced, rcvMac, verdicts>>
    BY <1>3 DEF SendPeriodicMessage, rcvVars
  <2>8. QED
    BY <2>1, <2>3, <2>4, <2>6, <2>7 DEF StreamInv
<1>4. ASSUME NEW r \in Receivers, ReceivePeriodicMessage(r) PROVE StreamInv'
  <2> DEFINE e == [msg |-> Head(queue), matched |-> TagMatches(r, Decode(Head(queue)))]
  <2>1. /\ queue # <<>> /\ Head(queue) \in Messages
        /\ queue' = Tail(queue)
        /\ rcvMac' = rcvMac
        /\ verdicts' = [verdicts EXCEPT ![r] = Append(@, e)]
    BY <1>4, ReceiveEffect
  <2>2. queue' \in Seq(Messages)
    BY <2>1, HeadTailProperties DEF StreamInv
  <2>3. e \in [msg : Messages, matched : BOOLEAN]
    BY <2>1 DEF TagMatches
  <2>4. verdicts' \in [Receivers -> Seq([msg : Messages, matched : BOOLEAN])]
    <3> DEFINE L == Seq([msg : Messages, matched : BOOLEAN])
    <3>1. verdicts \in [Receivers -> L]
      BY DEF StreamInv
    <3>2. Append(verdicts[r], e) \in L
      BY <2>3, <3>1, AppendProperties
    <3> HIDE DEF e, L
    <3>3. verdicts' \in [Receivers -> L]
      BY <2>1, <3>1, <3>2
    <3>4. QED
      BY <3>3 DEF L
  <2>5. UNCHANGED sndVars
    BY <1>4 DEF ReceivePeriodicMessage
  <2>6. QED
    BY <2>1, <2>2, <2>4, <2>5 DEF sndVars, StreamInv
<1>5. QED
  BY <1>1, <1>2, <1>3, <1>4 DEF Next

(* StreamInv: between two calls the MAC objects and the reusable part of    *)
(* the buffers are as they were at first, however many messages of         *)
(* whichever kind have passed through them.                                *)
THEOREM NothingLeftOver == Spec => []StreamInv
BY StreamInit, StreamStep, PTL DEF Spec
-----------------------------------------------------------------------------
(* The refinement *)

LEMMA MapAppend ==
  ASSUME NEW S, NEW F, NEW q \in Seq(S), NEW m \in S
  PROVE  LET u == Append(q, m)
         IN  [i \in 1 .. Len(u) |-> F[u[i]]] = Append([i \in 1 .. Len(q) |-> F[q[i]]], F[m])
<1> DEFINE n == Len(q)
           u == Append(q, m)
           image == [i \in 1 .. n |-> F[q[i]]]
           T == {image[i] : i \in 1 .. n} \cup {F[m]}
           v == Append(image, F[m])
<1>1. n \in Nat /\ Len(u) = n + 1
      /\ \A i \in 1 .. n + 1 : u[i] = IF i = n + 1 THEN m ELSE q[i]
  BY LenProperties, AppendProperties
<1>2. image \in Seq(T) /\ Len(image) = n
  BY <1>1, Bytes, SeqMonotonic
<1>3. v \in Seq(T) /\ Len(v) = n + 1
      /\ \A i \in 1 .. n + 1 : v[i] = IF i = n + 1 THEN F[m] ELSE image[i]
  BY <1>1, <1>2, AppendProperties
<1>4. v = [i \in 1 .. n + 1 |-> v[i]]
  BY <1>3, LenProperties
<1>5. \A i \in 1 .. n + 1 : F[u[i]] = v[i]
  <2> TAKE i \in 1 .. n + 1
  <2>1. CASE i = n + 1
    BY <1>1, <1>3, <2>1
  <2>2. CASE i # n + 1
    <3>1. i \in 1 .. n
      BY <1>1, <2>2
    <3>2. QED
      BY <1>1, <1>3, <2>2, <3>1
  <2>3. QED
    BY <2>1, <2>2
<1> HIDE DEF v, u, n
<1>6. [i \in 1 .. Len(u) |-> F[u[i]]] = v
  BY <1>1, <1>4, <1>5
<1>7. QED
  BY <1>6 DEF u, v, n

LEMMA DecodedAppend ==
  ASSUME NEW q \in Seq(Messages), NEW m \in Messages
  PROVE  /\ Len(Decoded(q)) = Len(q)
         /\ Decoded(Append(q, m)) = Append(Decoded(q), Decode(m))
<1> DEFINE F == [x \in Messages |-> Decode(x)]
<1>1. \A s \in Seq(Messages) :
        Decoded(s) = [i \in 1 .. Len(s) |-> F[s[i]]] /\ Len(s) \in Nat
  BY LenProperties, ElementOfSeq DEF Decoded
<1>2. Append(q, m) \in Seq(Messages)
  BY AppendProperties
<1>3. Decoded(Append(q, m)) = Append([i \in 1 .. Len(q) |-> F[q[i]]], F[m])
  <2> DEFINE u == Append(q, m)
  <2>1. Decoded(u) = [i \in 1 .. Len(u) |-> F[u[i]]]
    BY <1>1, <1>2
  <2> HIDE DEF F
  <2>2. QED
    BY <2>1, MapAppend
<1>4. Len(Decoded(q)) = Len(q)
  BY <1>1, Bytes DEF Decoded
<1>5. QED
  BY <1>1, <1>3, <1>4

Entries == [msg : Messages, matched : BOOLEAN]

LEMMA DecodedLogAppend ==
  ASSUME NEW log \in Seq(Entries), NEW e \in Entries
  PROVE  DecodedLog(Append(log, e))
           = Append(DecodedLog(log), [msg |-> Decode(e.msg), matched |-> e.matched])
<1> DEFINE F == [x \in Entries |-> [msg |-> Decode(x.msg), matched |-> x.matched]]
<1>1. \A s \in Seq(Entries) : DecodedLog(s) = [i \in 1 .. Len(s) |-> F[s[i]]]
  BY LenProperties, ElementOfSeq DEF DecodedLog
<1>2. Append(log, e) \in Seq(Entries)
  BY AppendProperties
<1>3. DecodedLog(Append(log, e)) = Append([i \in 1 .. Len(log) |-> F[log[i]]], F[e])
  <2> DEFINE u == Append(log, e)
  <2>1. DecodedLog(u) = [i \in 1 .. Len(u) |-> F[u[i]]]
    BY <1>1, <1>2
  <2> HIDE DEF F
  <2>2. QED
    BY <2>1, MapAppend
<1>4. QED
  BY <1>1, <1>3

LEMMA DecodedTail ==
  ASSUME NEW q \in Seq(Messages), q # <<>>
  PROVE  /\ Decoded(q) # <<>>
         /\ Head(Decoded(q)) = Decode(Head(q))
         /\ Decoded(Tail(q)) = Tail(Decoded(q))
<1> DEFINE n == Len(q)
           S == {Decoded(q)[i] : i \in 1 .. n}
<1>1. n \in Nat \ {0} /\ Len(Tail(q)) = n - 1
      /\ \A i \in 1 .. n - 1 : Tail(q)[i] = q[i + 1]
  BY EmptySeq, HeadTailProperties
<1>2. Decoded(q) = [i \in 1 .. n |-> Decoded(q)[i]]
  BY DEF Decoded
<1>3. Decoded(q) \in Seq(S) /\ Len(Decoded(q)) = n
  BY <1>1, <1>2, Bytes
<1>4. Decoded(q) # <<>>
  BY <1>1, <1>3, EmptySeq
<1>5. /\ Tail(Decoded(q)) \in Seq(S) /\ Len(Tail(Decoded(q))) = n - 1
      /\ \A i \in 1 .. n - 1 : Tail(Decoded(q))[i] = Decoded(q)[i + 1]
  BY <1>3, <1>4, HeadTailProperties
<1>6. \A i \in 1 .. n : Decoded(q)[i] = Decode(q[i])
  BY DEF Decoded
<1>7. Decoded(Tail(q)) = [i \in 1 .. n - 1 |-> Decode(Tail(q)[i])]
  BY <1>1 DEF Decoded
<1>8. Tail(Decoded(q)) = [i \in 1 .. n - 1 |-> Tail(Decoded(q))[i]]
  BY <1>5, LenProperties
<1>9. \A i \in 1 .. n - 1 : Decode(Tail(q)[i]) = Tail(Decoded(q))[i]
  <2> TAKE i \in 1 .. n - 1
  <2>1. i + 1 \in 1 .. n
    BY <1>1
  <2>2. QED
    BY <1>1, <1>5, <1>6, <2>1
<1>10. Head(Decoded(q)) = Decode(Head(q))
  <2>1. Head(q) = q[1] /\ Head(Decoded(q)) = Decoded(q)[1] /\ 1 \in 1 .. n
    BY <1>1
  <2>2. QED
    BY <1>6, <2>1
<1>11. Decoded(Tail(q)) = Tail(Decoded(q))
  BY <1>7, <1>8, <1>9
<1>12. QED
  BY <1>4, <1>10, <1>11

(* ImplementsTaggedFrames: read as messages, the bytes in the queue and the *)
(* verdicts on them are those of TaggedFrames.  A receiver accepts a frame *)
(* exactly if it was tagged under its own key, whatever either process     *)
(* sent or received before with the same buffer and MAC object.            *)
THEOREM FramesImplemented == Spec => ImplementsTaggedFrames
<1>1. Init => TF!Init
  <2> SUFFICES ASSUME Init PROVE TF!Init
    OBVIOUS
  <2>1. Decoded(queue) = <<>>
    <3>1. Len(queue) = 0
      BY DEF Init
    <3>2. QED
      BY <3>1 DEF Decoded
  <2>2. \A r \in Receivers : DecodedLog(verdicts[r]) = <<>>
    <3> TAKE r \in Receivers
    <3>1. Len(verdicts[r]) = 0
      BY DEF Init
    <3>2. QED
      BY <3>1 DEF DecodedLog
  <2>3. QED
    BY <2>1, <2>2 DEF Init, TF!Init
<1>2. StreamInv /\ [Next]_vars => [TF!Next]_TF!vars
  <2> SUFFICES ASSUME StreamInv, [Next]_vars PROVE [TF!Next]_TF!vars
    OBVIOUS
  <2>1. queue \in Seq(Messages) /\ verdicts \in [Receivers -> Seq(Entries)]
    BY DEF StreamInv, Entries
  <2>2. CASE UNCHANGED vars
    BY <2>2 DEF vars, sndVars, rcvVars, TF!vars
  <2>3. ASSUME NEW s \in Senders, SendDer(s) PROVE TF!PutPublicKey(s)
    <3>1. Der(s) \in Messages
      BY DEF Messages
    <3>2. Len(Decoded(queue)) < kMaxMessages
          /\ Decoded(queue') = Append(Decoded(queue), PublicKey(s))
      BY <2>1, <2>3, <3>1, DecodedAppend, DecodeDer DEF SendDer
    <3>3. verdicts' = verdicts
      BY <2>3 DEF SendDer, rcvVars
    <3>4. QED
      BY <2>3, <3>2, <3>3 DEF SendDer, TF!PutPublicKey, TF!Put, TF!PublicKey, PublicKey
  <2>4. ASSUME NEW s \in Senders, SendPeriodicMessage(s) PROVE TF!PutFrame(s)
    <3>1. /\ sndIndex[s] \in 0 .. kNumMessagesToSend - 1
          /\ queue' = Append(queue, Frame(sndIndex[s], KeyOf[s]))
          /\ sndIndex' = [sndIndex EXCEPT ![s] = @ + 1]
      BY <2>4, SendEffect
    <3>2. Frame(sndIndex[s], KeyOf[s]) \in Messages
      BY <3>1 DEF Messages
    <3>3. /\ Len(queue) < kMaxMessages /\ announced[s]
          /\ sndIndex[s] < kNumMessagesToSend
          /\ announced' = announced /\ verdicts' = verdicts
      BY <2>4 DEF SendPeriodicMessage, rcvVars
    <3>4. Len(Decoded(queue)) < kMaxMessages
          /\ Decoded(queue') = Append(Decoded(queue), Periodic(sndIndex[s], KeyOf[s]))
      BY <2>1, <3>1, <3>2, <3>3, DecodedAppend, DecodeFrame
    <3>5. QED
      BY <3>1, <3>3, <3>4
      DEF TF!PutFrame, TF!Put, TF!Periodic, Periodic, TF!CounterByte, CounterByte,
          TF!kByteModulo, kByteModulo
  <2>5. ASSUME NEW r \in Receivers, ReceivePeriodicMessage(r) PROVE TF!Take(r)
    <3> DEFINE m == Head(queue)
               e == [msg |-> m, matched |-> TagMatches(r, Decode(m))]
               log == [t \in Receivers |-> DecodedLog(verdicts[t])]
    <3>1. /\ queue # <<>> /\ m \in Messages /\ queue' = Tail(queue)
          /\ verdicts' = [verdicts EXCEPT ![r] = Append(@, e)]
      BY <2>5, ReceiveEffect
    <3>2. Decoded(queue) # <<>> /\ Decode(m) = Head(Decoded(queue))
          /\ Decoded(queue') = Tail(Decoded(queue))
      BY <2>1, <3>1, DecodedTail
    <3>3. e \in Entries
      BY <3>1 DEF Entries, TagMatches
    <3>4. DecodedLog(Append(verdicts[r], e))
            = Append(DecodedLog(verdicts[r]),
                     [msg |-> Decode(m), matched |-> TagMatches(r, Decode(m))])
      BY <2>1, <3>3, DecodedLogAppend
    <3>5. log' = [log EXCEPT ![r] =
                    Append(@, [msg |-> Decode(m), matched |-> TagMatches(r, Decode(m))])]
      <4>1. \A t \in Receivers :
              verdicts'[t] = IF t = r THEN Append(verdicts[r], e) ELSE verdicts[t]
        BY <2>1, <3>1
      <4> HIDE DEF e, m
      <4>2. QED
        BY <3>4, <4>1
    <3>6. UNCHANGED <<announced, sndIndex>>
      BY <2>5 DEF ReceivePeriodicMessage, sndVars
    <3>7. QED
      BY <3>2, <3>5, <3>6 DEF TF!Take, TF!TagMatches, TagMatches
  <2>6. QED
    BY <2>2, <2>3, <2>4, <2>5 DEF Next, TF!Next
<1>3. QED
  BY <1>1, <1>2, NothingLeftOver, PTL DEF Spec, ImplementsTaggedFrames, TF!Spec
=============================================================================
