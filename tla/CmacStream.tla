----------------------------- MODULE CmacStream -----------------------------
(***************************************************************************)
(* The periodic phase of both programs byte by byte: the buffer that       *)
(* send_periodic_message reuses for every frame, the slices that           *)
(* receive_periodic_messages takes of whatever it receives, and the two    *)
(* MAC objects that live as long as the loops.  Any number of senders and  *)
(* receivers share one queue, on which public keys travel too, so a        *)
(* receiver may find frames under other keys and messages of another       *)
(* length between two frames of its own.                                   *)
(***************************************************************************)
EXTENDS Common, Mac

CONSTANTS
  kMessageSize,  (* size of the receive buffer (1024 in common.hpp)        *)
  DerSize,       (* bytes of an encoded public key (294 for RSA-2048)      *)
  KeyOf          (* the symmetric_key of each sender                       *)

kBufferSize == 20
FrameSize == kBufferSize + kCmacSize

ASSUME CmacStreamAssumption ==
  /\ DerSize \in Nat /\ DerSize >= kCmacSize
  /\ kMessageSize \in Nat /\ kMessageSize >= DerSize /\ kMessageSize >= FrameSize
  /\ KeyOf \in [Senders -> Keys]

VARIABLES
  announced,  (* announced[s]: s has sent its public key                   *)
  sndIndex,   (* message_index of send_periodic_message                    *)
  sndBuffer,  (* its buffer                                                *)
  sndMac,     (* its mac                                                   *)
  queue,      (* byte strings in the queue, oldest first                   *)
  rcvBuffer,  (* the buffer of receive_periodic_messages                   *)
  rcvMac,     (* its calculated_cmac                                       *)
  verdicts    (* each message received, and whether the tags were equal    *)

sndVars == <<announced, sndIndex, sndBuffer, sndMac>>
rcvVars == <<rcvBuffer, rcvMac, verdicts>>
vars == <<sndVars, queue, rcvVars>>

Init ==
  /\ announced = [s \in Senders |-> FALSE]
  /\ sndIndex = [s \in Senders |-> 0]
  /\ sndBuffer = [s \in Senders |-> [i \in 1 .. FrameSize |-> Plain(255)]]
  /\ sndMac = [s \in Senders |-> SetKey(KeyOf[s])]
  /\ queue = <<>>
  /\ rcvBuffer = [r \in Receivers |-> [i \in 1 .. kMessageSize |-> Plain(0)]]
  /\ rcvMac = [r \in Receivers |-> SetKey(r)]
  /\ verdicts = [r \in Receivers |-> <<>>]

Der(s) == [i \in 1 .. DerSize |-> DerByte(s, i)]

SendDer(s) ==
  /\ ~announced[s]
  /\ Len(queue) < kMaxMessages
  /\ queue' = Append(queue, Der(s))
  /\ announced' = [announced EXCEPT ![s] = TRUE]
  /\ UNCHANGED <<sndIndex, sndBuffer, sndMac, rcvVars>>

(* buffer[19] = message_index % 256: the last byte before the tag.          *)
Counted(buffer, i) == [buffer EXCEPT ![kBufferSize] = Plain(CounterByte(i))]

(* What the sender's MAC absorbs.                                           *)
Covered_WholeBuffer(buffer) == buffer
Covered(buffer) == SubSeq(buffer, 1, kBufferSize)

(* memcpy of the tag to buffer.data() + kBufferSize.                        *)
Tagged(buffer, tag) ==
  [i \in 1 .. FrameSize |-> IF i > kBufferSize THEN tag[i - kBufferSize] ELSE buffer[i]]

SendPeriodicMessage(s) ==
  LET buffer == Counted(sndBuffer[s], sndIndex[s])
      mac    == Update(sndMac[s], Covered(buffer))
      frame  == Tagged(buffer, Final(mac))
  IN  /\ announced[s] /\ sndIndex[s] < kNumMessagesToSend
      /\ Len(queue) < kMaxMessages
      /\ queue' = Append(queue, frame)
      /\ sndBuffer' = [sndBuffer EXCEPT ![s] = frame]
      /\ sndMac' = [sndMac EXCEPT ![s] = AfterFinal(mac)]
      /\ sndIndex' = [sndIndex EXCEPT ![s] = @ + 1]
      /\ UNCHANGED <<announced, rcvVars>>

(* mq_receive overwrites the beginning of the receive buffer.               *)
Received(buffer, msg) ==
  [i \in 1 .. kMessageSize |-> IF i <= Len(msg) THEN msg[i] ELSE buffer[i]]

(* temp_vec: as many bytes of the buffer as were received.                  *)
Exact(buffer, n) == SubSeq(buffer, 1, n)

(* Its two slices: what the MAC absorbs, and received_cmac.                 *)
Payload_Whole(temp) == temp
Payload(temp) == SubSeq(temp, 1, Len(temp) - kCmacSize)
Trailer(temp) == SubSeq(temp, Len(temp) - kCmacSize + 1, Len(temp))

ReceivePeriodicMessage(r) ==
  LET buffer == Received(rcvBuffer[r], Head(queue))
      temp   == Exact(buffer, Len(Head(queue)))
      mac    == Update(rcvMac[r], Payload(temp))
  IN  /\ queue # <<>>
      /\ queue' = Tail(queue)
      /\ rcvBuffer' = [rcvBuffer EXCEPT ![r] = buffer]
      /\ rcvMac' = [rcvMac EXCEPT ![r] = AfterFinal(mac)]
      /\ verdicts' = [verdicts EXCEPT ![r] =
           Append(@, [msg |-> temp, matched |-> Trailer(temp) = Final(mac)])]
      /\ UNCHANGED sndVars

Next ==
  \/ \E s \in Senders : SendDer(s) \/ SendPeriodicMessage(s)
  \/ \E r \in Receivers : ReceivePeriodicMessage(r)

Spec == Init /\ [][Next]_vars
-----------------------------------------------------------------------------
(* The frame number i of a sender with key k, and all messages there are.   *)
Content(i) ==
  [j \in 1 .. kBufferSize |-> Plain(IF j = kBufferSize THEN CounterByte(i) ELSE 255)]
Frame(i, k) == Tagged(Content(i), Tag(k, Content(i)))

Messages ==
  {Der(s) : s \in Senders} \cup
  {Frame(i, KeyOf[s]) : i \in 0 .. kNumMessagesToSend - 1, s \in Senders}

(* Between two calls nothing of a message is left where it could reach the  *)
(* next one: the MAC objects of both loops are as set_key left them and    *)
(* the sender's buffer differs from a fresh one in the bytes that the next *)
(* frame overwrites only, so that what is queued and received are frames   *)
(* of one counter each, and public keys (sender.cpp:104-127,               *)
(* receiver.cpp:132-156).                                                  *)
StreamInv ==
  /\ announced \in [Senders -> BOOLEAN]
  /\ sndIndex \in [Senders -> 0 .. kNumMessagesToSend]
  /\ sndMac = [s \in Senders |-> SetKey(KeyOf[s])]
  /\ rcvMac = [r \in Receivers |-> SetKey(r)]
  /\ DOMAIN sndBuffer = Senders
  /\ \A s \in Senders :
       /\ DOMAIN sndBuffer[s] = 1 .. FrameSize
       /\ \A j \in 1 .. kBufferSize - 1 : sndBuffer[s][j] = Plain(255)
  /\ queue \in Seq(Messages)
  /\ verdicts \in [Receivers -> Seq([msg : Messages, matched : BOOLEAN])]

-----------------------------------------------------------------------------
(* The message that a byte string is, in the terms of Common.               *)
Decode(bytes) ==
  IF bytes[Len(bytes)].kind = "tag"
    THEN [type |-> "Periodic", ctr |-> bytes[kBufferSize].val, key |-> bytes[Len(bytes)].key]
    ELSE PublicKey(bytes[1].owner)

Decoded(msgs) == [i \in 1 .. Len(msgs) |-> Decode(msgs[i])]

DecodedLog(log) ==
  [i \in 1 .. Len(log) |-> [msg |-> Decode(log[i].msg), matched |-> log[i].matched]]

TF == INSTANCE TaggedFrames WITH
  sent     <- sndIndex,
  queue    <- Decoded(queue),
  verdicts <- [r \in Receivers |-> DecodedLog(verdicts[r])]

(* The byte level implements TaggedFrames: a verdict depends on the one     *)
(* message it is about, although both ends reuse their buffers and MAC      *)
(* objects, and foreign messages come between (send_periodic_message,      *)
(* receive_periodic_messages).                                             *)
ImplementsTaggedFrames == TF!Spec
=============================================================================
