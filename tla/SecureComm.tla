----------------------------- MODULE SecureComm -----------------------------
(***************************************************************************)
(* The whole system: any number of runs of the two executables over one    *)
(* kernel.  A restart is the launch of another process, so a behaviour may *)
(* hold clean sessions, overlapping sessions, and sessions after a crash.  *)
(***************************************************************************)
EXTENDS Sender, Receiver

CONSTANTS
  MaxKills,  (* bound: processes killed in a behaviour                     *)
  After      (* After[p]: senders that end before p is launched, which is  *)
             (* how far the operator waits before using run.sh again       *)

ASSUME SecureCommAssumption ==
  /\ MaxKills \in Nat
  /\ After \in [Senders \cup Receivers -> SUBSET Senders]

VARIABLE kills

vars == <<mqVars, sndVars, rcvVars, kills>>

(* Every variable of both programs and of the kernel keeps its type; the    *)
(* bound on sndIndex is the bound of send_periodic_message's loop.         *)
TypeOK ==
  /\ MqTypeOK
  /\ SenderTypeOK
  /\ ReceiverTypeOK
  /\ kills \in Nat

Init ==
  /\ MqInit
  /\ SenderInit
  /\ ReceiverInit
  /\ kills = 0

(* run.sh starts both executables, in no particular order. *)
MayLaunch(p) == \A s \in After[p] : sndPc[s] \in SenderGone \ {"off"}

Launch ==
  /\ \/ /\ \E s \in Senders : MayLaunch(s) /\ SenderLaunch(s)
        /\ UNCHANGED rcvVars
     \/ /\ \E r \in Receivers : MayLaunch(r) /\ ReceiverLaunch(r)
        /\ UNCHANGED sndVars
  /\ UNCHANGED kills

Kill ==
  /\ kills < MaxKills
  /\ kills' = kills + 1
  /\ \/ (\E s \in Senders : SenderKilled(s)) /\ UNCHANGED rcvVars
     \/ (\E r \in Receivers : ReceiverKilled(r)) /\ UNCHANGED sndVars

SenderRuns(s) ==
  /\ SenderStep(s) \/ SenderEnter(s) \/ SenderFault(s)
  /\ UNCHANGED <<rcvVars, kills>>

ReceiverRuns(r) ==
  /\ ReceiverStep(r) \/ ReceiverEnter(r) \/ ReceiverFault(r)
  /\ UNCHANGED <<sndVars, kills>>

Next ==
  \/ Launch
  \/ Kill
  \/ \E s \in Senders : SenderRuns(s)
  \/ \E r \in Receivers : ReceiverRuns(r)

Spec == Init /\ [][Next]_vars

(* The operating system runs every process that can run.  Nobody has to     *)
(* start one, press Enter, kill one or make a call fail.                   *)
Fairness ==
  /\ \A s \in Senders : WF_vars(SenderStep(s) /\ UNCHANGED <<rcvVars, kills>>)
  /\ \A r \in Receivers : WF_vars(ReceiverStep(r) /\ UNCHANGED <<sndVars, kills>>)

FairSpec == Spec /\ Fairness
-----------------------------------------------------------------------------
(* The vocabulary of the properties *)

(* A log entry that reports a match. *)
Verified(e) == "failed" \notin e.printed

(* What receiver r has made of each message its periodic loop took: the     *)
(* counter of a frame whose tag matched, None for any other message.       *)
VerifiedCounters(r) ==
  [i \in 1 .. Len(rcvLog[r]) |->
     IF Verified(rcvLog[r][i]) THEN rcvLog[r][i].msg.ctr ELSE None]

(* The messages it took, with any verdict. *)
Taken(r) == [i \in 1 .. Len(rcvLog[r]) |-> rcvLog[r][i].msg]

(* The messages in queue object q. *)
Waiting(q) == {queues[q][i] : i \in 1 .. Len(queues[q])}

(* The messages in the queue object that name n refers to. *)
Pending(n) == IF names[n] = NoQueue THEN <<>> ELSE queues[names[n]]

(* m is the public key of sender s, or a frame under the key it uses. *)
SentBy(s, m) ==
  \/ m = PublicKey(s)
  \/ m.type = "Periodic" /\ m.key = sndKey[s]

(* m is tagged under the key of receiver r. *)
IsFrame(m, r) == m.type = "Periodic" /\ m.key = r

(* m is a frame that the partner of receiver r has sent. *)
Sent(m, r) ==
  /\ rcvPub[r] # None
  /\ sndKey[rcvPub[r]] = r
  /\ \E n \in 0 .. kNumMessagesToSend - 1 :
       n < sndIndex[rcvPub[r]] /\ m = Periodic(n, r)

(* The counters of the first n frames. *)
FirstFrames(n) == [i \in 1 .. n |-> (i - 1) % kByteModulo]

(* The first n frames under key k. *)
FramesUnder(k, n) == [i \in 1 .. n |-> Periodic(i - 1, k)]

(* Sender s and receiver r are started by the same use of run.sh.           *)
Session(s, r) == After[r] = After[s]

(* Each use of run.sh starts one of each, and the operator uses it again    *)
(* only after the senders of all earlier uses have ended, in any way.      *)
OneAtATime ==
  /\ \A s \in Senders : s \notin After[s]
  /\ \A s, t \in Senders : s = t \/ s \in After[t] \/ t \in After[s]
  /\ \A s \in Senders : \E r \in Receivers : Session(s, r)
  /\ \A r \in Receivers : \E s \in Senders : Session(s, r)
  /\ \A r, q \in Receivers : After[r] = After[q] => r = q

SenderWaits(s) ==
  \/ sndPc[s] = "receiveKey" /\ queues[sndIn[s]] = <<>>
  \/ /\ sndPc[s] \in {"sendPublicKey", "periodic"}
     /\ Len(queues[sndOut[s]]) = kMaxMessages

ReceiverWaits(r) ==
  \/ rcvPc[r] \in {"getPublicKey", "periodic"} /\ queues[rcvIn[r]] = <<>>
  \/ rcvPc[r] = "sendKey" /\ Len(queues[rcvOut[r]]) = kMaxMessages

-----------------------------------------------------------------------------
(* Safety, for any schedule, crashes and failing calls included *)

(* The two queues are never mixed up: what waits for a sender is encrypted  *)
(* keys, what waits for a receiver is public keys and frames, whichever    *)
(* objects the names have referred to (the four setup functions).          *)
ChannelDiscipline ==
  /\ \A s \in Senders : sndIn[s] # NoQueue =>
       \A i \in DOMAIN queues[sndIn[s]] : queues[sndIn[s]][i] \in SymKeyMsg
  /\ \A r \in Receivers : rcvIn[r] # NoQueue =>
       \A i \in DOMAIN queues[rcvIn[r]] :
         queues[rcvIn[r]][i] \in PublicKeyMsg \cup PeriodicMsg

(* A key a sender took from the exchange was generated by a receiver that   *)
(* had loaded this very sender's public key, and the receiver still has    *)
(* it: main of sender.cpp and receiver.cpp, lines 264-282 and 237-255.     *)
KeyAgreement ==
  \A s \in Senders : sndKey[s] \in Receivers =>
    /\ rcvPub[sndKey[s]] = s
    /\ rcvKey[sndKey[s]] = sndKey[s]

(* A sender that has exited left nothing for a later receiver's load_key to *)
(* choke on: no public key and no frame of its own is in the queue that    *)
(* the forward name refers to, whoever has unlinked or recreated the name, *)
(* been killed or failed meanwhile, and whether or not anybody has read    *)
(* them (~MqUnlinker, sender.cpp:284, and get_public_key).                 *)
NothingLeftBehind ==
  names[kSenderToReceiverQueue] # NoQueue =>
    \A m \in Waiting(names[kSenderToReceiverQueue]), s \in Senders :
      SentBy(s, m) => sndPc[s] # "exited"

(* Two processes that agreed on a key use the same two queue objects as     *)
(* long as both have them open, whoever has unlinked and recreated the     *)
(* names meanwhile: frames go to the queue the key's owner reads.          *)
PartnersShareQueues ==
  \A s \in Senders, r \in Receivers : sndKey[s] = r =>
    /\ sndOut[s] # NoQueue /\ rcvIn[r] # NoQueue => sndOut[s] = rcvIn[r]
    /\ sndIn[s] # NoQueue /\ rcvOut[r] # NoQueue => sndIn[s] = rcvOut[r]

(* A frame a receiver reports as matching was sent, with that counter, by   *)
(* the sender whose public key the receiver loaded, under the receiver's   *)
(* own key (receive_periodic_messages, lines 149-170).                     *)
Authentic ==
  \A r \in Receivers : \A i \in 1 .. Len(rcvLog[r]) :
    Verified(rcvLog[r][i]) => Sent(rcvLog[r][i].msg, r)

(* No frame is verified twice and none overtakes another, even when other   *)
(* processes take messages from the same queue (send_periodic_message and  *)
(* receive_periodic_messages).                                             *)
VerifiedInOrder ==
  kNumMessagesToSend <= kByteModulo =>
    \A r \in Receivers : \A i, j \in 1 .. Len(rcvLog[r]) :
      i < j /\ Verified(rcvLog[r][i]) /\ Verified(rcvLog[r][j])
        => rcvLog[r][i].msg.ctr < rcvLog[r][j].msg.ctr

(* A sender that returns kOK has sent every frame (status, sender.cpp:263   *)
(* to 293); the converse of an early return, a failed send or a crash.     *)
SuccessMeansAllSent ==
  \A s \in Senders :
    sndPc[s] = "exited" /\ sndStatus[s] = kOK => sndIndex[s] = kNumMessagesToSend

-----------------------------------------------------------------------------
(* Safety of sessions that do not overlap, without crashes or failures *)

(* Botan never throws: no session finds a message that an earlier one left  *)
(* (load_key at receiver.cpp:78, decrypt at sender.cpp:180).               *)
NoAbort ==
  /\ \A s \in Senders : sndPc[s] # "aborted"
  /\ \A r \in Receivers : rcvPc[r] # "aborted"

(* What a receiver's loop has taken and what waits in its queue are the     *)
(* frames its sender has sent so far, in order and nothing else, and every *)
(* tag matched: none is lost when the sender closes and unlinks the queue  *)
(* under the receiver, and nothing of another session is among them.       *)
NoFrameLost ==
  \A r \in Receivers :
    LET s == rcvPub[r] IN
    s # None /\ rcvPc[r] = "periodic" =>
      IF sndKey[s] = r
        THEN /\ Taken(r) \o queues[rcvIn[r]] = FramesUnder(r, sndIndex[s])
             /\ \A i \in 1 .. Len(rcvLog[r]) : Verified(rcvLog[r][i])
        ELSE rcvLog[r] = <<>> /\ sndIndex[s] = 0

(* The two ends never wait for each other: while a sender is blocked in     *)
(* mq_receive or mq_send, a receiver of its session is not blocked, or has *)
(* not reached its first receive yet.                                      *)
NoMutualWait ==
  \A s \in Senders :
    SenderWaits(s) =>
      \E r \in Receivers :
        /\ Session(s, r)
        /\ rcvPc[r] \in ReceiverPcs \ {"exited", "aborted", "killed"}
        /\ ~ReceiverWaits(r)

-----------------------------------------------------------------------------
(* Safety with a single sender, crashes and failing calls included          *)

(* A sender that has a receiver's key never blocks in a periodic send, even *)
(* if nobody reads its frames any more, so the 3 s period is its own: it   *)
(* sends no more frames than the queue holds, and the public key no longer *)
(* takes a place in it (send_periodic_message; kNumMessagesToSend =        *)
(* kMaxMessages in common.hpp).                                            *)
PeriodicSendNeverBlocks ==
  \A s \in Senders :
    sndPc[s] = "periodic" /\ sndKey[s] \in Receivers => ~SenderWaits(s)

-----------------------------------------------------------------------------
(* Liveness under FairSpec, without crashes or failures *)

SessionStarted(s) ==
  /\ sndPc[s] # "off"
  /\ \E r \in Receivers : Session(s, r) /\ rcvPc[r] # "off"

(* Once run.sh has started both ends of a session, a receiver verifies all  *)
(* the frames of its sender, whether or not Enter is ever pressed.         *)
SessionCompletes ==
  \A s \in Senders :
    SessionStarted(s) ~>
      \E r \in Receivers :
        rcvPub[r] = s /\ VerifiedCounters(r) = FirstFrames(kNumMessagesToSend)

-----------------------------------------------------------------------------
(* Liveness under FairSpec, with crashes and failures                      *)

(* A single sender that has a receiver's key gets through its loop to its   *)
(* exit, where it unlinks the names, even if every receiver is killed      *)
(* meanwhile (send_periodic_message and main, sender.cpp:111-136 and       *)
(* 277-291).                                                               *)
KeyedSenderFinishes ==
  \A s \in Senders :
    (sndPc[s] = "periodic" /\ sndKey[s] \in Receivers)
      ~> sndPc[s] \in {"enterExit", "killed"}

(* Both ends of a session are about to open their queues, neither name      *)
(* exists, and no other process is going to touch the names.               *)
CleanStart(s, r) ==
  /\ sndPc[s] = "openOut" /\ rcvPc[r] = "openOut"
  /\ \A n \in QueueNames : names[n] = NoQueue
  /\ \A t \in Senders \ {s} : sndPc[t] \in SenderGone \ {"off"}
  /\ \A q \in Receivers \ {r} : rcvPc[q] \notin {"off", "openOut", "openIn"}

(* Whatever was killed or failed before, and whoever still waits on an old  *)
(* queue object: a session that finds neither name verifies every frame,   *)
(* unless something is killed or fails again.  Nothing but the two names   *)
(* carries over from one use of run.sh to the next (the setup functions    *)
(* and ~MqUnlinker).                                                       *)
CleanSessionCompletes ==
  \A s \in Senders : \A r \in {q \in Receivers : Session(s, q)} :
    \A n \in 0 .. MaxKills + MaxFaults :
      (CleanStart(s, r) /\ kills + faults = n)
        ~> \/ VerifiedCounters(r) = FirstFrames(kNumMessagesToSend)
           \/ kills + faults > n

(* Receiver q waits for a public key on the queues the names refer to; or   *)
(* it has neither of them open.                                            *)
Listens(q) ==
  /\ rcvPc[q] = "getPublicKey"
  /\ rcvIn[q] = names[kSenderToReceiverQueue]
  /\ rcvOut[q] = names[kReceiverToSenderQueue]
Detached(q) ==
  \A n \in QueueNames : names[n] \in {rcvIn[q], rcvOut[q]} => names[n] = NoQueue

(* As CleanStart, but the names may exist and others may wait on them, as   *)
(* after an mq_open that failed: only messages must not be there.          *)
EmptyStart(s, r) ==
  /\ sndPc[s] = "openOut" /\ rcvPc[r] = "openOut"
  /\ \A n \in QueueNames : Pending(n) = <<>>
  /\ \A t \in Senders \ {s} : sndPc[t] \in SenderGone \ {"off"}
  /\ \A q \in Receivers \ {r} :
       /\ rcvPc[q] \notin {"off", "openOut", "openIn"}
       /\ Listens(q) \/ Detached(q)

(* A leftover name does no lasting harm: a session that opens it sends all  *)
(* its frames under a receiver's key and gets to its exit, where it        *)
(* unlinks both names, unless something is killed or fails again.  A       *)
(* receiver of the broken session may answer in place of its own, and one  *)
(* of the two may abort on a frame (main, sender.cpp:226-294, after an     *)
(* early return at 236-238).                                               *)
LeftoverNamesHeal ==
  \A s \in Senders : \A r \in {q \in Receivers : Session(s, q)} :
    \A n \in 0 .. MaxKills + MaxFaults :
      (EmptyStart(s, r) /\ kills + faults = n)
        ~> \/ /\ sndPc[s] = "enterExit" /\ sndStatus[s] = kOK
              /\ sndKey[s] \in Receivers
           \/ kills + faults > n

-----------------------------------------------------------------------------
(* The inductive invariant behind TypeOK, ChannelDiscipline, KeyAgreement   *)
(* and the refinement of KeyTransport (proved in SecureCommProofs)         *)

SenderConnected ==
  {"generate", "sendPublicKey", "enterSendFailed", "receiveKey",
   "enterReceiveFailed", "periodic", "close"}
SenderKeyed == SenderConnected \ {"generate", "close"}
ReceiverConnected ==
  {"getPublicKey", "deriveKey", "sendKey", "periodic", "enterExit"}
ReceiverKeyless == {"off", "openOut", "openIn", "getPublicKey", "deriveKey"}

(* Names and descriptors refer to objects that exist, a process that opens  *)
(* its second queue has the first, and one that transfers has both.        *)
DescriptorsValid ==
  /\ \A n \in QueueNames : names[n] \in 0 .. Len(queues)
  /\ \A s \in Senders :
       /\ sndOut[s] \in 0 .. Len(queues)
       /\ sndIn[s] \in 0 .. Len(queues)
       /\ sndPc[s] \in SenderConnected \cup {"openIn"} => sndOut[s] # NoQueue
       /\ sndPc[s] \in SenderConnected => sndIn[s] # NoQueue
  /\ \A r \in Receivers :
       /\ rcvIn[r] \in 0 .. Len(queues)
       /\ rcvOut[r] \in 0 .. Len(queues)
       /\ rcvPc[r] \in ReceiverConnected \cup {"openIn"} => rcvOut[r] # NoQueue
       /\ rcvPc[r] \in ReceiverConnected => rcvIn[r] # NoQueue

(* q is or was reachable as the sender-to-receiver queue; as the reply queue. *)
Forward(q) ==
  \/ q = names[kSenderToReceiverQueue]
  \/ \E s \in Senders : q = sndOut[s]
  \/ \E r \in Receivers : q = rcvIn[r]
Reply(q) ==
  \/ q = names[kReceiverToSenderQueue]
  \/ \E s \in Senders : q = sndIn[s]
  \/ \E r \in Receivers : q = rcvOut[r]

(* No object serves both directions, so each holds the messages of one.     *)
ChannelsSeparate ==
  \A q \in 1 .. Len(queues) :
    /\ ~(Forward(q) /\ Reply(q))
    /\ Forward(q) => \A i \in 1 .. Len(queues[q]) :
                       queues[q][i] \in PublicKeyMsg \cup PeriodicMsg
    /\ Reply(q) => \A i \in 1 .. Len(queues[q]) : queues[q][i] \in SymKeyMsg

(* A process has a key, and a loop has frames left, when it uses them.      *)
KeyedBeforeUse ==
  /\ \A s \in Senders :
       /\ sndPc[s] \in SenderKeyed => sndKey[s] \in Keys
       /\ sndPc[s] \in SenderConnected \ {"close"} =>
            sndIndex[s] < kNumMessagesToSend
       /\ sndPc[s] \in {"off", "openOut", "openIn"} => sndIndex[s] = 0
       /\ sndPc[s] \in {"off", "openOut", "openIn", "generate"} => sndKey[s] = None
       /\ sndPc[s] \in {"sendPublicKey", "enterSendFailed", "receiveKey"} =>
            sndKey[s] = s
  /\ \A r \in Receivers :
       /\ rcvKey[r] \in {None, r}
       /\ rcvPc[r] \in ReceiverKeyless => rcvKey[r] = None
       /\ rcvPc[r] \in {"off", "openOut", "openIn", "getPublicKey"} =>
            rcvPub[r] = None
       /\ rcvPc[r] = "sendKey" => rcvPub[r] \in Senders /\ rcvKey[r] = r

(* Every encrypted key on its way was generated by a receiver that still    *)
(* has it, for the sender whose public key it loaded.                      *)
WrappedKeysGenuine ==
  \A q \in 1 .. Len(queues) : \A i \in 1 .. Len(queues[q]) :
    queues[q][i] \in SymKeyMsg =>
      /\ rcvKey[queues[q][i].key] = queues[q][i].key
      /\ rcvPub[queues[q][i].key] = queues[q][i].to

(* Together these are inductive: descriptors are valid, each queue object   *)
(* serves one direction (setup functions and unlinks), every encrypted key *)
(* in a queue is genuine (send_symmetric_key), and nobody uses a key or a  *)
(* loop index beyond what it has (the fall-through of both mains).         *)
IInv ==
  /\ TypeOK
  /\ DescriptorsValid
  /\ ChannelsSeparate
  /\ KeyedBeforeUse
  /\ WrappedKeysGenuine
  /\ KeyAgreement

-----------------------------------------------------------------------------
(* The inductive invariant behind PartnersShareQueues, Authentic,           *)
(* VerifiedInOrder and SuccessMeansAllSent (proved in DeliveryProofs)      *)

SenderUnannounced == {"off", "openOut", "openIn", "generate", "sendPublicKey"}
SenderFinished ==
  {"close", "enterExit", "unlinkIn", "unlinkOut", "exited"}

(* kOK is only reported of a public key sent or of a loop that ran to its   *)
(* end, and the latter overwrites the former.                              *)
StatusHonest ==
  \A s \in Senders : sndStatus[s] = kOK =>
    /\ sndPc[s] \notin SenderUnannounced
    /\ sndPc[s] \in SenderFinished => sndIndex[s] = kNumMessagesToSend

(* A public key, waiting or loaded, comes from a process past its send, and *)
(* lies in the one queue this process sends to.                            *)
PublicKeysPlaced ==
  /\ \A q \in 1 .. Len(queues) : \A m \in Waiting(q) :
       m.type = "PublicKey" =>
         /\ sndPc[m.owner] \notin SenderUnannounced
         /\ sndOut[m.owner] \in {q, NoQueue}
  /\ \A r \in Receivers : rcvPub[r] # None =>
       /\ sndPc[rcvPub[r]] \notin SenderUnannounced
       /\ rcvIn[r] # NoQueue => sndOut[rcvPub[r]] \in {rcvIn[r], NoQueue}

(* An encrypted key waits in the one queue its receiver sends to.           *)
WrappedKeysPlaced ==
  \A q \in 1 .. Len(queues) : \A m \in Waiting(q) :
    m.type = "SymKey" => rcvOut[m.key] \in {q, NoQueue}

(* A frame under a receiver's key was sent by its partner, and waits in the *)
(* one queue the partner sends to.                                         *)
FramesGenuine ==
  \A q \in 1 .. Len(queues) : \A m \in Waiting(q) : \A r \in Receivers :
    IsFrame(m, r) => Sent(m, r) /\ sndOut[rcvPub[r]] \in {q, NoQueue}

(* So all of them are in one queue.                                         *)
FramesTogether ==
  \A p, q \in 1 .. Len(queues) :
    \A m \in Waiting(p), n \in Waiting(q) : \A r \in Receivers :
      IsFrame(m, r) /\ IsFrame(n, r) => p = q

(* They ascend in it, above all that their receiver has verified.           *)
FramesAscend ==
  kNumMessagesToSend <= kByteModulo =>
    \A q \in 1 .. Len(queues), r \in Receivers :
      /\ \A i, j \in 1 .. Len(queues[q]) :
           i < j /\ IsFrame(queues[q][i], r) /\ IsFrame(queues[q][j], r)
             => queues[q][i].ctr < queues[q][j].ctr
      /\ \A i \in 1 .. Len(rcvLog[r]) : \A m \in Waiting(q) :
           Verified(rcvLog[r][i]) /\ IsFrame(m, r) => rcvLog[r][i].msg.ctr < m.ctr

(* Together with IInv these are inductive: each message lies in the only    *)
(* queue object its sender can send to, so that whoever takes it and acts  *)
(* on it shares that object with its sender; and the frames of one key     *)
(* pass through one object in the order of their counters.                 *)
DInv ==
  /\ StatusHonest
  /\ PublicKeysPlaced
  /\ WrappedKeysPlaced
  /\ PartnersShareQueues
  /\ FramesGenuine
  /\ FramesTogether
  /\ FramesAscend
  /\ Authentic
  /\ VerifiedInOrder

(* A sender uses its own random bytes or a receiver's key.  With IInv, DInv *)
(* and KeyAgreement, which keep two senders from using one key, this makes *)
(* NothingLeftBehind inductive.                                            *)
KeyOrigins == \A s \in Senders : sndKey[s] \in {None, s} \cup Receivers

-----------------------------------------------------------------------------
(* The inductive invariant behind PeriodicSendNeverBlocks (proved in        *)
(* RoomProofs, for a single sender)                                        *)

(* No queue object holds encrypted keys and other messages.                 *)
OneKindPerQueue ==
  \A q \in 1 .. Len(queues) : \A m, n \in Waiting(q) :
    m.type = "SymKey" => n.type = "SymKey"

(* There is at most one public key in all queues, and none any more when a  *)
(* receiver has loaded it.                                                 *)
OnePublicKey ==
  \A p, q \in 1 .. Len(queues) :
    \A i \in 1 .. Len(queues[p]), j \in 1 .. Len(queues[q]) :
      queues[p][i].type = "PublicKey" /\ queues[q][j].type = "PublicKey"
        => p = q /\ i = j

PublicKeyLoaded ==
  \A r \in Receivers : rcvPub[r] # None =>
    \A q \in 1 .. Len(queues) : \A m \in Waiting(q) : m.type # "PublicKey"

(* Besides encrypted keys and the public key, a queue holds no more         *)
(* messages than frames have been sent.                                    *)
HoldsPublicKey(q) == \E m \in Waiting(q) : m.type = "PublicKey"
FramesCounted ==
  \A s \in Senders : \A q \in 1 .. Len(queues) :
    \/ \E m \in Waiting(q) : m.type = "SymKey"
    \/ Len(queues[q]) <= sndIndex[s]
    \/ HoldsPublicKey(q) /\ Len(queues[q]) <= sndIndex[s] + 1

(* Together with IInv and DInv these are inductive if there is one sender:  *)
(* its queue has room for as many frames as it still has to send, once its *)
(* public key has been taken (send_public_key, get_public_key and          *)
(* send_periodic_message on one queue).                                    *)
RoomInv ==
  /\ OneKindPerQueue
  /\ OnePublicKey
  /\ PublicKeyLoaded
  /\ FramesCounted

-----------------------------------------------------------------------------
(* The inductive invariant behind NoAbort, NoFrameLost, NoMutualWait and    *)
(* PairsAreChannels (proved in SessionProofs, for sessions that are used   *)
(* one at a time, until something is killed or fails)                      *)

Undisturbed == kills = 0 /\ faults = 0

SenderDelivers == {"periodic"} \cup SenderFinished
SenderWithoutQueues == {"off", "enterExit", "unlinkIn", "unlinkOut", "exited"}
ReceiverUnpaired == {"off", "openOut", "openIn", "getPublicKey"}
ReceiverPaired == {"deriveKey", "sendKey", "periodic"}

Begun(s, r) == sndPc[s] # "off" \/ rcvPc[r] # "off"

(* No process has left the course of a complete session, and none has been  *)
(* launched before its turn.                                               *)
TakeTurns ==
  /\ \A s \in Senders :
       /\ sndPc[s] \in SenderUnannounced \cup {"receiveKey"} \cup SenderDelivers
       /\ sndPc[s] # "off" => \A t \in After[s] : sndPc[t] = "exited"
  /\ \A r \in Receivers :
       /\ rcvPc[r] \in ReceiverUnpaired \cup ReceiverPaired
       /\ rcvPc[r] # "off" => \A t \in After[r] : sndPc[t] = "exited"

(* A sender's queues are those the names refer to, and it unlinks both; its *)
(* receiver's are the same until the names go.                             *)
NamesCurrent ==
  /\ \A n \in QueueNames : names[n] # NoQueue =>
       \E s \in Senders, r \in Receivers :
         Session(s, r) /\ Begun(s, r) /\ sndPc[s] # "exited"
  /\ \A s \in Senders :
       /\ sndOut[s] \in {NoQueue, names[kSenderToReceiverQueue]}
       /\ sndIn[s] \in {NoQueue, names[kReceiverToSenderQueue]}
       /\ sndPc[s] \in SenderWithoutQueues => sndOut[s] = NoQueue /\ sndIn[s] = NoQueue
       /\ sndPc[s] = "unlinkOut" => names[kReceiverToSenderQueue] = NoQueue
  /\ \A r \in Receivers :
       rcvPc[r] = "off" => rcvIn[r] = NoQueue /\ rcvOut[r] = NoQueue
  /\ \A s \in Senders, r \in Receivers : Session(s, r) =>
       /\ sndPc[s] # "exited" => rcvIn[r] \in {NoQueue, names[kSenderToReceiverQueue]}
       /\ sndPc[s] \notin {"unlinkOut", "exited"} =>
            rcvOut[r] \in {NoQueue, names[kReceiverToSenderQueue]}

(* A receiver whose sender has exited keeps an object that no name refers   *)
(* to, and that no other receiver reads.                                   *)
ReadersApart ==
  /\ \A s \in Senders, r \in Receivers :
       Session(s, r) /\ sndPc[s] = "exited" => rcvIn[r] # names[kSenderToReceiverQueue]
  /\ \A r, q \in Receivers : rcvIn[r] = rcvIn[q] /\ rcvIn[r] # NoQueue => r = q

(* Receiver r has verified the first frames of s, and the rest of those     *)
(* that s has sent wait in its queue.                                      *)
Delivered(s, r) ==
  LET q == queues[rcvIn[r]]
      n == Len(rcvLog[r])
  IN
  /\ sndIndex[s] = n + Len(q)
  /\ \A i \in 1 .. n :
       rcvLog[r][i] = [msg |-> Periodic(i - 1, r), printed |-> {"succeeded"}]
  /\ \A i \in 1 .. Len(q) : q[i] = Periodic(n + i - 1, r)

(* How far a session is, by its sender: nothing sent yet, the public key    *)
(* sent and answered once, or the receiver's key in use.                   *)
SessionState(s, r) ==
  /\ sndPc[s] \notin SenderDelivers => sndIndex[s] = 0 /\ rcvLog[r] = <<>>
  /\ sndPc[s] \in SenderUnannounced =>
       /\ rcvPc[r] \in ReceiverUnpaired
       /\ Begun(s, r) => \A n \in QueueNames : Pending(n) = <<>>
  /\ sndPc[s] = "receiveKey" =>
       /\ Pending(kSenderToReceiverQueue) =
            IF rcvPc[r] \in ReceiverUnpaired THEN <<PublicKey(s)>> ELSE <<>>
       /\ Pending(kReceiverToSenderQueue) =
            IF rcvPc[r] = "periodic" THEN <<SymKey(s, r)>> ELSE <<>>
       /\ rcvPc[r] \in ReceiverPaired => rcvPub[r] = s
  /\ sndPc[s] \in SenderDelivers =>
       rcvPc[r] = "periodic" /\ sndKey[s] = r /\ Delivered(s, r)

(* Together with IInv these are inductive while nothing is killed or fails: *)
(* of two sessions that have begun one is over, so that both names belong  *)
(* to the other, which finds their objects empty.                          *)
SInv ==
  /\ TakeTurns
  /\ NamesCurrent
  /\ ReadersApart
  /\ \A s \in Senders, r \in Receivers : Session(s, r) => SessionState(s, r)

-----------------------------------------------------------------------------
(* What the documents and the programs' own messages say, and the code does *)
(* not do                                                                  *)

(* README.md:11 has the receiver verify integrity by comparing CMACs, and   *)
(* receiver.cpp:171 prints the outcome: "CMAC verification succeeded" is    *)
(* only printed about a frame whose tag matches.                           *)
SucceededMeansMatched ==
  \A r \in Receivers : \A i \in DOMAIN rcvLog[r] :
    "succeeded" \in rcvLog[r][i].printed
      => TagMatches(rcvKey[r], rcvLog[r][i].msg)

(* README.md:11: the key the receiver generated is the one the sender uses  *)
(* for periodic communication, so a sender that failed to receive it does  *)
(* what sender.cpp:161 announces, and exits.                               *)
PeriodicUnderSharedKey ==
  \A s \in Senders : sndPc[s] = "periodic" => sndKey[s] \in Receivers

(* sender.cpp:91: "Public key send failed. Press Enter to exit."            *)
SendFailureExits ==
  [][\A s \in Senders :
       sndPc[s] = "enterSendFailed" =>
         sndPc'[s] \in {"enterSendFailed", "exited", "killed"}]_vars

(* README_CHGPT.md:89-92: the receiver learns from a confirmation that the  *)
(* sender has the key before the periodic phase begins.                    *)
KeyConfirmedBeforePeriodic ==
  \A r \in Receivers :
    rcvPc[r] = "periodic" /\ rcvPub[r] # None => sndKey[rcvPub[r]] = r

(* README_CHGPT.md:43 and 72: two strictly separated phases and explicit    *)
(* message identifiers, so the periodic loop only ever takes frames.       *)
PhasesAreSeparate ==
  \A r \in Receivers : \A i \in DOMAIN rcvLog[r] :
    rcvLog[r][i].msg.type = "Periodic"

-----------------------------------------------------------------------------
(* Refinement: every behaviour, with any failure, is one of KeyTransport.   *)
(* The sender's own random bytes are no key of the exchange; a receiver    *)
(* that derived a key without a public key wrapped nothing.                *)
KT == INSTANCE KeyTransport WITH
  wrapped <- [r \in Receivers |-> IF rcvKey[r] # None THEN rcvPub[r] ELSE None],
  held    <- [s \in Senders |-> IF sndKey[s] \in Receivers THEN sndKey[s] ELSE None]

(* The system implements the abstract key transport. *)
ImplementsKeyTransport == KT!Spec

(* The periodic phase of one session, seen as PeriodicChannel. *)
Channel(s, r) == INSTANCE PeriodicChannel WITH
  N        <- kNumMessagesToSend,
  Limit    <- kMaxMessages,
  sent     <- sndIndex[s],
  verified <- VerifiedCounters(r)

(* Every session is a lossless, ordered channel of its own, which starts    *)
(* empty and makes only the steps of PeriodicChannel, whatever the other   *)
(* sessions have left behind or still read (send_periodic_message and      *)
(* receive_periodic_messages over the queues of four setup functions).     *)
PairsAreChannels ==
  /\ \A s \in Senders, r \in Receivers : Session(s, r) => Channel(s, r)!Init
  /\ [][Undisturbed' =>
          \A s \in Senders, r \in Receivers :
            Session(s, r) => [Channel(s, r)!Next]_(Channel(s, r)!vars)]_vars
=============================================================================
