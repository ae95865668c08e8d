# secure_comm: specification, model checking and proofs

Two programs talk over two POSIX message queues. `sender/sender.cpp` creates an
RSA key pair and sends the public key; `receiver/receiver.cpp` generates a
symmetric key, encrypts it under that public key and sends it back; the sender
then sends periodic frames with a CMAC, which the receiver verifies and prints
for ever. This directory models both programs over one kernel in TLA+, checks
the models with TLC and proves the central results with TLAPS.

## Inventory

| component | source | state | operations | correct when |
|---|---|---|---|---|
| Configuration and messages | `common/common.hpp` | none | names, capacities, counts, status codes, the bytes of the three kinds of message | both ends agree on them |
| Message queues (kernel) | used by both programs | names, queue objects, their contents; they outlive processes | open or create, blocking send and receive, unlink; failure of any open, send or receive | external; modelled from its use |
| Sender | `sender/sender.cpp` | program counter, two descriptors, `symmetric_key`, `message_index`, `status` | two `mq_open`, key generation, `send_public_key`, `receive_symmetric_key`, `send_periodic_message`, close, two unlinks, three Enter prompts | it only uses a key the receiver wrapped for it, and reports success only when it sent everything |
| Receiver | `receiver/receiver.cpp` | program counter, two descriptors, `public_key`, `symmetric_key`, `status`, what it printed | two `mq_open` (other order), `get_public_key`, `send_symmetric_key`, `receive_periodic_messages`, close | it accepts exactly its sender's frames, in order |
| Launching | `run.sh` | none | starts one of each, in no order | sessions that do not overlap complete |
| Frame layout, CMAC stream | `send_periodic_message`, `receive_periodic_messages` | at each end one buffer and one MAC object for the whole loop | count, update, final, append the tag; copy, slice, update, final, compare | the verdict on a message depends on that message and the key alone |
| CMAC demonstration | `botan_cmac/cmac.cpp` | key, data, two MAC objects, two tags | tag, corrupt, verify | the tag it displays is the one that decides its verification |
| Botan | vendored headers | | | external; used through its results |
| Printing helpers, makefiles, binaries in `output/` | | none | | not modelled |

**Interaction.** The processes share nothing but the kernel. Data flows through
queue *objects*; a *name* only decides which object an `mq_open` returns. The
sender unlinks both names when it ends, after an Enter; the receiver never
unlinks anything, and never leaves its loop unless a receive fails.

**What is hard here.** The queues persist across processes, so a run may find
what an earlier one left; an unlink removes a name under processes that still
use the object; a receiver of an earlier session still competes for messages;
the result of every call but `mq_open` is dropped by `main`, which falls through
from phase to phase; no message says what kind it is; blocking sends and receives
may wait for each other; buffers and MAC objects outlive the message they serve,
and foreign messages come between; a failing call, a signal or a closed terminal can hit
anywhere. `PROJECT.json` lists these hazards at their lines.

Facts of the sources that matter for reading them: `kSymKeySize`
(`sender.cpp:260`, `receiver.cpp:236`) is defined nowhere in the repository, so
this commit does not build and the binaries in `output/` are of an earlier
version (the comment at `receiver.cpp:99` says 16 bytes); `calculate_mac`
(`sender.cpp:39`) is never called; `message_id` is never sent.

## Modules

| module | models |
|---|---|
| `Common` | `common.hpp`; the three kinds of message reduced to what the programs distinguish |
| `PosixMq` | the kernel: `names` (name to object), `queues` (objects), `faults` |
| `Sender` | `sender.cpp`, one process per element of `Senders`; `sndPc[s]` is the statement it is about to execute |
| `Receiver` | `receiver.cpp`, likewise; `rcvLog[r]` is what its periodic loop has printed |
| `SecureComm` | the system: both kinds of process, `run.sh`, kills; all properties |
| `KeyTransport` | abstract: keys wrapped once for one sender, unwrapped at most once by it |
| `PeriodicChannel` | abstract: a bounded, lossless, ordered channel whose frames are all verified |
| `Mac` | external: bytes and Botan's MAC object as a stream |
| `CmacStream` | the two periodic loops byte by byte, on one shared queue |
| `TaggedFrames` | abstract: whole messages, and verdicts by `TagMatches` of `Common` |
| `CmacDemo` | `botan_cmac/cmac.cpp`, over the same `Mac` |
| `MCSecureComm`, `MCSessions`, `MCCmacStream` | instances for TLC |
| `SecureCommProofs` | theorems about `SecureComm`: types, channels, keys, the refinement of `KeyTransport` |
| `DeliveryProofs` | extends it: where messages lie, which frames are verified, exit status, what an exited sender leaves |
| `RoomProofs` | extends that: room in the queue of a single sender |
| `SessionProofs` | extends `SecureCommProofs`: sessions used one at a time, and the refinement of `PeriodicChannel` |
| `CmacStreamProofs` | theorems about `CmacStream` |
| `CmacDemoProofs` | theorem about `CmacDemo` |

`SecureComm` composes `Common`, `PosixMq`, `Sender` and `Receiver`; `KeyTransport` and
`PeriodicChannel` abstract from it. `TaggedFrames` stands between the two levels:
`Sender` and `Receiver` are written with the messages and the `TagMatches` of `Common`,
and `CmacStream` shows that the byte-level loops behave like that.

An action runs from one visible or blocking call to the next: everything between
two queue calls is local to the process, so no other process can tell where it
happened. Error branches of a call (`...Fails`) are actions of their own, bounded
by `MaxFaults`; each leaves through exactly the path of the code, fall-through
included. Enter prompts are actions too, so that the operator may never press it.
`ReceiveSymmetricKey` and `GetPublicKey` end the process ("aborted") where Botan
throws and nothing catches. `DeriveKey` is the first half of
`send_symmetric_key`: it ends the process where `*rsa` dereferences null. A
process that ends or is killed loses its descriptors and unlinks nothing.

**Data.** A key is named by the process that generated it (each process draws its
random bytes once). A public key is its owner; an encrypted key is the pair of
the sender it was encrypted for and the key; a frame is its counter byte
(`message_index % 256`) and the key its CMAC was computed under. The CMAC is
ideal: the tag of a frame matches the one computed under `k` exactly if the
frame was tagged under `k`, and the last 16 bytes of any other message match no
tag. That this is what the loops compute, although each keeps one buffer and one MAC
object for all its messages, is what `CmacStream` is for. `LoadsKey` and `Decrypts` say for which messages Botan returns normally.

**Receivers of one object.** Linux serves blocked receivers in the order they
blocked; POSIX leaves it open. The model lets any waiting process take the next
message, which includes both.

**The operator.** `After[p]` is the set of senders that must have ended, by themselves or
not, before `p` is launched. With `AnyTime` (all empty) sessions overlap freely; with
`InTurn` each use of `run.sh` waits for the end of the sender before, as one does who
presses Enter (or loses a process) and starts again. The *receivers* of earlier uses
keep running in any case: they have no normal end. `Session(s, r)` says that one use
starts both, `OneAtATime` that uses follow each other like this; TLC checks that
`InTurn` satisfies it.

**Bytes.** In `CmacStream` a message is the sequence of its bytes: plain ones (the fill
byte and the counter), those of an encoded public key, and those of a tag, which name
the key, the bytes absorbed and the position. Nothing there says where a message
ends or what kind it is: the receiver has the number of bytes received and slices.
Senders start with a public key and go on with frames under `KeyOf[s]`; any receiver
takes any message, as after overlapping sessions. `StreamInv` says what is left
between two messages; the refinement decodes queue and verdicts and is the identity
on the two counters. `kMessageSize` and `DerSize` are parameters.

Operators named `Op_Change` are `Op` with a plausible mistake. No specification
uses them; they show that the properties notice such a mistake.

## Runs

| run | instance | distinct states | shows |
|---|---|---|---|
| `single_session` | 1 + 1 processes, the 10 frames and capacity 10 of `common.hpp`, no failures, fair | 258 | `ImplementsPeriodicChannel`: every frame is delivered and verified, once, in order, whatever the speeds and whether or not Enter is pressed |
| `sequential_sessions` | 3 + 3, 3 frames, capacity 2, each session after the exit of the sender before, fair | 3,398 | `SessionCompletes`, `NoMutualWait`, `NoAbort`, `NoFrameLost`, `PairsAreChannels`: the two unlinks isolate the sessions, although earlier receivers still wait; `SInv`, the reason |
| `crashes_and_faults` | 2 + 2, 2 frames, capacity 1, any overlap, one kill, one failing call | 657,344 | the safety properties that hold in any schedule: `TypeOK`, `IInv`, `ChannelDiscipline`, `KeyAgreement`, `NothingLeftBehind`, `PartnersShareQueues`, `Authentic`, `VerifiedInOrder`, `SuccessMeansAllSent`, `DInv`; `ImplementsKeyTransport` |
| `receiver_lost` | 1 + 2, 10 frames, capacity 10, any overlap, two kills, one failing call, fair | 99,110 | `PeriodicSendNeverBlocks`, `KeyedSenderFinishes`: with a receiver's key the sender gets to its exit and its unlinks even if every receiver is gone; `RoomInv`, the reason |
| `recovery` | 3 + 3, 2 frames, capacity 1, one process killed or one call failing, each session after the end of the sender before, fair | 62,751 | `CleanSessionCompletes`: a session that finds neither name completes, whatever happened in either session before; `LeftoverNamesHeal`: one that opens leftover names of empty queues sends all its frames and gets to its unlinks |
| `cmac_stream` | 2 + 2 on one queue, one sender without a shared key, 3 frames, capacity 2, 40-byte public keys, 41-byte receive buffer | 20,089 | `StreamInv`, `ImplementsTaggedFrames` |
| `cmac_demo` | the one program, 20 names for the random key | 120 | `DisplayedTagDecides` |
| `claim_*` | as small as shows it | | five statements of the documents and of the programs' own messages that the code does not keep (below) |

**Bounds.** `Senders`, `Receivers`: two of each is the least that gives a second
session, a stale receiver, a stolen message and a key that could reach the wrong
sender; three sessions have two stale receivers, which must not meet on one object either.
`kMaxMessages`: 10 as configured for one session; 2 and 1 in the others,
so that sends really block on a full queue, and with two frames in a queue of
one every order of the two ends occurs; 10 again in `receiver_lost`, because the claim
there is about this very number. `kNumMessagesToSend`: 10, 3 and 2; three
frames over two slots fill and drain the queue. `MaxKills` and `MaxFaults` bound
how many processes are killed and calls fail; one of each already gives, with two
sessions, a failure in one and its effects in the other; `receiver_lost` has two kills, so that
both receivers can be lost. `recovery` has three sessions because a sender that is killed
leaves the names behind: the second session starts on them and unlinks them when it
ends, and only the third can start clean; `AtMostOneFailure` cuts its behaviours off at a second
kill or failing call, so that one of them at most precedes a session. In `cmac_stream` a public key is longer than a frame and
shorter than the buffer, as in the code (294, 36 and 1024 bytes), so that a frame
is received over the rest of a longer message. `cmac_demo` is a straight line: nothing
depends on the value of the key, and the 20 names are only 20 equal runs. The proofs have none of these
bounds. The counter byte does not wrap at these sizes (`kByteModulo` is 256,
ten frames are configured), and `VerifiedInOrder` is stated for at most 256 frames.

**Fairness.** Weak fairness of each process's own next step: the operating system
schedules every process that can run, and a blocked call returns when it can
forever proceed. Launching, Enter, kills and failures are never assumed to happen.
No liveness property depends on who is served first when several receivers wait on
one object. `CmacStream` and `CmacDemo` have no fairness: their properties are safety.

**After a failure.** `KeyedSenderFinishes` speaks of a sender that has a receiver's key.
One that failed to receive a key enters its loop with its public key perhaps unread,
and then its tenth frame is the eleventh message in a queue of ten: it may block.
`CleanStart` is the state in which neither name exists (`ls /dev/mqueue` shows none)
and every other process is past its `mq_open` calls or gone. Receivers of a broken session may
still wait, on objects that no name leads to. It may hold of the last session only: any
earlier one is followed by processes that are not launched yet.

`EmptyStart` is weaker: names may exist, as after an `mq_open` that failed, and receivers
of a broken session may wait on them, if the queues are empty and these receivers wait for a
public key on both. Such a receiver may answer in place of the session's own, and whichever
is left waiting for a public key may take a frame and abort on it: that all frames are verified is
not claimed. That the sender sends all of them and unlinks both names is (`LeftoverNamesHeal`), so that
one more session undoes what a failed `mq_open` left. The condition is needed: a session that
finds messages may abort on them, and a receiver that opened its two names around the unlinks
of another session reads the new queue and answers on an old one.
`NothingLeftBehind` says which messages a session cannot find: a public key or
a frame of a sender that has exited. It has no counterpart for encrypted keys: after a failed
receive and a failed send the sender may be gone when a slow receiver answers it, on a reply queue that
this receiver has created under the name in between.

**Deadlock** is not checked in any run: the receiver has no normal end, the
operator may never press Enter, and an overlapping or broken session really stops.
Unwanted waiting is `NoMutualWait`, `SessionCompletes`, `KeyedSenderFinishes`,
`CleanSessionCompletes` and `LeftoverNamesHeal` instead.

### Where documents and code differ

- `SucceededMeansMatched`: after "CMAC verification failed!" the receiver also
  prints "CMAC verification succeeded" (`receiver.cpp:168-171`).
- `PeriodicUnderSharedKey`: a sender that failed to receive the key goes on with
  its own random bytes (`sender.cpp:272`), contrary to its own message (`:161`).
- `SendFailureExits`: "Public key send failed. Press Enter to exit." does not
  exit (`sender.cpp:91`, `:267`).
- `KeyConfirmedBeforePeriodic`: there is no confirmation message
  (`README_CHGPT.md:89-92`, `receiver.cpp:250`).
- `PhasesAreSeparate`: both phases share the queues and messages carry no
  identifier (`README_CHGPT.md:43`, `:72`, `receiver.cpp:139`).

In two respects the code does more than its documents say, which is no property that could be
refuted: `README_CHGPT.md:201-208` and `:243` disclaim authentication, replay protection and
ordering of periodic messages, while the code sends a CMAC with each of them and `README.md:11`
says so. `Authentic` and `VerifiedInOrder` say what the two programs get from it among
themselves.

## Proofs

The theorems hold for every value of the constants that satisfies the assumptions in
`Common`, `PosixMq`, `SecureComm` and `CmacStream`: the two sets of processes are disjoint
and `None` is in neither, the capacity and the number of frames are positive, the
bounds on kills and failures are natural numbers, a public key has at least 16 bytes
and fits the receive buffer, as does a frame. The sets of processes need not be finite. `RoomInvariant`
and `SendsNeverBlock` assume in addition that there is one sender, the latter also
`kNumMessagesToSend <= kMaxMessages`, as in `common.hpp`. The theorems of `SessionProofs`
assume `OneAtATime` and speak of each behaviour up to the first kill or failing call
(`Undisturbed`); the two about channels also assume at most 256 frames. All of these
assumptions are those under which the runs check the same properties, and hold of the instances
there.

| theorem | property |
|---|---|
| `Invariant` | `IInv`, inductive |
| `TypeCorrect` | `TypeOK` |
| `ChannelsDisciplined` | `ChannelDiscipline` |
| `KeysAgree` | `KeyAgreement` |
| `TransportImplemented` | `ImplementsKeyTransport` |
| `DeliveryInvariant` | `DInv`, inductive together with `IInv` |
| `QueuesShared` | `PartnersShareQueues` |
| `FramesAuthentic` | `Authentic` |
| `FramesInOrder` | `VerifiedInOrder` |
| `SuccessHonest` | `SuccessMeansAllSent` |
| `ExitsLeaveNothing` | `NothingLeftBehind`, inductive together with `IInv`, `DInv` and `KeyOrigins` |
| `RoomInvariant` | `RoomInv`, inductive together with `IInv` and `DInv` |
| `SendsNeverBlock` | `PeriodicSendNeverBlocks` |
| `SessionInvariant` | `SInv`, inductive together with `IInv` while undisturbed |
| `NothingThrows` | `NoAbort` |
| `FramesAllDelivered` | `NoFrameLost` |
| `NeverBothWait` | `NoMutualWait` |
| `ChannelsImplemented` | `PairsAreChannels`: each session implements the steps of `PeriodicChannel` |
| `CleanChannels` | `SafeSpec` of `PeriodicChannel` for each session, without kills and failures |
| `NothingLeftOver` | `StreamInv`, inductive |
| `FramesImplemented` | `ImplementsTaggedFrames` |
| `VerificationFails` | `DisplayedTagDecides` |

### Keys and channels (`SecureCommProofs`)

`KeyAgreement` alone is not inductive. A sender gets its key from a message, so
the encrypted keys still in queues must be genuine too (`WrappedKeysGenuine`). For
the message the sender takes to be an encrypted key at all, its queue must only
hold those (`ChannelsSeparate`), and this survives unlinking and recreating names only
because no *object* is ever reachable in both directions, where reachable counts
descriptors as well as names. That in turn needs descriptors and names to refer to
existing objects (`DescriptorsValid`), so that a newly created object is nobody's.
Finally the wrapped key must not change afterwards, and the loop index must not
run past its bound, which is `KeyedBeforeUse`: what each process has at each
program counter.

The proof has three layers: what each queue call does to the objects
(`OpenEffect`, `SendEffect`, `ReceiveEffect`); how the parts of the invariant that
speak of all objects survive such a call (`...KeepsChannels`, `...KeepsWrapped`);
and one lemma per group of actions, in which one step shows each conjunct
(`SenderQuiet`, `SenderOpens`, ..., `ReceiverReceives`). `Inductive` puts them
together. The refinement needs only `IInv` and that derived keys are stable.

### Where messages lie (`DeliveryProofs`)

`PartnersShareQueues` relates two processes that never name each other's queue.
What connects them is the message: a public key lies in the only object its sender
sends to (`PublicKeysPlaced`), so the receiver that loads it reads that object, and an
encrypted key lies in the only object its receiver sends to (`WrappedKeysPlaced`), so the
sender that decrypts it reads that one. Hence all frames of one key are in one
object (`FramesTogether`), were sent by the partner (`FramesGenuine`), and ascend in it,
above all those already verified (`FramesAscend`), which gives `Authentic` and
`VerifiedInOrder`. That a process sends its public key before any of this, and
overwrites `status` in every phase, is `StatusHonest`. The proof classifies each step
of the system by what it does to the objects: it adds one message to one of them
(`Adds`, with `Posts` telling which message and by whom) or it adds none (`Drains`);
each part of `DInv` is then shown for the two kinds of step.

`NothingLeftBehind` follows in the same way. A queue that a name refers to either is new, hence
empty, or the name referred to it before (`NamesOnlyMoveOn`); a process exits by unlinking
that name, or from its setup, before it has sent anything (`WaysToExit`); and nobody else sends
under the key of a process that has exited (`OthersPost`), because keys of receivers serve
one sender each and every other key is its user's own (`KeyOrigins`).

### Room for the frames (`RoomProofs`)

With one sender there is at most one public key in all queues (`OnePublicKey`) and none
once a receiver has loaded it (`PublicKeyLoaded`); without it, and without
encrypted keys (`OneKindPerQueue`), a queue holds no more messages than frames have been
sent (`FramesCounted`). A sender that has a receiver's key has, by `IInv`, been
loaded by that receiver, so its queue holds at most `sndIndex[s]` messages, which is less
than the capacity while it still has one to send.

### Sessions one at a time (`SessionProofs`)

That a session is not disturbed by its predecessors is a statement about all of them at
once: their receivers never end, and each still holds descriptors of objects that were
reachable through the same two names. `SInv` therefore says which session owns the
names. `TakeTurns`: of two sessions that have begun, the sender of one has exited.
`NamesCurrent`: while a session is not over, its descriptors are what the names refer to,
and a name that refers to anything belongs to a session that has begun and is not over,
so that the next one finds neither. `ReadersApart`: a receiver that is left over keeps
an object without a name that no other receiver reads. On these two objects the
session is as far as its sender (`SessionState`): both empty, or holding exactly the
public key and the encrypted key in answer to it, or holding the frames that the
receiver has not taken yet (`Delivered`).

Each action is shown to keep `SessionState` of its own session (`PublicKeySent`,
`SymmetricKeyTaken`, `FrameSent`, `FrameReceived` and so on) and of any other
(`OtherSessionsKept`): a process only touches its own objects (`OwnQueuesOnly`), and the only
step that an ended session still makes is a receive of its receiver (`OnlyLateReceives`).
The delicate steps are the opening of a name (`NamesOpened`: a name that is taken can only be taken
by the other end) and the two unlinks (`ReplyUnlinked`, `ForwardUnlinked`: the receiver may still
read the object, which must be no other receiver's later on).

`NoAbort`, `NoFrameLost` and `NoMutualWait` are then read off `SInv` and `IInv`. So is the
refinement: the queue of a session holds exactly what its receiver lags behind, hence `Send` is
only possible with room in the queue, and what a receiver takes is the next frame (`FrameTaken`),
hence its step is `Verify`; all steps of other processes leave `sndIndex[s]` and
`rcvLog[r]` alone. `PairsAreChannels` says this of all sessions at the same time.

### Bytes (`CmacStreamProofs`)

`StreamInv` says that both MAC objects are as `set_key` left them, and that the first 19
bytes of the sender's buffer are still the fill byte. So the frame the next iteration
makes is `Frame(i, k)`, whatever tag the one before left behind its payload, and
the slices of a received message are those of one whole message. The refinement then
needs that the trailer of a frame is the tag of its payload under exactly one key, that
the trailer of a public key is no tag, and that decoding commutes with `Append` and `Tail`.

### The demonstration (`CmacDemoProofs`)

The invariant gives the MAC object and both tags before each statement; the tags
differ because the last byte, 42, is 43 when the second is computed.

### Model-checked only

Everything under fairness, since liveness and `ENABLED` are beyond the prover:
`SessionCompletes`, `KeyedSenderFinishes`, `CleanSessionCompletes`, `LeftoverNamesHeal`, and of
`ImplementsPeriodicChannel` that every frame is verified in the end (that it is verified
once and in order is `CleanChannels`). Every invariant and every safety refinement
that a run checks is also proved.

## Not modelled

Branches that no message of these two programs can take: a public key larger than
a message (`sender.cpp:80`), a loaded key that is not RSA (`receiver.cpp:82`), a
message of no bytes or of fewer than 16 (`receiver.cpp:142`, `:150`), an unknown
`message_id`. Sizes in bytes (the 1024-byte limit never bites: a DER public key has
294 bytes, an encrypted key 256, a frame 36); the start-up delays, which only make some
schedules unlikely; the 3 s period itself; printing apart from the verdicts; the secrecy of
keys and what an outsider could do to the queues: the properties are about
the two programs. A failing `mq_unlink`: `~MqUnlinker` ignores the result, and the only failure
that two programs of one user can cause is that the name is free already, which `MqUnlink` covers. Exhaustion inside Botan and allocation failures. `calculate_mac`, which
nothing calls, and the three functions that print bytes. `received_bytes - kCmacSize`
(`receiver.cpp:155`) wraps around for fewer than 16 bytes, which no message of the two
programs has; `CmacStreamAssumption` says so.

Botan itself: the repository has its 178 public headers (some 46,000 of its 46,800 lines
of implementation) but no source file of the library. They declare interfaces, of which
the programs use a dozen functions, and contain next to nothing of what these do.
There is no behaviour in them to model beyond the contract in `Mac`, `LoadsKey` and
`Decrypts`, so the share of all lines that the models stand for stays small by
nature; of the repository's own code (about 660 lines in the two programs, the shared
header, the demonstration and `run.sh`) they cover every function that keeps state.

## Plan

1. *Done*: `Common`, `PosixMq`, `Sender`, `Receiver`, `SecureComm`, the two abstract
   specifications, the inductive invariant and the refinement of `KeyTransport`.
2. *Done*: `CmacStream`, its abstract specification `TaggedFrames` and the proof that it
   implements it; `CmacDemo`.
3. *Done*: liveness after failures (`receiver_lost`, `recovery`); proofs of `DInv` and what
   follows from it, and of `PeriodicSendNeverBlocks`.
4. *Done*: sessions one at a time: `SInv`, `NoAbort`, `NoFrameLost`, `NoMutualWait`, and the
   safety part of `PeriodicChannel` for every session; `RoomInv`; `DisplayedTagDecides`.
5. *Done*: what a session may find: `NothingLeftBehind` with its proof, `LeftoverNamesHeal`.
6. Sessions that find messages of a killed one: which of them abort which later session; and
   `SInv` for a session that starts clean after a failure.
