---------------------------- MODULE TaggedFrames ----------------------------
(***************************************************************************)
(* What the frame layout and the MAC streams of the two programs promise:  *)
(* a queue that carries whole messages, and a verdict on each that depends *)
(* on this message and the receiver's key alone.  This is the view of      *)
(* messages that Sender and Receiver are written with.                     *)
(***************************************************************************)
EXTENDS Common

CONSTANT KeyOf       (* the symmetric key of each sender *)

VARIABLES announced, sent, queue, verdicts

vars == <<announced, sent, queue, verdicts>>

Init ==
  /\ announced = [s \in Senders |-> FALSE]
  /\ sent = [s \in Senders |-> 0]
  /\ queue = <<>>
  /\ verdicts = [r \in Receivers |-> <<>>]

Put(m) == Len(queue) < kMaxMessages /\ queue' = Append(queue, m)

PutPublicKey(s) ==
  /\ ~announced[s]
  /\ Put(PublicKey(s))
  /\ announced' = [announced EXCEPT ![s] = TRUE]
  /\ UNCHANGED <<sent, verdicts>>

PutFrame(s) ==
  /\ announced[s] /\ sent[s] < kNumMessagesToSend
  /\ Put(Periodic(sent[s], KeyOf[s]))
  /\ sent' = [sent EXCEPT ![s] = @ + 1]
  /\ UNCHANGED <<announced, verdicts>>

Take(r) ==
  /\ queue # <<>>
  /\ queue' = Tail(queue)
  /\ verdicts' = [verdicts EXCEPT ![r] =
       Append(@, [msg |-> Head(queue), matched |-> TagMatches(r, Head(queue))])]
  /\ UNCHANGED <<announced, sent>>

Next ==
  \/ \E s \in Senders : PutPublicKey(s) \/ PutFrame(s)
  \/ \E r \in Receivers : Take(r)

Spec == Init /\ [][Next]_vars
=============================================================================
