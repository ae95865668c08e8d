-------------------------- MODULE PeriodicChannel --------------------------
(***************************************************************************)
(* What the periodic phase promises to one pair: frames 0 .. N-1 are sent  *)
(* in order, and every frame is verified by the receiver exactly once, in  *)
(* the order sent, at whatever distance behind the sender.                 *)
(***************************************************************************)
EXTENDS Naturals, Sequences

CONSTANTS
  N,     (* frames to send                                                 *)
  Limit  (* how far the receiver may lag behind the sender                 *)

VARIABLES
  sent,     (* frames sent                                                 *)
  verified  (* counters of the frames verified                             *)

vars == <<sent, verified>>

Init == sent = 0 /\ verified = <<>>

Send ==
  /\ sent < N
  /\ sent - Len(verified) < Limit
  /\ sent' = sent + 1
  /\ UNCHANGED verified

Verify ==
  /\ Len(verified) < sent
  /\ verified' = Append(verified, Len(verified))
  /\ UNCHANGED sent

Next == Send \/ Verify

(* Nothing lost, repeated, reordered or unverified.                         *)
SafeSpec == Init /\ [][Next]_vars

(* Every frame that was sent is verified in the end.                        *)
Spec == SafeSpec /\ WF_vars(Verify)
=============================================================================
