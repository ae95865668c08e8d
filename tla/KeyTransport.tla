---------------------------- MODULE KeyTransport ----------------------------
(***************************************************************************)
(* What the key exchange promises, without queues, processes or failures:  *)
(* a receiver wraps its key once, for one sender; a sender unwraps at most *)
(* one key, and only one that was wrapped for it.                          *)
(***************************************************************************)
CONSTANTS Senders, Receivers, None

VARIABLES
  wrapped,  (* wrapped[r]: the sender r's key was wrapped for, or None      *)
  held      (* held[s]: the receiver whose key s unwrapped, or None         *)

vars == <<wrapped, held>>

Init ==
  /\ wrapped = [r \in Receivers |-> None]
  /\ held = [s \in Senders |-> None]

Wrap(r, s) ==
  /\ wrapped[r] = None
  /\ wrapped' = [wrapped EXCEPT ![r] = s]
  /\ UNCHANGED held

Unwrap(s, r) ==
  /\ held[s] = None
  /\ wrapped[r] = s
  /\ held' = [held EXCEPT ![s] = r]
  /\ UNCHANGED wrapped

Next == \E s \in Senders, r \in Receivers : Wrap(r, s) \/ Unwrap(s, r)

Spec == Init /\ [][Next]_vars
=============================================================================
