---------------------------- MODULE MCCmacStream ----------------------------
(* Instances of CmacStream for TLC. *)
EXTENDS CmacStream, TLC

(* One sender has the key of a receiver; the other has its own random       *)
(* bytes, as one whose key exchange failed.                                *)
CONSTANTS s1, s2, r1, r2
KeyOfSenders == (s1 :> r1) @@ (s2 :> s2)
=============================================================================
