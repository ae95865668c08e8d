--------------------------------- MODULE Mac ---------------------------------
(***************************************************************************)
(* Bytes, and the Botan::MessageAuthenticationCode object ("CMAC(AES-128)") *)
(* as the programs use it: a stream that absorbs bytes under a key.         *)
(* final() returns the tag of all bytes since the last final() and starts  *)
(* over; the key stays.                                                    *)
(*                                                                         *)
(* CMAC is ideal: byte i of a tag is named by the key, the bytes absorbed   *)
(* and i, so two tags are equal iff key and bytes are.  A DER byte is      *)
(* named by the sender whose public key it belongs to and its position.    *)
(***************************************************************************)
EXTENDS Naturals, Sequences

kCmacSize == 16    (* also the output_length() of the MAC *)

Plain(v)         == [kind |-> "plain", val |-> v]
DerByte(s, i)    == [kind |-> "der", owner |-> s, pos |-> i]
TagByte(k, d, i) == [kind |-> "tag", key |-> k, fed |-> d, pos |-> i]

Tag(k, d) == [i \in 1 .. kCmacSize |-> TagByte(k, d, i)]

SetKey(k)      == [key |-> k, fed |-> <<>>]
Update(mac, d) == [mac EXCEPT !.fed = @ \o d]
Final(mac)     == Tag(mac.key, mac.fed)

AfterFinal(mac) == [mac EXCEPT !.fed = <<>>]

VerifyMac(mac, tag) == Final(mac) = tag
=============================================================================
