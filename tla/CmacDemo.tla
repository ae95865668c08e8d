------------------------------ MODULE CmacDemo ------------------------------
(***************************************************************************)
(* botan_cmac/cmac.cpp: the stand-alone demonstration of the MAC object.   *)
(* It tags 16 bytes, changes the last one, and lets the same object verify *)
(* the old tag against the changed bytes.  pc is the next statement.       *)
(***************************************************************************)
EXTENDS Mac

CONSTANT RandomKeys  (* what rng.random_vec(16) may return *)

VARIABLES pc, key, data, mac, tag, tag2, verified

vars == <<pc, key, data, mac, tag, tag2, verified>>

(* hex_decode("6BC1BEE22E409F96E93D7E117393172A") *)
Data == [i \in 1 .. 16 |-> Plain(
  <<107, 193, 190, 226, 46, 64, 159, 150, 233, 61, 126, 17, 115, 147, 23, 42>>[i])]

Init ==
  /\ pc = "tag"
  /\ key \in RandomKeys
  /\ data = Data
  /\ mac = SetKey(key)
  /\ tag = <<>> /\ tag2 = <<>>
  /\ verified = FALSE

Goes(from, to) == pc = from /\ pc' = to

MakeTag ==
  /\ Goes("tag", "corrupt")
  /\ tag' = Final(Update(mac, data))
  /\ mac' = AfterFinal(Update(mac, data))
  /\ UNCHANGED <<key, data, tag2, verified>>

(* data.back()++ *)
Corrupt ==
  /\ Goes("corrupt", "update")
  /\ data' = [data EXCEPT ![Len(data)] = Plain((@.val + 1) % 256)]
  /\ UNCHANGED <<key, mac, tag, tag2, verified>>

UpdateAgain ==
  /\ Goes("update", "tag2")
  /\ mac' = Update(mac, data)
  /\ UNCHANGED <<key, data, tag, tag2, verified>>

(* mac2, a second object with the same key, "to be able to view the new mac" *)
MakeTag2_SameObject ==
  /\ Goes("tag2", "verify")
  /\ tag2' = Final(mac) /\ mac' = AfterFinal(mac)
  /\ UNCHANGED <<key, data, tag, verified>>
MakeTag2 ==
  /\ Goes("tag2", "verify")
  /\ tag2' = Final(Update(SetKey(key), data))
  /\ UNCHANGED <<key, data, mac, tag, verified>>

Verify ==
  /\ Goes("verify", "done")
  /\ verified' = VerifyMac(mac, tag)
  /\ mac' = AfterFinal(mac)
  /\ UNCHANGED <<key, data, tag, tag2>>

Next == MakeTag \/ Corrupt \/ UpdateAgain \/ MakeTag2 \/ Verify

Spec == Init /\ [][Next]_vars

-----------------------------------------------------------------------------
(* The tag that the program displays, of a fresh object, is the one that    *)
(* verify_mac computes in the object it has used before; it differs from   *)
(* the old tag, and that is why the verification fails (cmac.cpp:24-36).   *)
DisplayedTagDecides ==
  /\ pc = "verify" => Final(mac) = tag2
  /\ pc = "done" => tag2 # tag /\ ~verified
=============================================================================
