--------------------------- MODULE CmacDemoProofs ---------------------------
(***************************************************************************)
(* DisplayedTagDecides for any key the random number generator returns.    *)
(* The two tags differ because the bytes they are computed from do: the    *)
(* last one is 42 before data.back()++ and 43 after it.                    *)
(***************************************************************************)
EXTENDS CmacDemo, TLAPS

(* The bytes after data.back()++. *)
Corrupted == [Data EXCEPT ![16] = Plain(43)]

(* What the first MAC object and the two tags are before each statement.    *)
DemoInv ==
  /\ pc \in {"tag", "corrupt"} => data = Data
  /\ pc \in {"update", "tag2", "verify", "done"} => data = Corrupted
  /\ pc \in {"tag", "corrupt", "update"} => mac = SetKey(key)
  /\ pc \in {"tag2", "verify"} => mac = Update(SetKey(key), data)
  /\ pc # "tag" => tag = Final(Update(SetKey(key), Data))
  /\ pc \in {"verify", "done"} => tag2 = Final(Update(SetKey(key), data))
  /\ pc = "done" => verified = (tag2 = tag)

(* final() leaves the object as set_key did.                                *)
LEMMA FinalResets ==
  ASSUME NEW k, NEW d
  PROVE  /\ AfterFinal(Update(SetKey(k), d)) = SetKey(k)
         /\ Final(Update(SetKey(k), d)) = Tag(k, <<>> \o d)
<1>1. Update(SetKey(k), d) = [key |-> k, fed |-> <<>> \o d]
  BY DEF Update, SetKey
<1>2. QED
  BY <1>1 DEF AfterFinal, SetKey, Final

(* Two tags are equal only if the same bytes were absorbed (CMAC is ideal). *)
LEMMA TagsTellBytes ==
  ASSUME NEW k, NEW c, NEW d, Tag(k, c) = Tag(k, d)
  PROVE  c = d
<1>1. Tag(k, c)[1] = TagByte(k, c, 1) /\ Tag(k, d)[1] = TagByte(k, d, 1)
  BY DEF Tag, kCmacSize
<1>2. TagByte(k, c, 1) = TagByte(k, d, 1)
  BY <1>1
<1>3. TagByte(k, c, 1).fed = c /\ TagByte(k, d, 1).fed = d
  BY DEF TagByte
<1>4. QED
  BY <1>2, <1>3

(* data.back()++ changes the last byte, and the bytes absorbed with it.     *)
LEMMA BytesDiffer ==
  /\ [Data EXCEPT ![Len(Data)] = Plain((@.val + 1) % 256)] = Corrupted
  /\ <<>> \o Data # <<>> \o Corrupted
<1> DEFINE raw == <<107, 193, 190, 226, 46, 64, 159, 150, 233, 61, 126, 17, 115, 147, 23, 42>>
           B == {Plain(v) : v \in Nat}
<1>1. \A i \in 1 .. 16 : raw[i] \in Nat
  OBVIOUS
<1>2. raw[16] = 42
  OBVIOUS
<1>3. Data = [i \in 1 .. 16 |-> Plain(raw[i])]
  BY DEF Data
<1> HIDE DEF raw
<1>4. Data \in Seq(B) /\ Len(Data) = 16 /\ Data[16] = Plain(42)
  BY <1>1, <1>2, <1>3
<1>5. Plain(42).val = 42 /\ Plain(43).val = 43 /\ Plain(43) \in B
  BY DEF Plain
<1>6. [Data EXCEPT ![Len(Data)] = Plain((@.val + 1) % 256)] = Corrupted
  <2>1. (Data[16].val + 1) % 256 = 43
    BY <1>4, <1>5
  <2>2. QED
    BY <1>4, <2>1 DEF Corrupted
<1>7. Corrupted \in Seq(B) /\ Corrupted[16] = Plain(43) /\ Len(Corrupted) = 16
  <2>1. Data \in [1 .. 16 -> B]
    BY <1>1, <1>3
  <2>2. Corrupted \in [1 .. 16 -> B] /\ Corrupted[16] = Plain(43)
    BY <1>5, <2>1 DEF Corrupted
  <2>3. Corrupted = [i \in 1 .. 16 |-> Corrupted[i]] /\ \A i \in 1 .. 16 : Corrupted[i] \in B
    BY <2>2
  <2> HIDE DEF B
  <2>4. QED
    BY <2>2, <2>3
<1>8. <<>> \o Data # <<>> \o Corrupted
  <2>1. (<<>> \o Data)[16] = Data[16] /\ (<<>> \o Corrupted)[16] = Corrupted[16]
    BY <1>4, <1>7
  <2>2. QED
    BY <1>4, <1>5, <1>7, <2>1
<1>9. QED
  BY <1>6, <1>8

LEMMA DemoKept == ASSUME DemoInv, [Next]_vars PROVE DemoInv'
<1>1. CASE UNCHANGED vars
  BY <1>1 DEF vars, DemoInv
<1>2. CASE MakeTag
  BY <1>2, FinalResets DEF MakeTag, Goes, DemoInv
<1>3. CASE Corrupt
  BY <1>3, BytesDiffer DEF Corrupt, Goes, DemoInv
<1>4. CASE UpdateAgain
  BY <1>4 DEF UpdateAgain, Goes, DemoInv
<1>5. CASE MakeTag2
  BY <1>5 DEF MakeTag2, Goes, DemoInv
<1>6. CASE Verify
  <2>1. Final(mac) = tag2
    BY <1>6 DEF Verify, Goes, DemoInv
  <2>2. QED
    BY <1>6, <2>1 DEF Verify, VerifyMac, Goes, DemoInv
<1>7. QED
  BY <1>1, <1>2, <1>3, <1>4, <1>5, <1>6 DEF Next

(* DisplayedTagDecides: verify_mac fails, and for the reason shown: the tag *)
(* the program displays is the one verify_mac computes, and it differs     *)
(* from the old one (cmac.cpp:18-36).                                      *)
THEOREM VerificationFails == Spec => []DisplayedTagDecides
<1>1. Init => DemoInv
  BY DEF Init, DemoInv
<1>2. DemoInv /\ [Next]_vars => DemoInv'
  BY DemoKept
<1>3. DemoInv => DisplayedTagDecides
  <2> SUFFICES ASSUME DemoInv PROVE DisplayedTagDecides
    OBVIOUS
  <2>1. pc = "verify" => Final(mac) = tag2
    BY DEF DemoInv
  <2>2. pc = "done" => tag2 # tag
    BY BytesDiffer, FinalResets, TagsTellBytes DEF DemoInv
  <2>3. QED
    BY <2>1, <2>2 DEF DemoInv, DisplayedTagDecides
<1>4. QED
  BY <1>1, <1>2, <1>3, PTL DEF Spec
=============================================================================
