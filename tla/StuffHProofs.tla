---------------------------- MODULE StuffHProofs ----------------------------
(***************************************************************************)
(* Proofs about StuffH for every box size, every key and version, and     *)
(* every keystream byte drawn.                                             *)
(***************************************************************************)
EXTENDS StuffH, SequenceTheorems, TLAPS

(***************************************************************************)
(* The inductive invariant.  Besides the types it records where the loop  *)
(* indices are: during the passes i is an index of the box, which is what *)
(* makes the swap of line 462 a swap of two entries of the box; and it    *)
(* records that out_len is in [64, 160) from its draw on, and that final  *)
(* has been cut to it before the box is built.                             *)
(***************************************************************************)
IInv ==
  /\ TypeOK
  /\ IsPermutation(sbox)
  /\ IsPermutation(stuff.sbox)
  /\ pc = "sbox" => i \in Idx
  /\ pc = "stretch" => outLen \in 64..159
  /\ pc \in {"sbox", "done"} => finalLen \in 64..159
  /\ pc = "done" => stuff.len = finalLen

\* Exchanging two entries of a permutation gives a permutation.
LEMMA SwapPermutation ==
  ASSUME NEW s, IsPermutation(s), NEW a \in Idx, NEW c \in Idx
  PROVE  IsPermutation([s EXCEPT ![a] = s[c], ![c] = s[a]])
<1> DEFINE t == [s EXCEPT ![a] = s[c], ![c] = s[a]]
<1>1. t \in [Idx -> Idx]
  BY DEF IsPermutation
<1>2. ASSUME NEW v \in Idx PROVE \E k \in Idx : t[k] = v
  <2>1. PICK k \in Idx : s[k] = v
    BY DEF IsPermutation
  <2>2. CASE k = a
    <3>1. t[c] = v BY <2>1, <2>2 DEF IsPermutation
    <3>2. QED BY <3>1
  <2>3. CASE k = c /\ k # a
    <3>1. t[a] = v BY <2>1, <2>3 DEF IsPermutation
    <3>2. QED BY <3>1
  <2>4. CASE k # a /\ k # c
    <3>1. t[k] = v BY <2>1, <2>4 DEF IsPermutation
    <3>2. QED BY <3>1
  <2>5. QED BY <2>2, <2>3, <2>4
<1>3. QED BY <1>1, <1>2 DEF IsPermutation

\* The identity box of line 436 is a permutation.
LEMMA IdentityPermutation == IsPermutation([k \in Idx |-> k])
BY DEF IsPermutation

\* j = b % (i + 1) of line 461 is an index of the box.
LEMMA ModIdx ==
  ASSUME NEW b \in Byte, NEW x \in Idx
  PROVE  b % (x + 1) \in Idx
<1>1. x + 1 \in Nat \ {0} /\ b \in Nat /\ x \in Nat
  BY SboxSizeAssumption DEF Byte, Idx
<1>2. b % (x + 1) \in 0..((x + 1) - 1)
  BY <1>1
<1>3. QED BY <1>1, <1>2, SboxSizeAssumption DEF Idx

\* The guard of line 433 is a string of characters of the version or "_".
LEMMA HeaderGuardType ==
  ASSUME NEW v \in Versions
  PROVE  HeaderGuard(v) \in Seq(GuardChars)
<1>1. v \in Seq(STRING)
  BY VersionsAssumption
<1>2. DOMAIN v = 1..Len(v) /\ Len(v) \in Nat
  BY <1>1, LenProperties
<1>3. \A k \in 1..Len(v) : v[k] \in GuardChars
  <2> SUFFICES ASSUME NEW k \in 1..Len(v) PROVE v[k] \in GuardChars
    OBVIOUS
  <2>1. v[k] \in {v[j] : j \in DOMAIN v}
    BY <1>2
  <2>2. {v[j] : j \in DOMAIN v} \in {{w[j] : j \in DOMAIN w} : w \in Versions}
    OBVIOUS
  <2>3. QED BY <2>1, <2>2 DEF GuardChars
<1>4. Underscore \in GuardChars
  BY DEF GuardChars
<1>5. \A k \in 1..Len(v) : (IF v[k] = "." THEN Underscore ELSE v[k]) \in GuardChars
  BY <1>3, <1>4
<1>6. HeaderGuard(v) \in [1..Len(v) -> GuardChars]
  BY <1>2, <1>5, Zenon DEF HeaderGuard
<1>7. QED BY <1>2, <1>6, SeqDef

LEMMA InitIInv == Init => IInv
<1> SUFFICES ASSUME Init PROVE IInv
  OBVIOUS
<1>1. IsPermutation(sbox) /\ IsPermutation(stuff.sbox)
  BY IdentityPermutation DEF Init, NoFile
<1>2. stuff \in [len : Nat, sbox : [Idx -> Idx], guard : Seq(GuardChars)]
  BY DEF Init, NoFile
<1>3. i \in Idx
  BY SboxSizeAssumption DEF Init, Idx
<1>4. QED BY <1>1, <1>2, <1>3 DEF Init, IInv, TypeOK

LEMMA NextIInv == IInv /\ [Next]_vars => IInv'
<1> SUFFICES ASSUME IInv, [Next]_vars PROVE IInv'
  OBVIOUS
<1> USE SboxSizeAssumption DEF IInv, TypeOK
<1>0. sbox' = sbox /\ stuff' = stuff
        => IsPermutation(sbox') /\ IsPermutation(stuff'.sbox)
  BY DEF IsPermutation
<1>1. CASE NoKey
  BY <1>0, <1>1 DEF NoKey
<1>2. CASE Declined
  BY <1>0, <1>2 DEF Declined
<1>3. CASE Start
  <2>1. PICK n \in 0..95 : outLen' = n + 64
    BY <1>3 DEF Start
  <2>2. outLen' \in 64..159
    BY <2>1
  <2>3. pc' = "stretch" /\ finalLen' = 0
    BY <1>3 DEF Start
  <2>4. UNCHANGED <<key, version, sbox, rounds, r, i, stuff>>
    BY <1>3 DEF Start
  <2>5. QED BY <1>0, <2>2, <2>3, <2>4
<1>4. CASE Stretch
  BY <1>0, <1>4 DEF Stretch, DigestLen
<1>5. CASE Truncate
  <2>1. PICK b \in Byte : rounds' = 5 + (b % 8)
    BY <1>5 DEF Truncate
  <2>2. rounds' \in Nat
    BY <2>1 DEF Byte
  <2>3. i' \in Idx /\ i' \in Nat
    BY <1>5 DEF Truncate, Idx
  <2>4. finalLen' \in 64..159
    BY <1>5 DEF Truncate
  <2>5. QED BY <1>0, <1>5, <2>2, <2>3, <2>4 DEF Truncate
<1>6. CASE Swap
  <2>1. PICK b \in Byte : sbox' = [sbox EXCEPT ![i] = sbox[b % (i + 1)],
                                               ![b % (i + 1)] = sbox[i]]
    BY <1>6 DEF Swap
  <2>2. i \in Idx /\ i >= 1
    BY <1>6 DEF Swap
  <2>3. b % (i + 1) \in Idx
    BY <2>1, <2>2, ModIdx
  <2>4. IsPermutation(sbox')
    BY <2>1, <2>2, <2>3, SwapPermutation
  <2>5. i' \in Idx /\ i' \in Nat
    BY <1>6, <2>2 DEF Swap, Idx
  <2>6. sbox' \in [Idx -> Idx]
    BY <2>4 DEF IsPermutation
  <2>7. QED BY <1>6, <2>4, <2>5, <2>6 DEF Swap
<1>7. CASE NextPass
  <2>1. i' \in Idx /\ i' \in Nat
    BY <1>7 DEF NextPass, Idx
  <2>2. QED BY <1>0, <1>7, <2>1 DEF NextPass
<1>8. CASE Write
  <2>1. HeaderGuard(version) \in Seq(GuardChars)
    BY HeaderGuardType
  <2>2. stuff' \in [len : Nat, sbox : [Idx -> Idx], guard : Seq(GuardChars)]
    BY <1>8, <2>1 DEF Write
  <2>3. IsPermutation(stuff'.sbox)
    BY <1>8 DEF Write
  <2>4. QED BY <1>8, <2>2, <2>3 DEF Write
<1>9. CASE UNCHANGED vars
  BY <1>9 DEF vars
<1>10. QED BY <1>1, <1>2, <1>3, <1>4, <1>5, <1>6, <1>7, <1>8, <1>9 DEF Next

(* Sbox bijectivity (spec section 8) for a box of any size: the qjs_sbox   *)
(* that generate_stuff_h builds by its Fisher-Yates passes (lines 459-469) *)
(* and writes is a permutation, whatever bytes the keystream produces.     *)
THEOREM SboxBijective == Spec => []SboxIsPermutation
<1>1. Init => IInv BY InitIInv
<1>2. IInv /\ [Next]_vars => IInv' BY NextIInv
<1>3. IInv => SboxIsPermutation BY DEF IInv, SboxIsPermutation
<1>4. QED BY <1>1, <1>2, <1>3, PTL DEF Spec

(* Blob length bound (spec section 8): whatever out_len is drawn at line   *)
(* 409 and however many digests the stretch loop appends, the              *)
(* STUFF_KEY_RAW written holds between 64 and 159 bytes.                   *)
THEOREM BlobLength == Spec => []BlobLengthBound
<1>1. Init => IInv BY InitIInv
<1>2. IInv /\ [Next]_vars => IInv' BY NextIInv
<1>3. IInv => BlobLengthBound BY DEF IInv, BlobLengthBound
<1>4. QED BY <1>1, <1>2, <1>3, PTL DEF Spec

(* generate_stuff_h stays well-typed for every key, version and box size: *)
(* the Fisher-Yates index (lines 459-469) is always an index of the box,  *)
(* and the written stuff.h has a guard made of the version's characters  *)
(* and "_" (line 433) and a box over the box's indices.                   *)
THEOREM TypeCorrect == Spec => []TypeOK
<1>1. Init => IInv BY InitIInv
<1>2. IInv /\ [Next]_vars => IInv' BY NextIInv
<1>3. IInv => TypeOK BY DEF IInv
<1>4. QED BY <1>1, <1>2, <1>3, PTL DEF Spec
=============================================================================
