------------------------------- MODULE StuffH -------------------------------
(***************************************************************************)
(* generate_stuff_h of src/BatmanSecurer/frida_builder.py (lines          *)
(* 388-489): derives the secret blob STUFF_KEY_RAW and the substitution    *)
(* box qjs_sbox from the configured atoms.custom_encryption_key and writes *)
(* them to quickjs/stuff.h.                                                *)
(*                                                                         *)
(* Hash outputs and the bytes drawn from the secrets module are not        *)
(* modelled by value: the blob is kept as its length, and every keystream  *)
(* byte is a nondeterministic choice in 0..255, which is what a SHA-512    *)
(* digest byte can be.  The box has SboxSize entries (256 in the code);    *)
(* the Fisher-Yates passes, the modulo reduction and the swaps are kept    *)
(* exactly.                                                                *)
(***************************************************************************)
EXTENDS Integers, Sequences, FiniteSets

CONSTANTS
  Keys,        \* possible values of atoms.custom_encryption_key
  Versions,    \* possible values of cfg["frida_version"], as character lists
  SboxSize     \* len(sbox): 256 in the code

ASSUME KeysAssumption == Keys \subseteq STRING /\ Keys # {}
ASSUME VersionsAssumption == Versions \subseteq Seq(STRING) /\ Versions # {}
ASSUME SboxSizeAssumption == SboxSize \in Nat \ {0}

\* The byte values a digest or secrets.token_bytes can produce.
Byte == 0..255

\* The indices and the values of the box.
Idx == 0..SboxSize - 1

\* hashlib.sha512(...).digest() is 64 bytes long.
DigestLen == 64

\* The stuff.h written: the blob's length, the box and the guard macro.
NoFile == [len |-> 0, sbox |-> [k \in Idx |-> k], guard |-> <<>>]

VARIABLES
  pc,        \* where generate_stuff_h is: "start", "stretch", "sbox", "done", or an exit
  key,       \* the configured key
  version,   \* the configured frida_version
  outLen,    \* out_len
  finalLen,  \* len(final)
  sbox,      \* the box being shuffled
  rounds,    \* the number of Fisher-Yates passes (line 457)
  r,         \* the pass being run
  i,         \* the index of the next swap in the pass
  stuff      \* the stuff.h on disk

vars == <<pc, key, version, outLen, finalLen, sbox, rounds, r, i, stuff>>

(* header_guard, lines 433-434: every "." of the version becomes "_".     *)
(* The fixed "FRIDA_" and "_STUFF_H" around it are left out.              *)
Underscore == "_"
HeaderGuard(v) == [k \in DOMAIN v |-> IF v[k] = "." THEN Underscore ELSE v[k]]

Init ==
  /\ pc = "start"
  /\ key \in Keys
  /\ version \in Versions
  /\ outLen = 0
  /\ finalLen = 0
  /\ sbox = [k \in Idx |-> k]
  /\ rounds = 0
  /\ r = 0
  /\ i = 0
  /\ stuff = NoFile

(* Lines 388-392: no key configured (or an empty one), nothing is done.    *)
NoKey ==
  /\ pc = "start"
  /\ key = ""
  /\ pc' = "nokey"
  /\ UNCHANGED <<key, version, outLen, finalLen, sbox, rounds, r, i, stuff>>

(* Lines 393-406: the user declines to generate a new stuff.h.             *)
Declined ==
  /\ pc = "start"
  /\ key # ""
  /\ pc' = "declined"
  /\ UNCHANGED <<key, version, outLen, finalLen, sbox, rounds, r, i, stuff>>

(* Lines 408-428: out_len is drawn in [64, 160), the mixing rounds run on *)
(* a state whose content is not modelled, and final starts empty.          *)
Start ==
  /\ pc = "start"
  /\ key # ""
  /\ \E n \in 0..95 : outLen' = n + 64
  /\ finalLen' = 0
  /\ pc' = "stretch"
  /\ UNCHANGED <<key, version, sbox, rounds, r, i, stuff>>

(* Lines 429-430: one more digest is appended while final is too short.   *)
Stretch ==
  /\ pc = "stretch"
  /\ finalLen < outLen
  /\ finalLen' = finalLen + DigestLen
  /\ UNCHANGED <<pc, key, version, outLen, sbox, rounds, r, i, stuff>>

\* Mutant: final is not cut to out_len.
TruncateMissing ==
  /\ pc = "stretch"
  /\ finalLen >= outLen
  /\ pc' = "sbox"
  /\ \E b \in Byte : rounds' = 5 + (b % 8)
  /\ r' = 0
  /\ i' = SboxSize - 1
  /\ UNCHANGED <<key, version, outLen, finalLen, sbox, stuff>>

\* Mutant: the inner loop started at len(sbox) (range(256, 0, -1)), whose
\* first swap reads sbox[256].
TruncateLoopFromLen ==
  /\ pc = "stretch"
  /\ finalLen >= outLen
  /\ finalLen' = outLen
  /\ pc' = "sbox"
  /\ \E b \in Byte : rounds' = 5 + (b % 8)
  /\ r' = 0
  /\ i' = SboxSize
  /\ UNCHANGED <<key, version, outLen, sbox, stuff>>

(* Lines 431 and 436-457: final is cut to out_len; the box starts as the  *)
(* identity (line 436) and the number of passes is 5 + (prng_state[0] &   *)
(* 7), b & 7 being b % 8 for a byte b; the inner loop of line 460 starts *)
(* at the last index of the box.                                           *)
Truncate ==
  /\ pc = "stretch"
  /\ finalLen >= outLen
  /\ finalLen' = outLen
  /\ pc' = "sbox"
  /\ \E b \in Byte : rounds' = 5 + (b % 8)
  /\ r' = 0
  /\ i' = SboxSize - 1
  /\ UNCHANGED <<key, version, outLen, sbox, stuff>>

\* Mutant: the swap written as two assignments without a temporary.
SwapNoTemp ==
  /\ pc = "sbox"
  /\ r < rounds
  /\ i >= 1
  /\ \E b \in Byte :
       LET j == b % (i + 1)
       IN  sbox' = [sbox EXCEPT ![i] = sbox[j], ![j] = sbox[j]]
  /\ i' = i - 1
  /\ UNCHANGED <<pc, key, version, outLen, finalLen, rounds, r, stuff>>

(* Lines 460-462: one iteration of the inner loop, i from 255 down to 1:  *)
(* j = prng_byte() % (i + 1), and sbox[i] and sbox[j] are swapped.        *)
Swap ==
  /\ pc = "sbox"
  /\ r < rounds
  /\ i >= 1
  /\ \E b \in Byte :
       LET j == b % (i + 1)
       IN  sbox' = [sbox EXCEPT ![i] = sbox[j], ![j] = sbox[i]]
  /\ i' = i - 1
  /\ UNCHANGED <<pc, key, version, outLen, finalLen, rounds, r, stuff>>

(* Lines 463-469: the pass ends; the keystream is reseeded (not modelled  *)
(* by value) and the next pass starts at i = 255.                         *)
NextPass ==
  /\ pc = "sbox"
  /\ r < rounds
  /\ i = 0
  /\ r' = r + 1
  /\ i' = SboxSize - 1
  /\ UNCHANGED <<pc, key, version, outLen, finalLen, sbox, rounds, stuff>>

(* Lines 471-489: all passes done; stuff.h is written.                    *)
Write ==
  /\ pc = "sbox"
  /\ r = rounds
  /\ stuff' = [len |-> finalLen, sbox |-> sbox, guard |-> HeaderGuard(version)]
  /\ pc' = "done"
  /\ UNCHANGED <<key, version, outLen, finalLen, sbox, rounds, r, i>>

Next ==
  \/ NoKey \/ Declined \/ Start
  \/ Stretch \/ Truncate
  \/ Swap \/ NextPass \/ Write

Spec == Init /\ [][Next]_vars

-----------------------------------------------------------------------------
\* The box is a permutation of its indices: every value appears.
IsPermutation(s) ==
  /\ s \in [Idx -> Idx]
  /\ \A v \in Idx : \E k \in Idx : s[k] = v

\* The characters a guard can hold: those of the versions, and "_".
GuardChars == (UNION {{v[k] : k \in DOMAIN v} : v \in Versions}) \cup {Underscore}

(* Type invariant.  The index of the inner loop (line 460) always names  *)
(* an entry of the box, so sbox[i] never raises IndexError.                *)
TypeOK ==
  /\ pc \in {"start", "nokey", "declined", "stretch", "sbox", "done"}
  /\ key \in Keys
  /\ version \in Versions
  /\ outLen \in Nat
  /\ finalLen \in Nat
  /\ sbox \in [Idx -> Idx]
  /\ rounds \in Nat
  /\ r \in Nat
  /\ i \in Idx
  /\ stuff \in [len : Nat, sbox : [Idx -> Idx], guard : Seq(GuardChars)]

(* Spec section 8, sbox bijectivity: at every point of the Fisher-Yates    *)
(* passes of lines 459-469, and so in the qjs_sbox written to stuff.h,     *)
(* the box holds every value 0..255 exactly once, whatever keystream bytes *)
(* are drawn.                                                              *)
SboxIsPermutation ==
  IsPermutation(sbox) /\ IsPermutation(stuff.sbox)

(* Spec section 8, blob length bound: a stuff.h that has been written      *)
(* holds a STUFF_KEY_RAW of at least 64 and fewer than 160 bytes, however  *)
(* many digests the stretch loop of lines 429-430 appended.                *)
BlobLengthBound ==
  pc = "done" => 64 <= stuff.len /\ stuff.len < 160
=============================================================================
