------------------------ MODULE GumQuickPatcherProofs ------------------------
(***************************************************************************)
(* Proofs about GumQuickPatcher for every set of input files, every       *)
(* number of runs and with or without torn writes.                         *)
(***************************************************************************)
EXTENDS GumQuickPatcher, SequenceTheorems, WellFoundedInduction, TLAPS

-----------------------------------------------------------------------------
(***************************************************************************)
(* Lemmas about the string helpers.                                        *)
(***************************************************************************)

\* The least element that find and find_matching_brace CHOOSE exists.
LEMMA LeastExists ==
  ASSUME NEW T \in SUBSET Nat, T # {}
  PROVE  (CHOOSE x \in T : \A y \in T : x <= y) \in T
<1>1. PICK x \in T : \A y \in T : ~(<<y, x>> \in OpToRel(<, Nat))
  BY NatLessThanWellFounded, WFMin
<1>2. ASSUME NEW y \in T PROVE x <= y
  <2>1. y < x => <<y, x>> \in OpToRel(<, Nat)
    BY DEF OpToRel
  <2>2. ~(y < x) BY <1>1, <2>1, Zenon
  <2>3. QED BY <2>2
<1>3. \E z \in T : \A y \in T : z <= y
  BY <1>2
<1>4. QED BY <1>3

\* str.find from a non-negative offset returns -1 or an offset at which
\* the searched string fits.
LEMMA FindRange ==
  ASSUME NEW S, NEW t \in Seq(S), NEW s, Len(s) \in Nat, NEW from \in Nat
  PROVE  find(t, s, from) \in {-1} \cup (from..(Len(t) - Len(s)))
<1> DEFINE R == from..(Len(t) - Len(s))
           P(k) == SubSeq(t, k + 1, k + Len(s)) = s
           C == {k \in R : P(k)}
<1>1. find(t, s, from) = IF C = {} THEN -1 ELSE CHOOSE k \in C : \A c \in C : k <= c
  BY DEF find
<1>2. R \subseteq Nat
  BY LenProperties
<1> HIDE DEF P, R
<1>3. C \subseteq R
  BY Zenon
<1> HIDE DEF C
<1>4. CASE C # {}
  <2>1. (CHOOSE k \in C : \A c \in C : k <= c) \in C
    BY <1>2, <1>3, <1>4, LeastExists
  <2>2. QED BY <1>1, <1>3, <1>4, <2>1 DEF R
<1>5. QED BY <1>1, <1>4

\* find_matching_brace from an offset >= -1 returns -1 or an offset of
\* the text after the opening brace.
LEMMA MatchRange ==
  ASSUME NEW S, NEW t \in Seq(S), NEW o \in Int, o >= -1
  PROVE  find_matching_brace(t, o) \in {-1} \cup ((o + 1)..(Len(t) - 1))
<1> DEFINE R == (o + 1)..(Len(t) - 1)
           P(j) == t[j + 1] = "}" /\ ScanDepth(t, o, j) = 0
           C == {j \in R : P(j)}
<1>1. find_matching_brace(t, o) = IF C = {} THEN -1 ELSE CHOOSE j \in C : \A c \in C : j <= c
  BY DEF find_matching_brace
<1>2. R \subseteq Nat
  BY LenProperties
<1> HIDE DEF P, R
<1>3. C \subseteq R
  BY Zenon
<1> HIDE DEF C
<1>4. CASE C # {}
  <2>1. (CHOOSE j \in C : \A c \in C : j <= c) \in C
    BY <1>2, <1>3, <1>4, LeastExists
  <2>2. QED BY <1>1, <1>3, <1>4, <2>1 DEF R
<1>5. QED BY <1>1, <1>4

\* The one-token strings the script searches for.
LEMMA TokLen ==
  ASSUME NEW c
  PROVE  Len(<<c>>) = 1
OBVIOUS

\* Patch 1 inserts at an offset of the text.
LEMMA EntriesCloseRange ==
  ASSUME NEW S, NEW t \in Seq(S)
  PROVE  EntriesClose(t) \in {-1} \cup (0..(Len(t) - 1))
<1> DEFINE mpos == find(t, <<"M">>, 0)
           ob   == find(t, <<"{">>, mpos)
<1>0. Len(t) \in Nat
  BY LenProperties
<1>1. mpos \in {-1} \cup (0..(Len(t) - Len(<<"M">>)))
  BY TokLen, FindRange
<1>2. CASE mpos = -1 \/ ob = -1
  BY <1>2 DEF EntriesClose
<1> HIDE DEF mpos, ob
<1>3. CASE mpos # -1 /\ ob # -1
  <2>1. mpos \in Nat
    BY <1>0, <1>1, <1>3, TokLen
  <2>2. ob \in {-1} \cup (mpos..(Len(t) - Len(<<"{">>)))
    BY <2>1, TokLen, FindRange DEF ob
  <2>3. ob \in Int /\ ob >= 0 /\ ob <= Len(t) - 1
    BY <1>0, <1>3, <2>1, <2>2, TokLen
  <2>4. find_matching_brace(t, ob) \in {-1} \cup ((ob + 1)..(Len(t) - 1))
    BY <2>3, MatchRange
  <2>5. EntriesClose(t) = find_matching_brace(t, ob)
    BY <1>3 DEF EntriesClose, mpos, ob
  <2>6. QED BY <1>0, <2>3, <2>4, <2>5
<1>4. QED BY <1>2, <1>3

\* Patch 3 inserts at an offset of the text.
LEMMA FuncCloseRange ==
  ASSUME NEW S, NEW t \in Seq(S)
  PROVE  FuncClose(t) \in {-1} \cup (0..(Len(t) - 1))
<1> DEFINE idx == find(t, <<"F">>, 0)
           ob  == find(t, <<"{">>, idx)
<1>0. Len(t) \in Nat
  BY LenProperties
<1>1. idx \in {-1} \cup (0..(Len(t) - Len(<<"F">>)))
  BY TokLen, FindRange
<1>2. CASE idx = -1
  BY <1>2 DEF FuncClose
<1> HIDE DEF idx, ob
<1>3. CASE idx # -1
  <2>1. idx \in Nat
    BY <1>0, <1>1, <1>3, TokLen
  <2>2. ob \in {-1} \cup (idx..(Len(t) - Len(<<"{">>)))
    BY <2>1, TokLen, FindRange DEF ob
  <2>3. ob \in Int /\ ob >= -1
    BY <1>0, <2>1, <2>2, TokLen
  <2>4. find_matching_brace(t, ob) \in {-1} \cup ((ob + 1)..(Len(t) - 1))
    BY <2>3, MatchRange
  <2>5. FuncClose(t) = find_matching_brace(t, ob)
    BY <1>3 DEF FuncClose, idx, ob
  <2>6. QED BY <1>0, <2>3, <2>4, <2>5
<1>4. QED BY <1>2, <1>3

\* Patch 2 inserts at an offset of the text.
LEMMA DeclarePosRange ==
  ASSUME NEW S, NEW t \in Seq(S), find(t, <<"A">>, 0) # -1
  PROVE  find(t, <<"\n">>, find(t, <<"A">>, 0)) + 1 \in 0..Len(t)
<1> DEFINE idx == find(t, <<"A">>, 0)
           nl  == find(t, <<"\n">>, idx)
<1>0. Len(t) \in Nat
  BY LenProperties
<1>1. idx \in {-1} \cup (0..(Len(t) - Len(<<"A">>)))
  BY TokLen, FindRange
<1> HIDE DEF idx, nl
<1>2. idx \in Nat
  BY <1>0, <1>1, TokLen DEF idx
<1>3. nl \in {-1} \cup (idx..(Len(t) - Len(<<"\n">>)))
  BY <1>2, TokLen, FindRange DEF nl
<1>4. QED BY <1>0, <1>2, <1>3, TokLen DEF nl, idx

\* text[:p] + s + text[p:] over an alphabet S stays over S.
LEMMA SpliceType ==
  ASSUME NEW S, NEW t \in Seq(S), NEW p \in 0..Len(t), NEW s \in Seq(S)
  PROVE  Splice(t, p, s) \in Seq(S)
<1> DEFINE a == SubSeq(t, 1, p)
           b == SubSeq(t, p + 1, Len(t))
<1>1. a \in Seq(S)
  BY SubSeqProperties
<1>2. b \in Seq(S)
  BY SubSeqProperties
<1> HIDE DEF a, b
<1>3. a \o s \in Seq(S)
  BY <1>1, ConcatProperties, Zenon
<1>4. (a \o s) \o b \in Seq(S)
  BY <1>2, <1>3, ConcatProperties, Zenon
<1>5. Splice(t, p, s) = (a \o s) \o b
  BY DEF Splice, a, b
<1>6. QED BY <1>4, <1>5, Zenon

\* A cut of write_text keeps a prefix of the text over the same alphabet.
LEMMA PrefixType ==
  ASSUME NEW S, NEW t \in Seq(S), NEW n \in 0..Len(t)
  PROVE  SubSeq(t, 1, n) \in Seq(S)
<1>1. \A i \in 1..n : t[i] \in S
  BY ElementOfSeq
<1>2. QED BY <1>1, SubSeqProperties

-----------------------------------------------------------------------------
(***************************************************************************)
(* Each patch keeps the text over any alphabet that holds the tokens it   *)
(* inserts: the brace and newline offsets it computes lie in the text     *)
(* (the lemmas above), so the insertion is a splice.                       *)
(***************************************************************************)
\* Short literals are sequences over any alphabet holding their tokens.
LEMMA Seq1 ==
  ASSUME NEW S, NEW a \in S
  PROVE  <<a>> \in Seq(S)
OBVIOUS

LEMMA Seq2 ==
  ASSUME NEW S, NEW a \in S, NEW b \in S
  PROVE  <<a, b>> \in Seq(S)
OBVIOUS

LEMMA Seq8 ==
  ASSUME NEW S, NEW a1 \in S, NEW a2 \in S, NEW a3 \in S, NEW a4 \in S,
         NEW a5 \in S, NEW a6 \in S, NEW a7 \in S, NEW a8 \in S
  PROVE  <<a1, a2, a3, a4, a5, a6, a7, a8>> \in Seq(S)
OBVIOUS

(* The literals of the three patches, over an alphabet holding their      *)
(* tokens.  (The string "{" is out of the SMT backend's reach, so the     *)
(* token facts are left to Zenon.)                                         *)
LEMMA LiteralsType ==
  ASSUME NEW S, {"E", "D", "I", "\n", "{", "}"} \subseteq S, NEW v, Alloc(v) \in S
  PROVE  /\ ENTRY_TO_ADD \in Seq(S)
         /\ DECLARE_LINE \in Seq(S)
         /\ <<"\n", "\n">> \o build_function(v) \o <<"\n">> \in Seq(S)
<1>1. ENTRY_TO_ADD \in Seq(S) /\ DECLARE_LINE \in Seq(S)
  BY Seq2, Zenon DEF ENTRY_TO_ADD, DECLARE_LINE
<1>2. build_function(v) \in Seq(S)
  BY Seq8, Zenon DEF build_function
<1>3. <<"\n", "\n">> \in Seq(S) /\ <<"\n">> \in Seq(S)
  <2>1. "\n" \in S
    BY Zenon
  <2>2. QED BY <2>1, Seq1, Seq2, Zenon
<1> HIDE DEF build_function
<1>4. <<"\n", "\n">> \o build_function(v) \in Seq(S)
  BY <1>2, <1>3, ConcatProperties
<1>5. QED BY <1>1, <1>3, <1>4, ConcatProperties

LEMMA Patch1Text ==
  ASSUME NEW S, text \in Seq(S), ENTRY_TO_ADD \in Seq(S), Patch1
  PROVE  text' \in Seq(S)
<1>1. CASE UNCHANGED text
  BY <1>1
<1>2. CASE ~UNCHANGED text
  <2>1. EntriesClose(text) # -1 /\ text' = Splice(text, EntriesClose(text), ENTRY_TO_ADD)
    BY <1>2 DEF Patch1
  <2>2. EntriesClose(text) \in 0..Len(text)
    BY <2>1, EntriesCloseRange
  <2>3. QED BY <2>1, <2>2, SpliceType
<1>3. QED BY <1>1, <1>2

LEMMA Patch2Text ==
  ASSUME NEW S, text \in Seq(S), DECLARE_LINE \in Seq(S), Patch2
  PROVE  text' \in Seq(S)
<1>1. CASE UNCHANGED text
  BY <1>1
<1>2. CASE ~UNCHANGED text
  <2> DEFINE p == find(text, <<"\n">>, find(text, <<"A">>, 0)) + 1
  <2>1. find(text, <<"A">>, 0) # -1 /\ text' = Splice(text, p, DECLARE_LINE)
    BY <1>2 DEF Patch2
  <2>2. p \in 0..Len(text)
    BY <2>1, DeclarePosRange
  <2> HIDE DEF p
  <2>3. QED BY <2>1, <2>2, SpliceType
<1>3. QED BY <1>1, <1>2

LEMMA Patch3Text ==
  ASSUME NEW S, text \in Seq(S),
         <<"\n", "\n">> \o build_function(variant) \o <<"\n">> \in Seq(S), Patch3
  PROVE  text' \in Seq(S)
<1>1. CASE UNCHANGED text
  BY <1>1
<1>2. CASE ~UNCHANGED text
  <2> DEFINE lit == <<"\n", "\n">> \o build_function(variant) \o <<"\n">>
  <2>1. FuncClose(text) # -1 /\ text' = Splice(text, FuncClose(text) + 1, lit)
    BY <1>2 DEF Patch3
  <2>2. FuncClose(text) + 1 \in 0..Len(text)
    BY <2>1, FuncCloseRange
  <2>3. lit \in Seq(S)
    OBVIOUS
  <2> HIDE DEF lit
  <2>4. QED BY <2>1, <2>2, <2>3, SpliceType
<1>3. QED BY <1>1, <1>2

-----------------------------------------------------------------------------
(***************************************************************************)
(* The inductive invariant.  VariantMatches is not inductive: a run that  *)
(* is between Start and Write carries, in text and variant, what it will  *)
(* write, and the invariant must say that this too calls no allocator    *)
(* foreign to the original file.  Allowed is the alphabet of C text that  *)
(* calls only allocators of the original file.  It does not change: the  *)
(* file before the first run is a history variable.                       *)
(***************************************************************************)
Allowed == Toks \ ({"N1", "N2"} \ Range(original))

VInv ==
  /\ file \in Seq(Allowed)
  /\ pc # "idle" => text \in Seq(Allowed) /\ Alloc(variant) \in Allowed

IInv == TypeOK /\ VInv

\* The tokens the patches insert, and both allocators, are C tokens.
LEMMA ToksFacts ==
  {"E", "D", "I", "\n", "{", "}", "N1", "N2"} \subseteq Toks
BY Zenon DEF Toks

\* The patches' own tokens call no allocator, so they are always allowed.
LEMMA AllowedFacts ==
  {"E", "D", "I", "\n", "{", "}"} \subseteq Allowed
BY ToksFacts, Zenon DEF Allowed

\* Both variants' allocators are C tokens.
LEMMA AllocType ==
  ASSUME NEW v \in {1, 2}
  PROVE  Alloc(v) \in Toks
BY ToksFacts, Zenon DEF Alloc

\* A sequence whose elements lie in T is a sequence over T.
LEMMA SeqNarrow ==
  ASSUME NEW S, NEW T, NEW s \in Seq(S), \A i \in 1..Len(s) : s[i] \in T
  PROVE  s \in Seq(T)
OBVIOUS

\* The values of a sequence over S lie in S.
LEMMA RangeSeq ==
  ASSUME NEW S, NEW s \in Seq(S)
  PROVE  Range(s) \subseteq S
BY DEF Range

LEMMA InitIInv == Init => IInv
<1> SUFFICES ASSUME Init PROVE IInv
  OBVIOUS
<1>1. file \in Seq(Toks) /\ original = file
  BY InputsAssumption DEF Init
<1>2. TypeOK
  <2>1. <<>> \in Seq(Toks)
    OBVIOUS
  <2>2. written \in BOOLEAN
    BY Zenon DEF Init
  <2>3. QED BY <1>1, <2>1, <2>2, MaxRunsAssumption DEF Init, TypeOK
<1>3. \A i \in 1..Len(file) : file[i] \in Allowed
  <2> TAKE i \in 1..Len(file)
  <2>1. file[i] \in Toks
    BY <1>1, ElementOfSeq
  <2>2. file[i] \in Range(original)
    BY <1>1 DEF Range
  <2>3. QED BY <2>1, <2>2 DEF Allowed
<1>4. file \in Seq(Allowed)
  BY <1>1, <1>3, SeqNarrow
<1>5. QED BY <1>2, <1>4 DEF Init, IInv, VInv

\* The patches keep the text a C text; the variant is 1 or 2.
LEMMA PatchesTypeOK ==
  ASSUME TypeOK, Patch1 \/ Patch2 \/ Patch3
  PROVE  text' \in Seq(Toks)
<1>1. ENTRY_TO_ADD \in Seq(Toks) /\ DECLARE_LINE \in Seq(Toks)
      /\ <<"\n", "\n">> \o build_function(variant) \o <<"\n">> \in Seq(Toks)
  <2>1. Alloc(variant) \in Toks
    BY AllocType DEF TypeOK
  <2>2. {"E", "D", "I", "\n", "{", "}"} \subseteq Toks
    BY ToksFacts, Zenon
  <2>3. QED BY <2>1, <2>2, LiteralsType
<1>2. text \in Seq(Toks)
  BY DEF TypeOK
<1>3. QED BY <1>1, <1>2, Patch1Text, Patch2Text, Patch3Text

LEMMA NextTypeOK == TypeOK /\ [Next]_vars => TypeOK'
<1> SUFFICES ASSUME TypeOK, [Next]_vars PROVE TypeOK'
  OBVIOUS
<1> USE DEF TypeOK
<1>1. CASE Start
  <2>1. text' \in Seq(Toks) /\ variant' \in {1, 2} /\ runs' \in 0..MaxRuns
        /\ pc' \in {"idle", "p1"}
    BY <1>1, MaxRunsAssumption DEF Start
  <2>2. written' \in BOOLEAN
    BY <1>1, Zenon DEF Start
  <2>3. QED BY <1>1, <2>1, <2>2 DEF Start
<1>2. CASE Patch1 \/ Patch2 \/ Patch3
  <2>1. text' \in Seq(Toks)
    BY <1>2, PatchesTypeOK
  <2>2. written' \in BOOLEAN
    BY <1>2, Zenon DEF Patch1, Patch2, Patch3
  <2>3. QED BY <1>2, <2>1, <2>2 DEF Patch1, Patch2, Patch3
<1>3. CASE Patch1Die \/ Patch2Die \/ Patch3Die
  <2>1. written' \in BOOLEAN
    BY <1>3, Zenon DEF Patch1Die, Patch2Die, Patch3Die, Die
  <2>2. QED BY <1>3, <2>1 DEF Patch1Die, Patch2Die, Patch3Die, Die
<1>4. CASE Write
  <2>1. written' \in BOOLEAN
    BY <1>4, Zenon DEF Write
  <2>2. QED BY <1>4, <2>1 DEF Write
<1>5. CASE TornWrite
  <2>1. PICK n \in 0..(Len(text) - 1) : file' = SubSeq(text, 1, n)
    BY <1>5 DEF TornWrite
  <2>2. file' \in Seq(Toks)
    BY <2>1, PrefixType
  <2>3. written' \in BOOLEAN
    BY <1>5, Zenon DEF TornWrite
  <2>4. QED BY <1>5, <2>2, <2>3 DEF TornWrite
<1>6. CASE UNCHANGED vars
  <2>1. written' \in BOOLEAN
    BY <1>6, Zenon DEF vars
  <2>2. QED BY <1>6, <2>1 DEF vars
<1>7. QED BY <1>1, <1>2, <1>3, <1>4, <1>5, <1>6 DEF Next

\* A patch of a run in progress keeps its text over Allowed.
LEMMA PatchesVInv ==
  ASSUME IInv, Patch1 \/ Patch2 \/ Patch3
  PROVE  VInv'
<1>1. pc # "idle"
  BY DEF Patch1, Patch2, Patch3
<1>2. text \in Seq(Allowed) /\ Alloc(variant) \in Allowed
  BY <1>1 DEF IInv, VInv
<1>3. ENTRY_TO_ADD \in Seq(Allowed) /\ DECLARE_LINE \in Seq(Allowed)
      /\ <<"\n", "\n">> \o build_function(variant) \o <<"\n">> \in Seq(Allowed)
  BY <1>2, AllowedFacts, LiteralsType
<1>4. text' \in Seq(Allowed)
  BY <1>2, <1>3, Patch1Text, Patch2Text, Patch3Text
<1>5. UNCHANGED <<file, variant, original>> /\ pc' # "idle"
  BY DEF Patch1, Patch2, Patch3
<1>6. QED BY <1>2, <1>4, <1>5 DEF IInv, VInv, Allowed

LEMMA NextVInv == IInv /\ [Next]_vars => VInv'
<1> SUFFICES ASSUME IInv, [Next]_vars PROVE VInv'
  OBVIOUS
<1>0. file \in Seq(Allowed) /\ Range(file) \subseteq Allowed
  BY RangeSeq DEF IInv, VInv
<1>1. CASE Start
  <2>1. UNCHANGED <<file, original>> /\ text' = file
    BY <1>1 DEF Start
  <2>2. pc' # "idle" => Alloc(variant') \in Range(file)
    BY <1>1 DEF Start, Alloc
  <2>3. QED BY <1>0, <2>1, <2>2 DEF VInv, Allowed
<1>2. CASE Patch1 \/ Patch2 \/ Patch3
  BY <1>2, PatchesVInv
<1>3. CASE Patch1Die \/ Patch2Die \/ Patch3Die
  BY <1>0, <1>3 DEF Patch1Die, Patch2Die, Patch3Die, Die, VInv, Allowed
<1>4. CASE Write
  <2>1. text \in Seq(Allowed)
    BY <1>4 DEF Write, IInv, VInv
  <2>2. QED BY <1>4, <2>1 DEF Write, VInv, Allowed
<1>5. CASE TornWrite
  <2>1. text \in Seq(Allowed)
    BY <1>5 DEF TornWrite, IInv, VInv
  <2>2. PICK n \in 0..(Len(text) - 1) : file' = SubSeq(text, 1, n)
    BY <1>5 DEF TornWrite
  <2>3. file' \in Seq(Allowed)
    BY <2>1, <2>2, PrefixType
  <2>4. QED BY <1>5, <2>3 DEF TornWrite, VInv, Allowed
<1>6. CASE UNCHANGED vars
  BY <1>6 DEF vars, IInv, VInv, Allowed
<1>7. QED BY <1>1, <1>2, <1>3, <1>4, <1>5, <1>6 DEF Next

-----------------------------------------------------------------------------
(***************************************************************************)
(* `s in t` for the literals the script tests: a two-token literal occurs *)
(* iff its tokens stand side by side, a one-token literal iff the token   *)
(* occurs.                                                                 *)
(***************************************************************************)
Has2(t, a, b) == \E k \in 1..(Len(t) - 1) : t[k] = a /\ t[k + 1] = b
Has1(t, a) == \E k \in 1..Len(t) : t[k] = a

\* The contiguous pieces of a sequence over S, with their length and tokens.
LEMMA PieceProperties ==
  ASSUME NEW S, NEW t \in Seq(S), NEW i \in 0..Len(t), NEW j \in 0..Len(t)
  PROVE  /\ SubSeq(t, i + 1, j) \in Seq(S)
         /\ Len(SubSeq(t, i + 1, j)) = IF i + 1 <= j THEN j - i ELSE 0
         /\ \A k \in 1..(j - i) : SubSeq(t, i + 1, j)[k] = t[i + k]
<1>1. \A k \in (i + 1)..j : t[k] \in S
  BY ElementOfSeq
<1>2. QED BY <1>1, SubSeqProperties

\* `s in t` unfolded: s is the piece of t between two offsets.
LEMMA InIff ==
  ASSUME NEW S, NEW t \in Seq(S), NEW x
  PROVE  In(x, t) <=> \E i \in 0..Len(t), j \in 0..Len(t) : SubSeq(t, i + 1, j) = x
<1> DEFINE D == 0..Len(t)
           F(i, j) == SubSeq(t, i + 1, j)
<1>1. In(x, t) <=> x \in {F(i, j) : i, j \in D}
  BY DEF In, SubSeqs
<1> HIDE DEF D, F
<1>2. x \in {F(i, j) : i, j \in D} <=> \E i \in D, j \in D : F(i, j) = x
  OBVIOUS
<1>3. QED BY <1>1, <1>2 DEF D, F

LEMMA InPair ==
  ASSUME NEW S, NEW t \in Seq(S), NEW a, NEW b
  PROVE  In(<<a, b>>, t) <=> Has2(t, a, b)
<1>0. Len(t) \in Nat
  BY LenProperties
<1>1. ASSUME In(<<a, b>>, t) PROVE Has2(t, a, b)
  <2>1. PICK i \in 0..Len(t), j \in 0..Len(t) : SubSeq(t, i + 1, j) = <<a, b>>
    BY <1>1, InIff
  <2> DEFINE X == SubSeq(t, i + 1, j)
  <2>2. /\ Len(X) = IF i + 1 <= j THEN j - i ELSE 0
        /\ \A k \in 1..(j - i) : X[k] = t[i + k]
    BY PieceProperties
  <2> HIDE DEF X
  <2>3. X = <<a, b>>
    BY <2>1 DEF X
  <2>4. j = i + 2
    BY <2>2, <2>3
  <2>5. t[i + 1] = a /\ t[i + 2] = b
    BY <2>2, <2>3, <2>4
  <2>6. QED BY <1>0, <2>4, <2>5 DEF Has2
<1>2. ASSUME Has2(t, a, b) PROVE In(<<a, b>>, t)
  <2>1. PICK k \in 1..(Len(t) - 1) : t[k] = a /\ t[k + 1] = b
    BY <1>2 DEF Has2
  <2>2. a \in S /\ b \in S
    BY <2>1, ElementOfSeq
  <2>3. k - 1 \in 0..Len(t) /\ k + 1 \in 0..Len(t)
    BY <1>0
  <2> DEFINE X == SubSeq(t, (k - 1) + 1, k + 1)
  <2>4. /\ X \in Seq(S)
        /\ Len(X) = IF (k - 1) + 1 <= k + 1 THEN (k + 1) - (k - 1) ELSE 0
        /\ \A m \in 1..((k + 1) - (k - 1)) : X[m] = t[(k - 1) + m]
    BY <2>3, PieceProperties
  <2> HIDE DEF X
  <2>5. Len(X) = 2 /\ X[1] = a /\ X[2] = b
    BY <2>1, <2>4
  <2>6. X = <<a, b>>
    BY <2>2, <2>4, <2>5, SeqEqual
  <2>7. QED BY <2>3, <2>6, InIff DEF X
<1>3. QED BY <1>1, <1>2

LEMMA InSingle ==
  ASSUME NEW S, NEW t \in Seq(S), NEW a
  PROVE  In(<<a>>, t) <=> Has1(t, a)
<1>0. Len(t) \in Nat
  BY LenProperties
<1>1. ASSUME In(<<a>>, t) PROVE Has1(t, a)
  <2>1. PICK i \in 0..Len(t), j \in 0..Len(t) : SubSeq(t, i + 1, j) = <<a>>
    BY <1>1, InIff
  <2> DEFINE X == SubSeq(t, i + 1, j)
  <2>2. /\ Len(X) = IF i + 1 <= j THEN j - i ELSE 0
        /\ \A k \in 1..(j - i) : X[k] = t[i + k]
    BY PieceProperties
  <2> HIDE DEF X
  <2>3. X = <<a>>
    BY <2>1 DEF X
  <2>4. j = i + 1
    BY <2>2, <2>3
  <2>5. t[i + 1] = a
    BY <2>2, <2>3, <2>4
  <2>6. QED BY <1>0, <2>4, <2>5 DEF Has1
<1>2. ASSUME Has1(t, a) PROVE In(<<a>>, t)
  <2>1. PICK k \in 1..Len(t) : t[k] = a
    BY <1>2 DEF Has1
  <2>2. a \in S
    BY <2>1, ElementOfSeq
  <2>3. k - 1 \in 0..Len(t) /\ k \in 0..Len(t)
    BY <1>0
  <2> DEFINE X == SubSeq(t, (k - 1) + 1, k)
  <2>4. /\ X \in Seq(S)
        /\ Len(X) = IF (k - 1) + 1 <= k THEN k - (k - 1) ELSE 0
        /\ \A m \in 1..(k - (k - 1)) : X[m] = t[(k - 1) + m]
    BY <2>3, PieceProperties
  <2> HIDE DEF X
  <2>5. Len(X) = 1 /\ X[1] = a
    <3>1. k \in Int /\ (k - 1) + 1 = k /\ k - (k - 1) = 1
      BY <1>0, <2>1
    <3>2. Len(X) = 1
      BY <2>4, <3>1
    <3>3. X[1] = t[k]
      BY <2>4, <3>1
    <3>4. QED BY <2>1, <3>2, <3>3
  <2>6. X = <<a>>
    BY <2>2, <2>4, <2>5, SeqEqual
  <2>7. QED BY <2>3, <2>6, InIff DEF X
<1>3. QED BY <1>1, <1>2

-----------------------------------------------------------------------------
(* The patcher never indexes outside its text: for any input files, any  *)
(* number of runs and any torn writes, the file and the copy being        *)
(* patched stay C text, since every offset that find and                  *)
(* find_matching_brace return (lines 130-141, 184-224) lies in the text.  *)
THEOREM TypeCorrect == Spec => []TypeOK
<1>1. Init => TypeOK
  BY InitIInv DEF IInv
<1>2. TypeOK /\ [Next]_vars => TypeOK'
  BY NextTypeOK
<1>3. QED BY <1>1, <1>2, PTL DEF Spec

(* detect_variant (lines 144-153) tests "gum_es_asset_new_take" before    *)
(* "gum_es_asset_new", so for any input files, any number of builds and   *)
(* any write cut short, gumquickcore.c never calls an allocator that the  *)
(* file as cloned did not call: the function Patch 3 adds uses the        *)
(* allocator of the file it is added to.                                   *)
THEOREM VariantSound == Spec => []VariantMatches
<1>1. Init => IInv
  BY InitIInv
<1>2. IInv /\ [Next]_vars => IInv'
  BY NextTypeOK, NextVInv DEF IInv
<1>3. IInv => VariantMatches
  <2> SUFFICES ASSUME IInv PROVE VariantMatches
    OBVIOUS
  <2>1. Range(file) \subseteq Allowed
    BY RangeSeq DEF IInv, VInv
  <2>2. QED BY <2>1 DEF VariantMatches, Allowed
<1>4. QED BY <1>1, <1>2, <1>3, PTL DEF Spec

-----------------------------------------------------------------------------
(***************************************************************************)
(* Where the patches insert, and what an insertion keeps.                  *)
(***************************************************************************)
\* text[:p] + s + text[p:], token by token.
LEMMA SpliceIndex ==
  ASSUME NEW S, NEW t \in Seq(S), NEW p \in 0..Len(t), NEW s \in Seq(S)
  PROVE  /\ Len(Splice(t, p, s)) = Len(t) + Len(s)
         /\ \A k \in 1..p : Splice(t, p, s)[k] = t[k]
         /\ \A k \in 1..Len(s) : Splice(t, p, s)[p + k] = s[k]
         /\ \A k \in (p + 1)..Len(t) : Splice(t, p, s)[Len(s) + k] = t[k]
<1> DEFINE a == SubSeq(t, 1, p)
           b == SubSeq(t, p + 1, Len(t))
<1>1. a \in Seq(S) /\ Len(a) = p /\ \A k \in 1..p : a[k] = t[k]
  BY PieceProperties
<1>2. /\ b \in Seq(S) /\ Len(b) = Len(t) - p
      /\ \A k \in 1..(Len(t) - p) : b[k] = t[p + k]
  BY PieceProperties
<1> HIDE DEF a, b
<1>3. Splice(t, p, s) = (a \o s) \o b
  BY DEF Splice, a, b
<1>4. /\ a \o s \in Seq(S) /\ Len(a \o s) = Len(a) + Len(s)
      /\ \A i \in 1..(Len(a) + Len(s)) :
           (a \o s)[i] = IF i <= Len(a) THEN a[i] ELSE s[i - Len(a)]
  BY <1>1, ConcatProperties
<1> DEFINE c == a \o s
<1>5. /\ c \in Seq(S) /\ Len(c) = p + Len(s)
      /\ \A i \in 1..(p + Len(s)) : c[i] = IF i <= p THEN a[i] ELSE s[i - p]
  BY <1>1, <1>4
<1>6. Len(s) \in Nat /\ Splice(t, p, s) = c \o b
  BY <1>3, LenProperties
<1> HIDE DEF c, Splice
<1>7. /\ Len(c \o b) = Len(c) + Len(b)
      /\ \A i \in 1..(Len(c) + Len(b)) :
           (c \o b)[i] = IF i <= Len(c) THEN c[i] ELSE b[i - Len(c)]
  <2>1. c \in Seq(S) /\ b \in Seq(S)
    BY <1>2, <1>5
  <2>2. QED BY <2>1, ConcatProperties
<1>8. \A k \in 1..p : Splice(t, p, s)[k] = t[k]
  BY <1>1, <1>5, <1>6, <1>7
<1>9. \A k \in 1..Len(s) : Splice(t, p, s)[p + k] = s[k]
  BY <1>5, <1>6, <1>7
<1>10. \A k \in (p + 1)..Len(t) : Splice(t, p, s)[Len(s) + k] = t[k]
  <2> TAKE k \in (p + 1)..Len(t)
  <2>1. Splice(t, p, s)[Len(s) + k] = b[k - p]
    BY <1>2, <1>5, <1>6, <1>7
  <2>2. QED BY <1>2, <2>1
<1>11. QED BY <1>2, <1>5, <1>6, <1>7, <1>8, <1>9, <1>10

\* Two adjacent tokens of the inserted literal stand side by side after it.
LEMMA SpliceHas2 ==
  ASSUME NEW S, NEW t \in Seq(S), NEW p \in 0..Len(t), NEW s \in Seq(S),
         NEW m \in 1..(Len(s) - 1), NEW a, NEW b, s[m] = a, s[m + 1] = b
  PROVE  Has2(Splice(t, p, s), a, b)
<1> DEFINE u == Splice(t, p, s)
<1>1. Len(t) \in Nat /\ Len(s) \in Nat
  BY LenProperties
<1>2. /\ Len(u) = Len(t) + Len(s)
      /\ \A k \in 1..p : u[k] = t[k]
      /\ \A k \in 1..Len(s) : u[p + k] = s[k]
      /\ \A k \in (p + 1)..Len(t) : u[Len(s) + k] = t[k]
  BY SpliceIndex, Zenon
<1> HIDE DEF u
<1>3. m \in 1..Len(s) /\ m + 1 \in 1..Len(s)
  BY <1>1
<1>4. u[p + m] = a /\ u[p + (m + 1)] = b
  BY <1>2, <1>3
<1>5. p + m \in 1..(Len(u) - 1) /\ p + m + 1 = p + (m + 1)
  BY <1>1, <1>2
<1>6. QED BY <1>4, <1>5 DEF Has2, u

\* A token of the inserted literal occurs after it.
LEMMA SpliceHas1 ==
  ASSUME NEW S, NEW t \in Seq(S), NEW p \in 0..Len(t), NEW s \in Seq(S),
         NEW m \in 1..Len(s), NEW a, s[m] = a
  PROVE  Has1(Splice(t, p, s), a)
<1> DEFINE u == Splice(t, p, s)
<1>1. Len(t) \in Nat /\ Len(s) \in Nat
  BY LenProperties
<1>2. /\ Len(u) = Len(t) + Len(s)
      /\ \A k \in 1..p : u[k] = t[k]
      /\ \A k \in 1..Len(s) : u[p + k] = s[k]
      /\ \A k \in (p + 1)..Len(t) : u[Len(s) + k] = t[k]
  BY SpliceIndex, Zenon
<1> HIDE DEF u
<1>3. u[p + m] = a
  BY <1>2
<1>4. p + m \in 1..Len(u)
  BY <1>1, <1>2
<1>5. QED BY <1>3, <1>4 DEF Has1, u

\* An insertion keeps a pair of adjacent tokens unless it is made between
\* them, which it cannot be when the token before it is not the first.
LEMMA SpliceKeeps2 ==
  ASSUME NEW S, NEW t \in Seq(S), NEW p \in 0..Len(t), NEW s \in Seq(S),
         NEW a, NEW b, Has2(t, a, b), p = 0 \/ t[p] # a
  PROVE  Has2(Splice(t, p, s), a, b)
<1> DEFINE u == Splice(t, p, s)
<1>1. Len(t) \in Nat /\ Len(s) \in Nat
  BY LenProperties
<1>2. /\ Len(u) = Len(t) + Len(s)
      /\ \A k \in 1..p : u[k] = t[k]
      /\ \A k \in (p + 1)..Len(t) : u[Len(s) + k] = t[k]
  BY SpliceIndex, Zenon
<1> HIDE DEF u
<1>3. PICK k \in 1..(Len(t) - 1) : t[k] = a /\ t[k + 1] = b
  BY DEF Has2
<1>4. CASE k + 1 <= p
  <2>1. k \in 1..(Len(u) - 1) /\ u[k] = a /\ u[k + 1] = b
    BY <1>1, <1>2, <1>3, <1>4
  <2>2. QED BY <2>1 DEF Has2, u
<1>5. CASE k >= p + 1
  <2>1. Len(s) + k \in 1..(Len(u) - 1) /\ u[Len(s) + k] = a /\ u[Len(s) + k + 1] = b
    BY <1>1, <1>2, <1>3, <1>5
  <2>2. QED BY <2>1 DEF Has2, u
<1>6. QED BY <1>1, <1>3, <1>4, <1>5

\* An insertion keeps every token.
LEMMA SpliceKeeps1 ==
  ASSUME NEW S, NEW t \in Seq(S), NEW p \in 0..Len(t), NEW s \in Seq(S),
         NEW a, Has1(t, a)
  PROVE  Has1(Splice(t, p, s), a)
<1> DEFINE u == Splice(t, p, s)
<1>1. Len(t) \in Nat /\ Len(s) \in Nat
  BY LenProperties
<1>2. /\ Len(u) = Len(t) + Len(s)
      /\ \A k \in 1..p : u[k] = t[k]
      /\ \A k \in (p + 1)..Len(t) : u[Len(s) + k] = t[k]
  BY SpliceIndex, Zenon
<1> HIDE DEF u
<1>3. PICK k \in 1..Len(t) : t[k] = a
  BY DEF Has1
<1>4. CASE k <= p
  <2>1. k \in 1..Len(u) /\ u[k] = a
    BY <1>1, <1>2, <1>3, <1>4
  <2>2. QED BY <2>1 DEF Has1, u
<1>5. CASE k >= p + 1
  <2>1. Len(s) + k \in 1..Len(u) /\ u[Len(s) + k] = a
    BY <1>1, <1>2, <1>3, <1>5
  <2>2. QED BY <2>1 DEF Has1, u
<1>6. QED BY <1>1, <1>3, <1>4, <1>5

\* str.find's hit: the searched string stands at the offset it returns.
LEMMA FindHit ==
  ASSUME NEW S, NEW t \in Seq(S), NEW s, Len(s) \in Nat, NEW from \in Nat,
         find(t, s, from) # -1
  PROVE  SubSeq(t, find(t, s, from) + 1, find(t, s, from) + Len(s)) = s
<1> DEFINE R == from..(Len(t) - Len(s))
           P(k) == SubSeq(t, k + 1, k + Len(s)) = s
           C == {k \in R : P(k)}
<1>1. find(t, s, from) = IF C = {} THEN -1 ELSE CHOOSE k \in C : \A c \in C : k <= c
  BY DEF find
<1>2. R \subseteq Nat
  BY LenProperties
<1> HIDE DEF P, R
<1>3. C \subseteq R /\ \A k \in C : P(k)
  BY Zenon
<1> HIDE DEF C
<1>4. C # {} /\ find(t, s, from) = CHOOSE k \in C : \A c \in C : k <= c
  BY <1>1
<1>5. find(t, s, from) \in C
  BY <1>2, <1>3, <1>4, LeastExists
<1>6. QED BY <1>3, <1>5 DEF P

\* Patch 2 inserts at the start of the text or just after a newline.
LEMMA DeclarePosChar ==
  ASSUME NEW S, NEW t \in Seq(S), find(t, <<"A">>, 0) # -1
  PROVE  LET p == find(t, <<"\n">>, find(t, <<"A">>, 0)) + 1
         IN  p = 0 \/ t[p] = "\n"
<1> DEFINE idx == find(t, <<"A">>, 0)
           nl  == find(t, <<"\n">>, idx)
<1>0. Len(t) \in Nat
  BY LenProperties
<1>1. idx \in {-1} \cup (0..(Len(t) - Len(<<"A">>)))
  BY TokLen, FindRange
<1> HIDE DEF idx, nl
<1>2. idx \in Nat
  BY <1>0, <1>1, TokLen DEF idx
<1>3. nl \in {-1} \cup (idx..(Len(t) - Len(<<"\n">>)))
  BY <1>2, TokLen, FindRange DEF nl
<1>4. CASE nl = -1
  BY <1>4 DEF nl, idx
<1>5. CASE nl # -1
  <2>1. nl \in 0..(Len(t) - 1)
    BY <1>0, <1>2, <1>3, <1>5, TokLen
  <2>2. SubSeq(t, nl + 1, nl + Len(<<"\n">>)) = <<"\n">>
    BY <1>2, <1>5, TokLen, FindHit DEF nl
  <2> DEFINE X == SubSeq(t, nl + 1, nl + 1)
  <2>3. Len(X) = 1 /\ X[1] = t[nl + 1]
    <3>1. nl + 1 \in 0..Len(t)
      BY <1>0, <2>1
    <3>2. /\ Len(X) = IF nl + 1 <= nl + 1 THEN (nl + 1) - nl ELSE 0
          /\ \A k \in 1..((nl + 1) - nl) : X[k] = t[nl + k]
      BY <2>1, <3>1, PieceProperties
    <3>3. QED BY <2>1, <3>2
  <2> HIDE DEF X
  <2>4. X = <<"\n">>
    BY <2>2, TokLen DEF X
  <2>5. t[nl + 1] = "\n"
    BY <2>3, <2>4
  <2>6. QED BY <2>5 DEF nl, idx
<1>6. QED BY <1>4, <1>5

\* find_matching_brace's hit is the offset of a closing brace.  (The brace
\* literal is kept from the SMT backend: Zenon does these steps.)
LEMMA BraceHit ==
  ASSUME NEW S, NEW t \in Seq(S), NEW o \in Int, o >= -1,
         find_matching_brace(t, o) # -1
  PROVE  t[find_matching_brace(t, o) + 1] = "}"
<1> DEFINE R == (o + 1)..(Len(t) - 1)
           P(j) == t[j + 1] = "}" /\ ScanDepth(t, o, j) = 0
           C == {j \in R : P(j)}
<1>1. find_matching_brace(t, o) = IF C = {} THEN -1 ELSE CHOOSE j \in C : \A c \in C : j <= c
  BY DEF find_matching_brace
<1>2. R \subseteq Nat
  BY LenProperties
<1> HIDE DEF P, R
<1>3. C \subseteq R /\ \A j \in C : P(j)
  BY Zenon
<1> HIDE DEF C
<1>4. C # {} /\ find_matching_brace(t, o) = CHOOSE j \in C : \A c \in C : j <= c
  BY <1>1
<1>5. find_matching_brace(t, o) \in C
  BY <1>2, <1>3, <1>4, LeastExists
<1>6. P(find_matching_brace(t, o))
  BY <1>3, <1>5, Zenon
<1>7. QED BY <1>6, Zenon DEF P

\* Patch 3 inserts just after a closing brace.
LEMMA FuncCloseChar ==
  ASSUME NEW S, NEW t \in Seq(S), FuncClose(t) # -1
  PROVE  /\ FuncClose(t) + 1 \in 1..Len(t)
         /\ t[FuncClose(t) + 1] = "}"
<1> DEFINE idx == find(t, <<"F">>, 0)
           ob  == find(t, <<"{">>, idx)
<1>0. Len(t) \in Nat
  BY LenProperties
<1>1. idx \in {-1} \cup (0..(Len(t) - Len(<<"F">>)))
  BY TokLen, FindRange
<1>2. idx # -1
  BY DEF FuncClose
<1> HIDE DEF idx, ob
<1>3. idx \in Nat
  BY <1>0, <1>1, <1>2, TokLen
<1>4. ob \in {-1} \cup (idx..(Len(t) - Len(<<"{">>)))
  BY <1>3, TokLen, FindRange DEF ob
<1>5. ob \in Int /\ ob >= -1
  BY <1>0, <1>3, <1>4, TokLen
<1>6. FuncClose(t) = find_matching_brace(t, ob)
  BY <1>2 DEF FuncClose, idx, ob
<1>7. FuncClose(t) + 1 \in 1..Len(t)
  BY <1>0, <1>6, FuncCloseRange
<1>8. t[find_matching_brace(t, ob) + 1] = "}"
  BY <1>5, <1>6, BraceHit
<1>9. QED BY <1>6, <1>7, <1>8, Zenon

\* A token of a body framed by newlines is a token of the frame.
LEMMA FramedHas1 ==
  ASSUME NEW S, NEW nl \in S, NEW bf \in Seq(S), NEW m \in 1..Len(bf), NEW a, bf[m] = a
  PROVE  /\ <<nl, nl>> \o bf \o <<nl>> \in Seq(S)
         /\ Has1(<<nl, nl>> \o bf \o <<nl>>, a)
<1> DEFINE A == <<nl, nl>> \o bf
<1>1. /\ A \in Seq(S) /\ Len(A) = 2 + Len(bf)
      /\ \A i \in 1..(2 + Len(bf)) : A[i] = IF i <= 2 THEN nl ELSE bf[i - 2]
  BY ConcatProperties
<1> HIDE DEF A
<1>2. /\ A \o <<nl>> \in Seq(S) /\ Len(A \o <<nl>>) = Len(A) + 1
      /\ \A i \in 1..(Len(A) + 1) : (A \o <<nl>>)[i] = IF i <= Len(A) THEN A[i] ELSE nl
  BY <1>1, ConcatProperties
<1>3. Len(bf) \in Nat
  BY LenProperties
<1>4. 2 + m \in 1..Len(A \o <<nl>>) /\ (A \o <<nl>>)[2 + m] = a
  BY <1>1, <1>2, <1>3
<1>5. QED BY <1>2, <1>4 DEF Has1, A

\* The function's header is its first token of eight.
LEMMA OneToEight == 1 \in 1..8
OBVIOUS

\* The function Patch 3 inserts holds its header token.
LEMMA LitHasI ==
  ASSUME NEW S, {"I", "\n", "{", "}"} \subseteq S, NEW v, Alloc(v) \in S
  PROVE  /\ <<"\n", "\n">> \o build_function(v) \o <<"\n">> \in Seq(S)
         /\ Has1(<<"\n", "\n">> \o build_function(v) \o <<"\n">>, "I")
<1>1. build_function(v) \in Seq(S)
  BY Seq8, Zenon DEF build_function
<1>2. Len(build_function(v)) = 8 /\ build_function(v)[1] = "I"
  BY Zenon DEF build_function
<1>3. "\n" \in S
  BY Zenon
<1>4. 1 \in 1..Len(build_function(v))
  BY <1>2, OneToEight, Zenon
<1> HIDE DEF build_function
<1>5. QED BY <1>1, <1>2, <1>3, <1>4, FramedHas1, Zenon

\* A token of the inserted literal occurs after the insertion.
LEMMA SpliceContains1 ==
  ASSUME NEW S, NEW t \in Seq(S), NEW p \in 0..Len(t), NEW s \in Seq(S),
         NEW a, Has1(s, a)
  PROVE  Has1(Splice(t, p, s), a)
<1>1. PICK m \in 1..Len(s) : s[m] = a
  BY DEF Has1
<1>2. QED BY <1>1, SpliceHas1

-----------------------------------------------------------------------------
(***************************************************************************)
(* Idempotence.  PatchIdempotent is not inductive: it says nothing of the *)
(* run in progress.  Once some run has written the file, the file holds   *)
(* all three literals, and a later run's copy stays equal to the file     *)
(* since each patch finds its literal and skips.  Before that, a run's    *)
(* copy holds the literals of the patches it has passed: a later patch   *)
(* never splits an earlier literal, since Patch 2 inserts after a newline *)
(* or at the start and Patch 3 after a closing brace.                      *)
(***************************************************************************)
Lits(t) == Has2(t, "E", "\n") /\ Has2(t, "D", "\n") /\ Has1(t, "I")

PInv ==
  /\ written => file = firstWrite /\ Lits(file)
  /\ written /\ pc # "idle" => text = file
  /\ pc \in {"p2", "p3", "write"} => Has2(text, "E", "\n")
  /\ pc \in {"p3", "write"} => Has2(text, "D", "\n")
  /\ pc = "write" => Has1(text, "I")

DInv == TypeOK /\ PInv

\* The three tests of lines 181, 202 and 215 in terms of tokens.
LEMMA LitsIn ==
  ASSUME NEW S, NEW t \in Seq(S)
  PROVE  /\ In(ENTRY_TO_ADD, t) <=> Has2(t, "E", "\n")
         /\ In(DECLARE_LINE, t) <=> Has2(t, "D", "\n")
         /\ In(<<"I">>, t) <=> Has1(t, "I")
BY InPair, InSingle DEF ENTRY_TO_ADD, DECLARE_LINE

\* Patch 1 leaves the entry in the copy; after a write it skips.
LEMMA Patch1PInv ==
  ASSUME DInv, Patch1
  PROVE  PInv'
<1>0. text \in Seq(Toks) /\ pc = "p1" /\ pc' = "p2"
      /\ UNCHANGED <<file, written, firstWrite>>
  BY DEF DInv, TypeOK, Patch1
<1>1. ENTRY_TO_ADD \in Seq(Toks)
  BY ToksFacts, Seq2, Zenon DEF ENTRY_TO_ADD
<1>2. CASE In(ENTRY_TO_ADD, text) /\ UNCHANGED text
  <2>1. Has2(text', "E", "\n")
    BY <1>0, <1>2, LitsIn
  <2>2. QED BY <1>0, <1>2, <2>1 DEF DInv, PInv
<1>3. CASE ~In(ENTRY_TO_ADD, text) /\ EntriesClose(text) # -1
           /\ text' = Splice(text, EntriesClose(text), ENTRY_TO_ADD)
  <2>1. EntriesClose(text) \in 0..Len(text)
    BY <1>0, <1>3, EntriesCloseRange
  <2>2. ENTRY_TO_ADD[1] = "E" /\ ENTRY_TO_ADD[1 + 1] = "\n"
        /\ 1 \in 1..(Len(ENTRY_TO_ADD) - 1)
    BY DEF ENTRY_TO_ADD
  <2>3. Has2(Splice(text, EntriesClose(text), ENTRY_TO_ADD), "E", "\n")
    BY <1>0, <1>1, <2>1, <2>2, SpliceHas2
  <2>4. Has2(text', "E", "\n")
    BY <1>3, <2>3
  <2>5. ~written
    BY <1>0, <1>3, LitsIn DEF DInv, PInv, Lits
  <2>6. QED BY <1>0, <2>4, <2>5 DEF PInv
<1>4. QED BY <1>2, <1>3 DEF Patch1

\* Patch 2 keeps the entry and leaves the declaration in the copy.
LEMMA Patch2PInv ==
  ASSUME DInv, Patch2
  PROVE  PInv'
<1>0. text \in Seq(Toks) /\ pc = "p2" /\ pc' = "p3"
      /\ UNCHANGED <<file, written, firstWrite>>
  BY DEF DInv, TypeOK, Patch2
<1>1. DECLARE_LINE \in Seq(Toks)
  BY ToksFacts, Seq2, Zenon DEF DECLARE_LINE
<1>2. Has2(text, "E", "\n")
  BY <1>0 DEF DInv, PInv
<1>3. CASE In(DECLARE_LINE, text) /\ UNCHANGED text
  <2>1. Has2(text', "D", "\n")
    BY <1>0, <1>3, LitsIn
  <2>2. QED BY <1>0, <1>2, <1>3, <2>1 DEF DInv, PInv
<1>4. CASE ~In(DECLARE_LINE, text) /\ find(text, <<"A">>, 0) # -1
           /\ text' = Splice(text, find(text, <<"\n">>, find(text, <<"A">>, 0)) + 1,
                             DECLARE_LINE)
  <2> DEFINE p == find(text, <<"\n">>, find(text, <<"A">>, 0)) + 1
  <2>1. p \in 0..Len(text) /\ (p = 0 \/ text[p] = "\n")
    BY <1>0, <1>4, DeclarePosRange, DeclarePosChar
  <2> HIDE DEF p
  <2>2. Has2(text', "E", "\n")
    <3>1. p = 0 \/ text[p] # "E"
      BY <2>1
    <3>2. Has2(Splice(text, p, DECLARE_LINE), "E", "\n")
      BY <1>0, <1>1, <1>2, <2>1, <3>1, SpliceKeeps2
    <3>3. QED BY <1>4, <3>2 DEF p
  <2>3. Has2(text', "D", "\n")
    <3>1. DECLARE_LINE[1] = "D" /\ DECLARE_LINE[1 + 1] = "\n"
          /\ 1 \in 1..(Len(DECLARE_LINE) - 1)
      BY DEF DECLARE_LINE
    <3>2. Has2(Splice(text, p, DECLARE_LINE), "D", "\n")
      BY <1>0, <1>1, <2>1, <3>1, SpliceHas2
    <3>3. QED BY <1>4, <3>2 DEF p
  <2>4. ~written
    BY <1>0, <1>4, LitsIn DEF DInv, PInv, Lits
  <2>5. QED BY <1>0, <2>2, <2>3, <2>4 DEF PInv
<1>5. QED BY <1>3, <1>4 DEF Patch2

\* Patch 3 keeps the entry and the declaration and leaves the function.
LEMMA Patch3PInv ==
  ASSUME DInv, Patch3
  PROVE  PInv'
<1>0. text \in Seq(Toks) /\ variant \in {1, 2} /\ pc = "p3" /\ pc' = "write"
      /\ UNCHANGED <<file, written, firstWrite>>
  BY DEF DInv, TypeOK, Patch3
<1>1. Has2(text, "E", "\n") /\ Has2(text, "D", "\n")
  BY <1>0 DEF DInv, PInv
<1> DEFINE lit == <<"\n", "\n">> \o build_function(variant) \o <<"\n">>
<1>2. lit \in Seq(Toks) /\ Has1(lit, "I")
  <2>1. Alloc(variant) \in Toks
    BY <1>0, AllocType
  <2>2. {"I", "\n", "{", "}"} \subseteq Toks
    BY ToksFacts, Zenon
  <2>3. QED BY <2>1, <2>2, LitHasI, Zenon
<1> HIDE DEF lit
<1>3. CASE In(<<"I">>, text) /\ UNCHANGED text
  <2>1. Has1(text', "I")
    BY <1>0, <1>3, LitsIn
  <2>2. QED BY <1>0, <1>1, <1>3, <2>1 DEF DInv, PInv
<1>4. CASE ~In(<<"I">>, text) /\ FuncClose(text) # -1
           /\ text' = Splice(text, FuncClose(text) + 1, lit)
  <2> DEFINE p == FuncClose(text) + 1
  <2>1. p \in 0..Len(text)
    BY <1>0, <1>4, FuncCloseRange
  <2>2. text[p] # "E" /\ text[p] # "D"
    BY <1>0, <1>4, FuncCloseChar, Zenon
  <2> HIDE DEF p
  <2>3. Has2(Splice(text, p, lit), "E", "\n") /\ Has2(Splice(text, p, lit), "D", "\n")
    BY <1>0, <1>1, <1>2, <2>1, <2>2, SpliceKeeps2
  <2>4. Has1(Splice(text, p, lit), "I")
    BY <1>0, <1>2, <2>1, SpliceContains1
  <2>5. ~written
    BY <1>0, <1>4, LitsIn DEF DInv, PInv, Lits
  <2>6. QED BY <1>0, <1>4, <2>3, <2>4, <2>5 DEF PInv, p
<1>5. QED BY <1>3, <1>4 DEF Patch3, lit

\* With write_text never cut short, every step keeps PInv.
LEMMA NextPInv ==
  ASSUME ~Tears, DInv, [Next]_vars
  PROVE  PInv'
<1>1. CASE Start
  BY <1>1 DEF Start, DInv, PInv
<1>2. CASE Patch1 \/ Patch2 \/ Patch3
  BY <1>2, Patch1PInv, Patch2PInv, Patch3PInv
<1>3. CASE Patch1Die \/ Patch2Die \/ Patch3Die
  BY <1>3 DEF Patch1Die, Patch2Die, Patch3Die, Die, DInv, PInv
<1>4. CASE Write
  <2>1. pc = "write" /\ file' = text /\ written' /\ pc' = "idle"
        /\ firstWrite' = IF written THEN firstWrite ELSE text
    BY <1>4 DEF Write
  <2>2. Lits(text)
    BY <2>1 DEF DInv, PInv, Lits
  <2>3. file' = firstWrite'
    BY <2>1 DEF DInv, PInv
  <2>4. QED BY <2>1, <2>2, <2>3 DEF PInv
<1>5. CASE TornWrite
  BY <1>5 DEF TornWrite
<1>6. CASE UNCHANGED vars
  BY <1>6 DEF vars, DInv, PInv, Lits
<1>7. QED BY <1>1, <1>2, <1>3, <1>4, <1>5, <1>6 DEF Next

(* Spec 4.1 and 5: the builder reruns the script on a kept checkout on     *)
(* every build (frida_builder.py 575-582).  For any input files and any   *)
(* number of builds, as long as write_text (line 232) is never cut short, *)
(* the first write of gumquickcore.c is the last change to it: each later *)
(* run finds the three literals (lines 181, 202, 215) and writes back the *)
(* same text.  A cut write breaks this: it leaves a prefix on disk.     *)
THEOREM Idempotent ==
  ASSUME ~Tears
  PROVE  Spec => []PatchIdempotent
<1>1. Init => DInv
  <2> SUFFICES ASSUME Init PROVE DInv
    OBVIOUS
  <2>1. TypeOK
    BY InitIInv DEF IInv
  <2>2. ~written /\ pc = "idle"
    BY DEF Init
  <2>3. QED BY <2>1, <2>2 DEF DInv, PInv
<1>2. DInv /\ [Next]_vars => DInv'
  BY NextTypeOK, NextPInv DEF DInv
<1>3. DInv => PatchIdempotent
  BY DEF DInv, PInv, PatchIdempotent
<1>4. QED BY <1>1, <1>2, <1>3, PTL DEF Spec
=============================================================================
