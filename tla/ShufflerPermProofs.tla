------------------------- MODULE ShufflerPermProofs -------------------------
(***************************************************************************)
(* Set preservation of the opcode shuffler: for every opcode table, every  *)
(* GROUPS list and every outcome of the random draws, the shuffles, the    *)
(* reorder moves and the block relocations of shuffler.py only move lines. *)
(* A bag is a function from elements to their counts, so the proof counts  *)
(* the occurrences of each line.                                           *)
(***************************************************************************)
EXTENDS ShufflerProofs, FiniteSetTheorems

\* The positions at which x occurs in s, and their number.
Where(s, x) == {i \in 1..Len(s) : s[i] = x}
Cnt(s, x) == Cardinality(Where(s, x))

-----------------------------------------------------------------------------
(***************************************************************************)
(* Counting lemmas.                                                        *)
(***************************************************************************)
\* The positions of x form a finite set.
LEMMA WhereFinite ==
  ASSUME NEW S, NEW s \in Seq(S), NEW x
  PROVE  /\ IsFiniteSet(Where(s, x))
         /\ Cnt(s, x) \in Nat
<1>1. Len(s) \in Nat
  BY LenProperties
<1>2. IsFiniteSet(1..Len(s))
  BY <1>1, FS_Interval
<1>3. Where(s, x) \subseteq 1..Len(s)
  BY DEF Where
<1>4. IsFiniteSet(Where(s, x))
  BY <1>2, <1>3, FS_Subset
<1>5. QED BY <1>4, FS_CardinalityType DEF Cnt

\* Shifting a finite set of positions keeps its size.
LEMMA ShiftCard ==
  ASSUME NEW B \in SUBSET Int, IsFiniteSet(B), NEW n \in Int
  PROVE  /\ IsFiniteSet({i + n : i \in B})
         /\ Cardinality({i + n : i \in B}) = Cardinality(B)
<1> DEFINE B2 == {i + n : i \in B}
           f == [i \in B |-> i + n]
<1>1. f \in Bijection(B, B2)
  BY DEF Bijection, Injection, Surjection, IsInjective
<1>2. ExistsBijection(B, B2)
  BY <1>1 DEF ExistsBijection
<1>3. QED BY <1>2, FS_Bijection

\* Counting is additive over concatenation.
LEMMA CntConcat ==
  ASSUME NEW S, NEW a \in Seq(S), NEW b \in Seq(S), NEW x
  PROVE  Cnt(a \o b, x) = Cnt(a, x) + Cnt(b, x)
<1>0. Len(a) \in Nat /\ Len(b) \in Nat
  BY LenProperties
<1>1. /\ Len(a \o b) = Len(a) + Len(b)
      /\ \A i \in 1..(Len(a) + Len(b)) :
           (a \o b)[i] = IF i <= Len(a) THEN a[i] ELSE b[i - Len(a)]
  BY ConcatProperties
<1> DEFINE A == Where(a, x)
           B == Where(b, x)
           B2 == {i + Len(a) : i \in B}
<1>2. Where(a \o b, x) = A \cup B2
  <2>1. ASSUME NEW i \in Where(a \o b, x) PROVE i \in A \cup B2
    <3>1. i \in 1..(Len(a) + Len(b)) /\ (a \o b)[i] = x
      BY <1>1, <2>1 DEF Where
    <3>2. CASE i <= Len(a)
      BY <1>1, <3>1, <3>2 DEF Where
    <3>3. CASE i > Len(a)
      <4>1. i - Len(a) \in B
        BY <1>0, <1>1, <3>1, <3>3 DEF Where
      <4>2. i = (i - Len(a)) + Len(a)
        BY <1>0, <3>1
      <4>3. QED BY <4>1, <4>2
    <3>4. QED BY <1>0, <3>1, <3>2, <3>3
  <2>2. ASSUME NEW i \in A PROVE i \in Where(a \o b, x)
    BY <1>0, <1>1, <2>2 DEF Where
  <2>3. ASSUME NEW i \in B PROVE i + Len(a) \in Where(a \o b, x)
    BY <1>0, <1>1, <2>3 DEF Where
  <2>4. QED BY <2>1, <2>2, <2>3
<1>3. A \cap B2 = {}
  BY <1>0 DEF Where
<1>4. IsFiniteSet(A) /\ IsFiniteSet(B)
  BY WhereFinite
<1>5. B \subseteq Int
  BY DEF Where
<1> HIDE DEF A, B
<1>6. IsFiniteSet(B2) /\ Cardinality(B2) = Cardinality(B)
  <2>1. Len(a) \in Int
    BY <1>0
  <2>2. QED BY <1>4, <1>5, <2>1, ShiftCard, Zenon DEF B2
<1> HIDE DEF B2
<1>7. Cardinality(A \cup B2) = Cardinality(A) + Cardinality(B2) - Cardinality(A \cap B2)
  BY <1>4, <1>6, FS_Union
<1>8. Cardinality(A \cap B2) = 0
  BY <1>3, FS_EmptySet
<1>9. Cardinality(A) \in Nat /\ Cardinality(B) \in Nat
  BY <1>4, FS_CardinalityType
<1>10. QED BY <1>2, <1>6, <1>7, <1>8, <1>9 DEF Cnt, A, B

\* Counting over a concatenation, stated for every pair of lists.
LEMMA CntConcatAll ==
  ASSUME NEW S, NEW x
  PROVE  \A a, b \in Seq(S) : Cnt(a \o b, x) = Cnt(a, x) + Cnt(b, x)
BY CntConcat

\* A one-line list counts its line once.
LEMMA CntSingle ==
  ASSUME NEW e, NEW x
  PROVE  Cnt(<<e>>, x) = IF e = x THEN 1 ELSE 0
<1>1. CASE e = x
  <2>1. Where(<<e>>, x) = {1}
    BY <1>1 DEF Where
  <2>2. QED BY <2>1, FS_Singleton, <1>1 DEF Cnt
<1>2. CASE e # x
  <2>1. Where(<<e>>, x) = {}
    BY <1>2 DEF Where
  <2>2. QED BY <2>1, FS_EmptySet, <1>2 DEF Cnt
<1>3. QED BY <1>1, <1>2

\* The empty list counts nothing.
LEMMA CntEmpty ==
  ASSUME NEW x
  PROVE  Cnt(<<>>, x) = 0
<1>1. Where(<<>>, x) = {}
  BY DEF Where
<1>2. QED BY <1>1, FS_EmptySet DEF Cnt

\* A list is its prefix up to k followed by the rest.
LEMMA SplitAt ==
  ASSUME NEW S, NEW s \in Seq(S), NEW k \in 0..Len(s)
  PROVE  /\ s = SubSeq(s, 1, k) \o SubSeq(s, k + 1, Len(s))
         /\ SubSeq(s, 1, k) \in Seq(S)
         /\ SubSeq(s, k + 1, Len(s)) \in Seq(S)
<1>1. Len(s) \in Nat
  BY LenProperties
<1>2. \A m \in 1..(Len(s) + 1) : \A kk \in (m - 1)..Len(s) : \A n \in kk..Len(s) :
        SubSeq(s, m, kk) \o SubSeq(s, kk + 1, n) = SubSeq(s, m, n)
  BY ConcatAdjacentSubSeq, Zenon
<1>3. 1 \in 1..(Len(s) + 1) /\ k \in (1 - 1)..Len(s) /\ Len(s) \in k..Len(s)
  BY <1>1
<1>4. SubSeq(s, 1, k) \o SubSeq(s, k + 1, Len(s)) = SubSeq(s, 1, Len(s))
  BY <1>2, <1>3, Zenon
<1>5. SubSeq(s, 1, Len(s)) = s
  BY SubSeqFull
<1>6. \A i \in 1..Len(s) : s[i] \in S
  BY ElementOfSeq
<1>7. SubSeq(s, 1, k) \in Seq(S) /\ SubSeq(s, k + 1, Len(s)) \in Seq(S)
  BY <1>1, <1>6, SubSeqProperties
<1>8. QED BY <1>4, <1>5, <1>7

\* lines[k:k] = m adds the lines of m.
LEMMA CntSpliceAt ==
  ASSUME NEW S, NEW s \in Seq(S), NEW k \in 0..Len(s), NEW m \in Seq(S), NEW x
  PROVE  Cnt(SpliceAt(s, k, m), x) = Cnt(s, x) + Cnt(m, x)
<1> DEFINE a == SubSeq(s, 1, k)
           b == SubSeq(s, k + 1, Len(s))
<1>1. s = a \o b /\ a \in Seq(S) /\ b \in Seq(S)
  BY SplitAt
<1> HIDE DEF a, b
<1>2. SpliceAt(s, k, m) = (a \o m) \o b
  BY DEF SpliceAt, a, b
<1>3. a \o m \in Seq(S)
  BY <1>1, ConcatProperties
<1>4. \A u, v \in Seq(S) : Cnt(u \o v, x) = Cnt(u, x) + Cnt(v, x)
  BY CntConcatAll
<1>5. /\ Cnt((a \o m) \o b, x) = Cnt(a \o m, x) + Cnt(b, x)
      /\ Cnt(a \o m, x) = Cnt(a, x) + Cnt(m, x)
      /\ Cnt(a \o b, x) = Cnt(a, x) + Cnt(b, x)
  BY <1>1, <1>3, <1>4, Zenon
<1>6. Cnt(a, x) \in Nat /\ Cnt(b, x) \in Nat /\ Cnt(m, x) \in Nat
  BY <1>1, WhereFinite
<1>7. QED BY <1>1, <1>2, <1>5, <1>6

\* lines.insert adds its line once.
LEMMA CntInsertAt ==
  ASSUME NEW S, NEW s \in Seq(S), NEW i \in 1..(Len(s) + 1), NEW e \in S, NEW x
  PROVE  Cnt(InsertAt(s, i, e), x) = Cnt(s, x) + (IF e = x THEN 1 ELSE 0)
<1>1. i - 1 \in 0..Len(s) /\ (i - 1) + 1 = i
  BY LenProperties
<1>2. InsertAt(s, i, e) = SpliceAt(s, i - 1, <<e>>)
  BY <1>1 DEF InsertAt, SpliceAt
<1>3. <<e>> \in Seq(S)
  OBVIOUS
<1>4. Cnt(SpliceAt(s, i - 1, <<e>>), x) = Cnt(s, x) + Cnt(<<e>>, x)
  BY <1>1, <1>3, CntSpliceAt
<1>5. QED BY <1>2, <1>4, CntSingle

\* lines.pop removes its line once.
LEMMA CntRemoveAt ==
  ASSUME NEW S, NEW s \in Seq(S), NEW i \in 1..Len(s), NEW x
  PROVE  Cnt(s, x) = Cnt(RemoveAt(s, i), x) + (IF s[i] = x THEN 1 ELSE 0)
<1>0. Len(s) \in Nat
  BY LenProperties
<1> DEFINE a == SubSeq(s, 1, i - 1)
           b == SubSeq(s, i + 1, Len(s))
           c == SubSeq(s, 1, i)
<1>1. c = a \o <<s[i]>>
  BY <1>0, SubSeqRecursiveSecond
<1>2. s = c \o b /\ c \in Seq(S) /\ b \in Seq(S)
  BY <1>0, SplitAt
<1>3. a \in Seq(S) /\ <<s[i]>> \in Seq(S)
  <2>1. \A j \in 1..Len(s) : s[j] \in S
    BY ElementOfSeq
  <2>2. QED BY <1>0, <2>1, SubSeqProperties
<1> HIDE DEF a, b, c
<1>4. \A u, v \in Seq(S) : Cnt(u \o v, x) = Cnt(u, x) + Cnt(v, x)
  BY CntConcatAll
<1>5. /\ Cnt(c \o b, x) = Cnt(c, x) + Cnt(b, x)
      /\ Cnt(a \o <<s[i]>>, x) = Cnt(a, x) + Cnt(<<s[i]>>, x)
      /\ Cnt(a \o b, x) = Cnt(a, x) + Cnt(b, x)
  BY <1>2, <1>3, <1>4, Zenon
<1>6. RemoveAt(s, i) = a \o b
  BY DEF RemoveAt, a, b
<1>7. Cnt(a, x) \in Nat /\ Cnt(b, x) \in Nat
  BY <1>2, <1>3, WhereFinite
<1>8. Cnt(<<s[i]>>, x) = IF s[i] = x THEN 1 ELSE 0
  BY CntSingle
<1>9. Cnt(s, x) = (Cnt(a, x) + Cnt(<<s[i]>>, x)) + Cnt(b, x)
  <2>1. Cnt(s, x) = Cnt(c, x) + Cnt(b, x)
    BY <1>2, <1>5, Zenon
  <2>2. Cnt(c, x) = Cnt(a, x) + Cnt(<<s[i]>>, x)
    BY <1>1, <1>5, Zenon
  <2>3. QED BY <2>1, <2>2, Zenon
<1>10. Cnt(RemoveAt(s, i), x) = Cnt(a, x) + Cnt(b, x)
  BY <1>5, <1>6, Zenon
<1>11. QED BY <1>7, <1>8, <1>9, <1>10

\* Append adds its line once.
LEMMA CntAppend ==
  ASSUME NEW S, NEW s \in Seq(S), NEW e \in S, NEW x
  PROVE  Cnt(Append(s, e), x) = Cnt(s, x) + (IF e = x THEN 1 ELSE 0)
<1>1. Append(s, e) = s \o <<e>> /\ <<e>> \in Seq(S)
  BY AppendIsConcat
<1>2. \A u, v \in Seq(S) : Cnt(u \o v, x) = Cnt(u, x) + Cnt(v, x)
  BY CntConcatAll
<1>3. Cnt(s \o <<e>>, x) = Cnt(s, x) + Cnt(<<e>>, x)
  BY <1>1, <1>2, Zenon
<1>4. QED BY <1>1, <1>3, CntSingle

\* pop keeps the lines in front of the popped one in place.
LEMMA RemoveAtPrefix ==
  ASSUME NEW S, NEW s \in Seq(S), NEW i \in 1..Len(s), NEW k \in 1..(i - 1)
  PROVE  RemoveAt(s, i)[k] = s[k]
<1>0. Len(s) \in Nat
  BY LenProperties
<1> DEFINE a == SubSeq(s, 1, i - 1)
           b == SubSeq(s, i + 1, Len(s))
<1>1. /\ a \in Seq(S) /\ Len(a) = i - 1 /\ \A j \in 1..(i - 1) : a[j] = s[j]
      /\ b \in Seq(S)
  <2>1. \A j \in 1..Len(s) : s[j] \in S
    BY ElementOfSeq
  <2>2. QED BY <1>0, <2>1, SubSeqProperties
<1> HIDE DEF a, b
<1>2. RemoveAt(s, i) = a \o b
  BY DEF RemoveAt, a, b
<1>3. (a \o b)[k] = a[k]
  BY <1>0, <1>1, ConcatProperties
<1>4. QED BY <1>1, <1>2, <1>3

\* Two disjoint finite sets: the size of the union is the sum of the sizes.
LEMMA DisjointUnionCard ==
  ASSUME NEW A, NEW B, IsFiniteSet(A), IsFiniteSet(B), A \cap B = {}
  PROVE  Cardinality(A \cup B) = Cardinality(A) + Cardinality(B)
<1>1. Cardinality(A \cup B) = Cardinality(A) + Cardinality(B) - Cardinality(A \cap B)
  BY FS_Union
<1>2. Cardinality(A \cap B) = 0
  BY FS_EmptySet
<1>3. Cardinality(A) \in Nat /\ Cardinality(B) \in Nat
  BY FS_CardinalityType
<1>4. QED BY <1>1, <1>2, <1>3

\* Writing a bucket back through a permutation of its positions (the
\* random.shuffle of lines 139-145 and 177-181) keeps every count.
LEMMA CntScatter ==
  ASSUME NEW S, NEW s \in Seq(S), NEW P \in SUBSET (1..Len(s)),
         NEW f \in Bijection(P, P), NEW x
  PROVE  Cnt(Scatter(s, f), x) = Cnt(s, x)
<1>0. Len(s) \in Nat /\ IsFiniteSet(1..Len(s))
  BY LenProperties, FS_Interval
<1>1. /\ f \in [P -> P]
      /\ \A i, j \in P : f[i] = f[j] => i = j
      /\ \A c \in P : \E i \in P : f[i] = c
  BY DEF Bijection, Injection, Surjection, IsInjective
<1> DEFINE A == {i \in (1..Len(s)) \ P : s[i] = x}
           B == {i \in P : s[f[i]] = x}
           C == {i \in P : s[i] = x}
<1>2. Where(Scatter(s, f), x) = A \cup B
  <2>1. DOMAIN f = P
    BY <1>1
  <2>2. /\ Len(Scatter(s, f)) = Len(s)
        /\ \A i \in 1..Len(s) : Scatter(s, f)[i] = IF i \in P THEN s[f[i]] ELSE s[i]
    BY <1>0, <2>1 DEF Scatter
  <2>3. QED BY <2>2 DEF Where
<1>3. Where(s, x) = A \cup C
  BY DEF Where
<1>4. A \cap B = {} /\ A \cap C = {}
  OBVIOUS
<1>5. IsFiniteSet(A) /\ IsFiniteSet(B) /\ IsFiniteSet(C)
  BY <1>0, FS_Subset
<1>6. ExistsBijection(B, C)
  <2> DEFINE h == [i \in B |-> f[i]]
  <2>1. h \in [B -> C]
    BY <1>1
  <2>2. \A i, j \in B : h[i] = h[j] => i = j
    BY <1>1
  <2>3. \A c \in C : \E i \in B : h[i] = c
    <3> TAKE c \in C
    <3>1. PICK i \in P : f[i] = c
      BY <1>1
    <3>2. i \in B
      BY <3>1
    <3>3. QED BY <3>1, <3>2
  <2>4. h \in Bijection(B, C)
    BY <2>1, <2>2, <2>3, Zenon DEF Bijection, Injection, Surjection, IsInjective
  <2>5. QED BY <2>4 DEF ExistsBijection
<1> HIDE DEF A, B, C
<1>7. Cardinality(B) = Cardinality(C)
  BY <1>5, <1>6, FS_Bijection
<1>8. Cardinality(A \cup B) = Cardinality(A) + Cardinality(B)
      /\ Cardinality(A \cup C) = Cardinality(A) + Cardinality(C)
  BY <1>4, <1>5, DisjointUnionCard
<1>9. QED BY <1>2, <1>3, <1>7, <1>8 DEF Cnt

\* Equal counts of every line make equal bags.
LEMMA BagFromCnt ==
  ASSUME NEW S, NEW s \in Seq(S), NEW t \in Seq(S),
         \A x : Cnt(s, x) = Cnt(t, x)
  PROVE  ToBag(s) = ToBag(t)
<1>1. ASSUME NEW u \in Seq(S)
      PROVE  /\ Range(u) = {x \in Range(u) : Cnt(u, x) # 0}
             /\ \A x : x \notin Range(u) => Cnt(u, x) = 0
             /\ ToBag(u) = [x \in Range(u) |-> Cnt(u, x)]
  <2>1. ASSUME NEW x PROVE x \in Range(u) <=> Where(u, x) # {}
    BY DEF Range, Where
  <2>2. ASSUME NEW x PROVE Cnt(u, x) = 0 <=> Where(u, x) = {}
    BY WhereFinite, FS_EmptySet DEF Cnt
  <2>3. ToBag(u) = [x \in Range(u) |-> Cnt(u, x)]
    <3>1. DOMAIN u = 1..Len(u)
      OBVIOUS
    <3>2. QED BY <3>1 DEF ToBag, Cnt, Where
  <2>4. QED BY <2>1, <2>2, <2>3
<1>2. Range(s) = Range(t)
  <2>1. ASSUME NEW x PROVE x \in Range(s) <=> x \in Range(t)
    <3>1. x \in Range(s) <=> Cnt(s, x) # 0
      BY <1>1
    <3>2. x \in Range(t) <=> Cnt(t, x) # 0
      BY <1>1
    <3>3. QED BY <3>1, <3>2
  <2>2. QED BY <2>1
<1>3. QED BY <1>1, <1>2

\* The index map of lines 109-118 sends a name to a line that defines it.
LEMMA OpcodeIndexHit ==
  ASSUME NEW ls \in Seq(Line), NEW o \in DOMAIN opcode_index(ls)
  PROVE  extract_opcode(ls[opcode_index(ls)[o] + 1]) = o
<1> DEFINE names == {extract_opcode(ls[i]) : i \in 1..Len(ls)} \ {NoOp}
           pos == {i \in 1..Len(ls) : extract_opcode(ls[i]) = o}
<1>0. Len(ls) \in Nat
  BY LenProperties
<1>1. o \in names
  BY DEF opcode_index
<1>2. pos \in SUBSET (0..Len(ls)) /\ pos # {}
  BY <1>0, <1>1
<1> HIDE DEF pos
<1>3. Max(pos) \in pos
  BY <1>0, <1>2, MaxBounded
<1>4. opcode_index(ls)[o] = Max(pos) - 1
  BY <1>1 DEF opcode_index, pos
<1>5. Max(pos) \in 1..Len(ls) /\ extract_opcode(ls[Max(pos)]) = o
  BY <1>3 DEF pos
<1>6. QED BY <1>4, <1>5

-----------------------------------------------------------------------------
(***************************************************************************)
(* The counting invariant.  While a block is relocated, its lines are in   *)
(* block_lines (moving) and, until they are popped, also still in the      *)
(* table at the indices of block_indices (pending): the count of a line in *)
(* the table and in moving together exceeds its count in the input by the  *)
(* number of pending indices that hold it.  The collection loop adds an    *)
(* index only once, because the names of a block are distinct and the     *)
(* pending indices hold names met earlier in the block.                    *)
(***************************************************************************)
PSet(x) == {j \in pending : lines[j + 1] = x}
PCnt(x) == Cardinality(PSet(x))

CntInv ==
  /\ phase \notin {"relocate", "done"} => \A x : Cnt(lines, x) = Cnt(original, x)
  /\ phase = "relocate" => bi \in 1..Len(G.blocks)
  /\ phase = "relocate" =>
       \A x : Cnt(lines, x) + Cnt(moving, x) = Cnt(original, x) + PCnt(x)
  /\ phase = "relocate" /\ bk <= Len(Blk) =>
       \A j \in pending : extract_opcode(lines[j + 1]) \in {Blk[m] : m \in 1..(bk - 1)}

\* The pending indices that hold x are finitely many.
LEMMA PSetFinite ==
  ASSUME TypeOK, NEW x
  PROVE  IsFiniteSet(PSet(x)) /\ PCnt(x) \in Nat
<1>1. IsFiniteSet(0..(Len(lines) - 1))
  BY FS_Interval
<1>2. PSet(x) \subseteq 0..(Len(lines) - 1)
  BY DEF TypeOK, PSet
<1>3. IsFiniteSet(PSet(x))
  BY <1>1, <1>2, FS_Subset
<1>4. QED BY <1>3, FS_CardinalityType DEF PCnt

LEMMA InitCnt == Init => CntInv
BY DEF Init, CntInv

\* Lines 184-187: block_lines and block_indices start empty.
LEMMA ExtractCnt ==
  ASSUME IInv, CntInv, BlockExtract
  PROVE  CntInv'
<1>1. /\ phase = "blocks" /\ phase' = "relocate" /\ bi \in 1..Len(G.blocks)
      /\ moving' = <<>> /\ pending' = {} /\ bk' = 1
      /\ UNCHANGED <<lines, g, bi, original>>
  BY DEF BlockExtract, IInv, TypeOK
<1>2. ASSUME NEW x
      PROVE  Cnt(lines', x) + Cnt(moving', x) = Cnt(original', x) + PCnt(x)'
  <2>1. Cnt(lines, x) = Cnt(original, x)
    BY <1>1 DEF CntInv
  <2>2. Cnt(moving', x) = 0
    BY <1>1, CntEmpty
  <2>3. PCnt(x)' = 0
    BY <1>1, FS_EmptySet DEF PCnt, PSet
  <2>4. Cnt(lines, x) \in Nat
    BY WhereFinite DEF IInv, TypeOK
  <2>5. QED BY <1>1, <2>1, <2>2, <2>3, <2>4
<1>3. QED BY <1>1, <1>2 DEF CntInv, G

\* The members of a block of GROUPS are distinct (GroupsAssumption).
LEMMA BlkDistinct ==
  ASSUME TypeOK, bi \in 1..Len(G.blocks),
         NEW m \in 1..Len(Blk), NEW n \in 1..Len(Blk), Blk[m] = Blk[n]
  PROVE  m = n
<1>1. G \in Group
  BY GroupType
<1>2. Blk \in ToSet(G.blocks)
  BY <1>1 DEF Blk, ToSet, Group
<1>3. \A b \in ToSet(G.blocks) : \A i, j \in 1..Len(b) : b[i] = b[j] => i = j
  BY GroupsAssumption DEF TypeOK, G
<1> HIDE DEF Blk
<1>4. QED BY <1>2, <1>3

\* Lines 188-192: one iteration of the collection loop.
LEMMA CollectCnt ==
  ASSUME IInv, CntInv, BlockCollect
  PROVE  CntInv'
<1> DEFINE idx == opcode_index(lines)
           op  == Blk[bk]
<1>0. /\ TypeOK /\ phase = "relocate" /\ bk <= Len(Blk) /\ bk \in Nat \ {0}
      /\ bi \in 1..Len(G.blocks)
      /\ UNCHANGED <<lines, phase, g, bi, original>> /\ bk' = bk + 1
  BY DEF BlockCollect, IInv, TypeOK, CntInv
<1>0a. Blk' = Blk /\ G' = G
  BY <1>0 DEF Blk, G
<1>0b. lines \in Seq(Line) /\ moving \in Seq(Line)
  BY <1>0 DEF TypeOK
<1>0c. \A j \in pending : extract_opcode(lines[j + 1]) \in {Blk[m] : m \in 1..(bk - 1)}
  BY <1>0 DEF CntInv
<1>1. CASE op \in DOMAIN idx
  <2> DEFINE j0 == idx[op]
             e  == lines[j0 + 1]
  <2>1. moving' = Append(moving, e) /\ pending' = pending \cup {j0}
    BY <1>0, <1>1 DEF BlockCollect
  <2>2. j0 \in 0..(Len(lines) - 1) /\ e \in Line
    BY <1>0b, <1>1, OpcodeIndexType, ElementOfSeq
  <2>3. extract_opcode(e) = op
    BY <1>0b, <1>1, OpcodeIndexHit
  <2>4. j0 \notin pending
    <3>1. SUFFICES ASSUME j0 \in pending PROVE FALSE
      OBVIOUS
    <3>2. PICK m \in 1..(bk - 1) : extract_opcode(e) = Blk[m]
      BY <1>0c, <3>1
    <3>3. m \in 1..Len(Blk) /\ bk \in 1..Len(Blk) /\ Blk[m] = Blk[bk]
      BY <1>0, <2>3, <3>2
    <3>4. m = bk
      BY <1>0, <3>3, BlkDistinct
    <3>5. QED BY <3>2, <3>4
  <2> HIDE DEF idx, op, j0
  <2>5. ASSUME NEW x
        PROVE  Cnt(lines', x) + Cnt(moving', x) = Cnt(original', x) + PCnt(x)'
    <3>1. Cnt(lines, x) + Cnt(moving, x) = Cnt(original, x) + PCnt(x)
      BY <1>0 DEF CntInv
    <3>2. Cnt(moving', x) = Cnt(moving, x) + (IF e = x THEN 1 ELSE 0)
      BY <1>0b, <2>1, <2>2, CntAppend
    <3>3. PSet(x)' = PSet(x) \cup (IF e = x THEN {j0} ELSE {})
      BY <1>0, <2>1 DEF PSet
    <3>4. PCnt(x)' = PCnt(x) + (IF e = x THEN 1 ELSE 0)
      <4>1. IsFiniteSet(PSet(x)) /\ PCnt(x) \in Nat
        BY <1>0, PSetFinite
      <4>2. j0 \notin PSet(x)
        BY <2>4 DEF PSet
      <4>3. CASE e = x
        <5>1. PSet(x)' = PSet(x) \cup {j0}
          BY <3>3, <4>3
        <5>2. QED BY <4>1, <4>2, <4>3, <5>1, FS_AddElement DEF PCnt
      <4>4. CASE e # x
        BY <3>3, <4>1, <4>4 DEF PCnt
      <4>5. QED BY <4>3, <4>4
    <3>5. /\ Cnt(lines, x) \in Nat /\ Cnt(moving, x) \in Nat /\ PCnt(x) \in Nat
          /\ Cnt(original, x) \in Nat
      BY <1>0, <1>0b, WhereFinite, PSetFinite DEF TypeOK
    <3>6. Cnt(lines', x) = Cnt(lines, x) /\ Cnt(original', x) = Cnt(original, x)
      BY <1>0
    <3> HIDE DEF e
    <3>7. QED BY <3>1, <3>2, <3>4, <3>5, <3>6
  <2>6. bk' <= Len(Blk') =>
          \A j \in pending' : extract_opcode(lines'[j + 1]) \in {Blk'[m] : m \in 1..(bk' - 1)}
    BY <1>0, <1>0a, <1>0c, <2>1, <2>3 DEF op
  <2>7. QED BY <1>0, <1>0a, <2>5, <2>6 DEF CntInv
<1>2. CASE op \notin DOMAIN idx
  <2>1. UNCHANGED <<moving, pending>>
    BY <1>0, <1>2 DEF BlockCollect
  <2>2. \A x : PCnt(x)' = PCnt(x)
    BY <1>0, <2>1 DEF PCnt, PSet
  <2>3. \A x : Cnt(lines', x) + Cnt(moving', x) = Cnt(original', x) + PCnt(x)'
    BY <1>0, <2>1, <2>2 DEF CntInv
  <2>4. bk' <= Len(Blk') =>
          \A j \in pending' : extract_opcode(lines'[j + 1]) \in {Blk'[m] : m \in 1..(bk' - 1)}
    BY <1>0, <1>0a, <1>0c, <2>1
  <2>5. QED BY <1>0, <1>0a, <2>3, <2>4 DEF CntInv
<1>3. QED BY <1>1, <1>2

\* Lines 193-194: one pop, from the largest pending index down.  The lines
\* in front of the popped one keep their indices, so every other pending
\* index still names the line it was collected from.
LEMMA PopCnt ==
  ASSUME IInv, CntInv, PopLine
  PROVE  CntInv'
<1>0. /\ TypeOK /\ phase = "relocate" /\ bk > Len(Blk)
      /\ UNCHANGED <<phase, g, bi, bk, moving, original>>
  BY DEF PopLine, IInv
<1>0a. Blk' = Blk /\ G' = G
  BY <1>0 DEF Blk, G
<1>0b. lines \in Seq(Line) /\ moving \in Seq(Line) /\ Len(lines) \in Nat
  BY <1>0, LenProperties DEF TypeOK
<1>1. PICK i \in pending :
        /\ \A j \in pending : j <= i
        /\ lines' = RemoveAt(lines, i + 1)
        /\ pending' = pending \ {i}
  BY DEF PopLine
<1>2. i + 1 \in 1..Len(lines) /\ pending \subseteq 0..(Len(lines) - 1)
  BY <1>0, <1>1 DEF TypeOK
<1>3. ASSUME NEW j \in pending \ {i} PROVE lines'[j + 1] = lines[j + 1]
  <2>1. j + 1 \in 1..((i + 1) - 1)
    BY <1>1, <1>2
  <2>2. QED BY <1>0b, <1>1, <1>2, <2>1, RemoveAtPrefix
<1>4. ASSUME NEW x
      PROVE  Cnt(lines', x) + Cnt(moving', x) = Cnt(original', x) + PCnt(x)'
  <2>1. Cnt(lines, x) + Cnt(moving, x) = Cnt(original, x) + PCnt(x)
    BY <1>0 DEF CntInv
  <2>2. Cnt(lines, x) = Cnt(lines', x) + (IF lines[i + 1] = x THEN 1 ELSE 0)
    BY <1>0b, <1>1, <1>2, CntRemoveAt
  <2>3. PSet(x)' = PSet(x) \ {i}
    BY <1>1, <1>3 DEF PSet
  <2>4. PCnt(x)' = PCnt(x) - (IF lines[i + 1] = x THEN 1 ELSE 0)
    <3>1. IsFiniteSet(PSet(x)) /\ PCnt(x) \in Nat
      BY <1>0, PSetFinite
    <3>2. i \in PSet(x) <=> lines[i + 1] = x
      BY DEF PSet
    <3>3. Cardinality(PSet(x) \ {i}) =
            IF i \in PSet(x) THEN Cardinality(PSet(x)) - 1 ELSE Cardinality(PSet(x))
      BY <3>1, FS_RemoveElement
    <3>4. QED BY <2>3, <3>1, <3>2, <3>3 DEF PCnt
  <2>5. /\ Cnt(lines', x) \in Nat /\ Cnt(moving, x) \in Nat /\ PCnt(x) \in Nat
        /\ Cnt(original, x) \in Nat
    <3>1. lines' \in Seq(Line)
      BY <1>0b, <1>1, <1>2, RemoveAtType
    <3>2. QED BY <1>0, <1>0b, <3>1, WhereFinite, PSetFinite DEF TypeOK
  <2>6. Cnt(moving', x) = Cnt(moving, x) /\ Cnt(original', x) = Cnt(original, x)
    BY <1>0
  <2>7. QED BY <2>1, <2>2, <2>4, <2>5, <2>6
<1>5. ~(bk' <= Len(Blk'))
  <2>1. bk \in Nat /\ Len(Blk) \in Nat
    <3>1. G \in Group
      BY <1>0, GroupType
    <3>2. bi \in 1..Len(G.blocks)
      BY <1>0 DEF CntInv
    <3>3. Blk \in Seq(Ops)
      BY <3>1, <3>2, ElementOfSeq DEF Group, Blk
    <3>4. QED BY <1>0, <3>3, LenProperties DEF TypeOK
  <2>2. QED BY <1>0, <1>0a, <2>1
<1>6. phase' = "relocate" /\ bi' \in 1..Len(G'.blocks)
  BY <1>0, <1>0a DEF CntInv
<1>7. QED BY <1>4, <1>5, <1>6 DEF CntInv

\* Lines 196-206: once every index is popped, the block is spliced back in
\* one piece.
LEMMA InsertCnt ==
  ASSUME IInv, CntInv, BlockInsert
  PROVE  CntInv'
<1>0. /\ TypeOK /\ phase = "relocate" /\ pending = {} /\ phase' = "blocks"
      /\ UNCHANGED original
  BY DEF BlockInsert, IInv
<1>0b. lines \in Seq(Line) /\ moving \in Seq(Line) /\ Len(lines) \in Nat
  BY <1>0, LenProperties DEF TypeOK
<1> DEFINE idx     == opcode_index(lines)
           anchors == {idx[a] + 1 : a \in G.cca \cap DOMAIN idx}
                        \cup {idx[b] : b \in G.ccb \cap DOMAIN idx}
<1>1. PICK k \in IF anchors = {} THEN 0..Len(lines) ELSE anchors :
             lines' = SpliceAt(lines, k, moving)
  BY DEF BlockInsert
<1>2. k \in 0..Len(lines)
  <2>1. \A o \in DOMAIN idx : idx[o] \in 0..Len(lines) - 1
    BY <1>0b, OpcodeIndexType
  <2>2. QED BY <1>1, <1>0b, <2>1
<1>3. ASSUME NEW x PROVE Cnt(lines', x) = Cnt(original', x)
  <2>1. Cnt(lines, x) + Cnt(moving, x) = Cnt(original, x) + PCnt(x)
    BY <1>0 DEF CntInv
  <2>2. PCnt(x) = 0
    BY <1>0, FS_EmptySet DEF PCnt, PSet
  <2>3. Cnt(lines', x) = Cnt(lines, x) + Cnt(moving, x)
    BY <1>0b, <1>1, <1>2, CntSpliceAt
  <2>4. Cnt(lines, x) \in Nat /\ Cnt(moving, x) \in Nat /\ Cnt(original, x) \in Nat
    BY <1>0, <1>0b, WhereFinite DEF TypeOK
  <2>5. QED BY <1>0, <2>1, <2>2, <2>3, <2>4
<1>4. QED BY <1>0, <1>3 DEF CntInv

\* Lines 135-145 and 175-181: a shuffle of a bucket in place.
LEMMA ShuffleCnt ==
  ASSUME IInv, CntInv, FlatShuffle \/ FallbackShuffle
  PROVE  CntInv'
<1>0. /\ lines \in Seq(Line) /\ phase \in {"flat", "reorder"}
      /\ phase' \in {"reorder", "blocks"} /\ UNCHANGED original
  BY DEF FlatShuffle, FallbackShuffle, IInv, TypeOK
<1>1. PICK P \in SUBSET (1..Len(lines)) :
        \E f \in Bijection(P, P) : lines' = Scatter(lines, f)
  <2>1. CASE FlatShuffle
    <3>1. PositionsOf(lines, G.targets) \in SUBSET (1..Len(lines))
      BY DEF PositionsOf
    <3>2. QED BY <2>1, <3>1 DEF FlatShuffle
  <2>2. CASE FallbackShuffle
    <3>1. PositionsOf(lines, pool) \in SUBSET (1..Len(lines))
      BY DEF PositionsOf
    <3>2. QED BY <2>2, <3>1 DEF FallbackShuffle
  <2>3. QED BY <2>1, <2>2
<1>2. PICK f \in Bijection(P, P) : lines' = Scatter(lines, f)
  BY <1>1
<1>3. ASSUME NEW x PROVE Cnt(lines', x) = Cnt(original', x)
  <2>1. Cnt(lines, x) = Cnt(original, x)
    BY <1>0 DEF CntInv
  <2>2. Cnt(lines', x) = Cnt(lines, x)
    BY <1>0, <1>1, <1>2, CntScatter
  <2>3. QED BY <1>0, <2>1, <2>2
<1>4. QED BY <1>0, <1>3 DEF CntInv

\* Lines 155-172: the entry is popped and inserted again.
LEMMA MoveCnt ==
  ASSUME IInv, CntInv, ReorderMove
  PROVE  CntInv'
<1>0. /\ lines \in Seq(Line) /\ Len(lines) \in Nat /\ phase = "reorder"
      /\ UNCHANGED <<phase, original>>
  BY LenProperties DEF ReorderMove, IInv, TypeOK
<1> DEFINE idx     == opcode_index(lines)
           op      == G.reorder[ri]
           cur     == idx[op]
           rest    == RemoveAt(lines, cur + 1)
           anchors == {idx[a] : a \in G.cca \cap DOMAIN idx}
                        \cup {idx[b] - 1 : b \in G.ccb \cap DOMAIN idx}
<1>1. op \in DOMAIN idx
  BY DEF ReorderMove
<1>2. \A o \in DOMAIN idx : idx[o] \in 0..Len(lines) - 1
  BY <1>0, OpcodeIndexType
<1>3. cur + 1 \in 1..Len(lines)
  BY <1>0, <1>1, <1>2
<1>4. rest \in Seq(Line) /\ Len(rest) = Len(lines) - 1 /\ lines[cur + 1] \in Line
  BY <1>0, <1>3, RemoveAtType, ElementOfSeq
<1>5. PICK c \in IF anchors = {} THEN {cur} ELSE anchors :
             lines' = InsertAt(rest, Clamp(c, Len(rest)) + 1, lines[cur + 1])
  BY DEF ReorderMove
<1>6. Clamp(c, Len(rest)) + 1 \in 1..(Len(rest) + 1)
  <2>1. c \in Int
    BY <1>1, <1>2, <1>5
  <2>2. QED BY <1>0, <1>4, <2>1 DEF Clamp
<1> HIDE DEF idx, op, cur, anchors
<1>7. ASSUME NEW x PROVE Cnt(lines', x) = Cnt(original', x)
  <2>1. Cnt(lines, x) = Cnt(original, x)
    BY <1>0 DEF CntInv
  <2>2. Cnt(lines, x) = Cnt(rest, x) + (IF lines[cur + 1] = x THEN 1 ELSE 0)
    BY <1>0, <1>3, CntRemoveAt
  <2>3. Cnt(lines', x) = Cnt(rest, x) + (IF lines[cur + 1] = x THEN 1 ELSE 0)
    BY <1>4, <1>5, <1>6, CntInsertAt
  <2>4. QED BY <1>0, <2>1, <2>2, <2>3
<1>8. QED BY <1>0, <1>7 DEF CntInv

\* The steps that leave the table alone outside a relocation.
LEMMA QuietCnt ==
  ASSUME IInv, CntInv,
         \/ ReorderDefer \/ ReorderMissing \/ NextGroup
         \/ StartFixup \/ FixLine \/ FixEnd
  PROVE  CntInv'
<1>1. /\ phase \notin {"relocate", "done"} /\ phase' # "relocate"
      /\ lines' = lines \/ phase' = "done"
      /\ UNCHANGED original
  BY DEF ReorderDefer, ReorderMissing, NextGroup, StartFixup, FixLine, FixEnd
<1>2. QED BY <1>1 DEF CntInv

\* Every step of the script keeps the counting invariant.
LEMMA NextCnt == IInv /\ CntInv /\ [Next]_vars => CntInv'
<1> SUFFICES ASSUME IInv, CntInv, [Next]_vars PROVE CntInv'
  OBVIOUS
<1>1. CASE FlatShuffle \/ FallbackShuffle
  BY <1>1, ShuffleCnt
<1>2. CASE ReorderMove
  BY <1>2, MoveCnt
<1>3. CASE BlockExtract
  BY <1>3, ExtractCnt
<1>4. CASE BlockCollect
  BY <1>4, CollectCnt
<1>5. CASE PopLine
  BY <1>5, PopCnt
<1>6. CASE BlockInsert
  BY <1>6, InsertCnt
<1>7. CASE ReorderDefer \/ ReorderMissing \/ NextGroup \/ StartFixup \/ FixLine \/ FixEnd
  BY <1>7, QuietCnt
<1>8. CASE UNCHANGED vars
  BY <1>8 DEF vars, CntInv, PCnt, PSet, G, Blk
<1>9. QED BY <1>1, <1>2, <1>3, <1>4, <1>5, <1>6, <1>7, <1>8 DEF Next

-----------------------------------------------------------------------------
(* Set preservation (spec section 8): whenever no block is half-moved, the *)
(* table holds exactly the lines read from quickjs-opcode.h, each as often *)
(* as it was read, whatever GROUPS lists and whatever the random draws of  *)
(* the shuffles, the reorder moves and the relocations of shuffler.py      *)
(* lines 131-208 were.                                                     *)
THEOREM Permutation == Spec => []ShuffleIsPermutation
<1>1. Init => IInv /\ CntInv
  BY InitIInv, InitCnt
<1>2. IInv /\ CntInv /\ [Next]_vars => (IInv /\ CntInv)'
  BY NextIInv, NextCnt
<1>3. IInv /\ CntInv => ShuffleIsPermutation
  <2> SUFFICES ASSUME IInv, CntInv, phase \notin {"relocate", "done"}
               PROVE  ToBag(lines) = ToBag(original)
    BY DEF ShuffleIsPermutation
  <2>1. lines \in Seq(Line) /\ original \in Seq(Line)
    BY DEF IInv, TypeOK
  <2>2. \A x : Cnt(lines, x) = Cnt(original, x)
    BY DEF CntInv
  <2>3. QED BY <2>1, <2>2, BagFromCnt
<1>4. QED BY <1>1, <1>2, <1>3, PTL DEF Spec
=============================================================================
