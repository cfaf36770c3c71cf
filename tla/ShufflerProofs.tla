--------------------------- MODULE ShufflerProofs ---------------------------
(***************************************************************************)
(* Proofs about Shuffler, for every opcode table, every GROUPS list and    *)
(* every outcome of the random draws.                                      *)
(***************************************************************************)
EXTENDS Shuffler, SequenceTheorems, WellFoundedInduction, TLAPS

-----------------------------------------------------------------------------
(***************************************************************************)
(* Lemmas about the helpers.                                               *)
(***************************************************************************)

\* A non-empty set of naturals has a least element.
LEMMA NatMinExists ==
  ASSUME NEW T \in SUBSET Nat, T # {}
  PROVE  \E x \in T : \A y \in T : x <= y
<1>1. PICK x \in T : \A y \in T : ~(<<y, x>> \in OpToRel(<, Nat))
  BY NatLessThanWellFounded, WFMin
<1>2. ASSUME NEW y \in T PROVE x <= y
  <2>1. y < x => <<y, x>> \in OpToRel(<, Nat)
    BY DEF OpToRel
  <2>2. ~(y < x) BY <1>1, <2>1, Zenon
  <2>3. QED BY <2>2
<1>3. QED BY <1>2

\* Max of FiniteSetsExt, as used by opcode_index, is the largest element
\* of a non-empty set of bounded naturals.
LEMMA MaxBounded ==
  ASSUME NEW n \in Nat, NEW S \in SUBSET (0..n), S # {}
  PROVE  /\ Max(S) \in S
         /\ \A y \in S : y <= Max(S)
<1> DEFINE T == {n - x : x \in S}
<1>1. T \in SUBSET Nat
  BY SMT
<1>2. T # {} OBVIOUS
<1>3. PICK m \in T : \A y \in T : m <= y BY <1>1, <1>2, NatMinExists
<1>4. PICK x \in S : m = n - x BY <1>3
<1>5. \A y \in S : x >= y
  <2> TAKE y \in S
  <2>1. n - y \in T OBVIOUS
  <2>2. m <= n - y BY <1>3, <2>1, Zenon
  <2> HIDE DEF T
  <2>3. x \in Nat /\ y \in Nat /\ m = n - x
    BY <1>4
  <2>4. QED BY <2>2, <2>3
<1>6. \E z \in S : \A y \in S : z >= y BY <1>5
<1>7. QED BY <1>6 DEF Max

\* lines[k:k] = s keeps a list of lines a list of lines.
LEMMA SpliceAtType ==
  ASSUME NEW S, NEW ls \in Seq(S), NEW k \in 0..Len(ls), NEW s \in Seq(S)
  PROVE  /\ SpliceAt(ls, k, s) \in Seq(S)
         /\ Len(SpliceAt(ls, k, s)) = Len(ls) + Len(s)
<1> DEFINE a == SubSeq(ls, 1, k)
           b == SubSeq(ls, k + 1, Len(ls))
<1>1. a \in Seq(S) /\ Len(a) = k
  BY SubSeqProperties
<1>2. b \in Seq(S) /\ Len(b) = Len(ls) - k
  BY SubSeqProperties
<1> HIDE DEF a, b
<1>3. a \o s \in Seq(S) /\ Len(a \o s) = Len(a) + Len(s)
  BY <1>1, ConcatProperties, Zenon
<1> DEFINE as == a \o s
<1> HIDE DEF as
<1>4. as \o b \in Seq(S) /\ Len(as \o b) = Len(as) + Len(b)
  BY <1>2, <1>3, ConcatProperties, Zenon DEF as
<1>5. Len(as) + Len(b) = Len(ls) + Len(s)
  BY <1>1, <1>2, <1>3 DEF as
<1>6. SpliceAt(ls, k, s) = as \o b
  BY DEF SpliceAt, a, b, as
<1>7. QED BY <1>4, <1>5, <1>6, Zenon

\* lines.pop(i) on a valid index.
LEMMA RemoveAtType ==
  ASSUME NEW S, NEW ls \in Seq(S), NEW i \in 1..Len(ls)
  PROVE  /\ RemoveAt(ls, i) \in Seq(S)
         /\ Len(RemoveAt(ls, i)) = Len(ls) - 1
<1> DEFINE a == SubSeq(ls, 1, i - 1)
           b == SubSeq(ls, i + 1, Len(ls))
<1>1. a \in Seq(S) /\ Len(a) = i - 1
  BY SubSeqProperties
<1>2. b \in Seq(S) /\ Len(b) = Len(ls) - i
  BY SubSeqProperties
<1> HIDE DEF a, b
<1>3. a \o b \in Seq(S) /\ Len(a \o b) = Len(a) + Len(b)
  BY <1>1, <1>2, ConcatProperties, Zenon
<1>4. RemoveAt(ls, i) = a \o b
  BY DEF RemoveAt, a, b
<1>5. Len(a) + Len(b) = Len(ls) - 1
  BY <1>1, <1>2
<1>6. QED BY <1>3, <1>4, <1>5, Zenon

\* lines.insert(i - 1, e) on an index within bounds.
LEMMA InsertAtType ==
  ASSUME NEW S, NEW ls \in Seq(S), NEW i \in 1..Len(ls) + 1, NEW e \in S
  PROVE  /\ InsertAt(ls, i, e) \in Seq(S)
         /\ Len(InsertAt(ls, i, e)) = Len(ls) + 1
<1> DEFINE a == SubSeq(ls, 1, i - 1)
           b == SubSeq(ls, i, Len(ls))
           c == <<e>>
<1>1. a \in Seq(S) /\ Len(a) = i - 1
  BY SubSeqProperties
<1>2. b \in Seq(S) /\ Len(b) = Len(ls) - i + 1
  BY SubSeqProperties
<1>3. c \in Seq(S) /\ Len(c) = 1
  OBVIOUS
<1> HIDE DEF a, b, c
<1>4. a \o c \in Seq(S) /\ Len(a \o c) = Len(a) + Len(c)
  BY <1>1, <1>3, ConcatProperties, Zenon
<1>5. (a \o c) \o b \in Seq(S) /\ Len((a \o c) \o b) = Len(a \o c) + Len(b)
  BY <1>2, <1>4, ConcatProperties, Zenon
<1>6. InsertAt(ls, i, e) = (a \o c) \o b
  BY DEF InsertAt, a, b, c
<1>7. Len(a \o c) + Len(b) = Len(ls) + 1
  BY <1>1, <1>2, <1>3, <1>4
<1>8. QED BY <1>5, <1>6, <1>7, Zenon

\* Writing a bucket back through a map of positions into positions.
LEMMA ScatterType ==
  ASSUME NEW S, NEW ls \in Seq(S), NEW P \in SUBSET (1..Len(ls)),
         NEW f \in [P -> P]
  PROVE  /\ Scatter(ls, f) \in Seq(S)
         /\ Len(Scatter(ls, f)) = Len(ls)
BY DEF Scatter

\* opcode_index maps opcodes to Python indices of the table.
LEMMA OpcodeIndexType ==
  ASSUME NEW ls \in Seq(Line)
  PROVE  /\ DOMAIN opcode_index(ls) \subseteq Ops
         /\ \A o \in DOMAIN opcode_index(ls) : opcode_index(ls)[o] \in 0..Len(ls) - 1
<1> DEFINE names == {extract_opcode(ls[i]) : i \in 1..Len(ls)} \ {NoOp}
           pos(o) == {i \in 1..Len(ls) : extract_opcode(ls[i]) = o}
<1>1. DOMAIN opcode_index(ls) = names
  BY DEF opcode_index
<1>2. names \subseteq Ops
  <2>1. \A i \in 1..Len(ls) : ls[i] \in Line
    BY ElementOfSeq
  <2>2. \A i \in 1..Len(ls) : extract_opcode(ls[i]) \in Ops \cup {NoOp}
    BY <2>1 DEF extract_opcode, Line
  <2>3. QED BY <2>2
<1>3. ASSUME NEW o \in names PROVE opcode_index(ls)[o] \in 0..Len(ls) - 1
  <2>0. Len(ls) \in Nat
    BY LenProperties
  <2>1a. pos(o) \in SUBSET (0..Len(ls))
    BY <2>0
  <2>1b. pos(o) # {}
    OBVIOUS
  <2> HIDE DEF pos
  <2>2. Max(pos(o)) \in pos(o)
    BY <2>0, <2>1a, <2>1b, MaxBounded
  <2>3. opcode_index(ls)[o] = Max(pos(o)) - 1
    BY DEF opcode_index, pos
  <2>4. Max(pos(o)) \in 1..Len(ls)
    BY <2>2 DEF pos
  <2>5. QED BY <2>0, <2>3, <2>4
<1>4. QED BY <1>1, <1>2, <1>3

\* A line of the table, once commented out by the repair, is still a line.
LEMMA CommentedType ==
  ASSUME NEW l \in Line
  PROVE  Commented(l) \in Line
<1>1. l.toks \in Seq(Toks) /\ l.op \in Ops \cup {NoOp}
  BY DEF Line
<1>2. <<"O">> \in Seq(Toks)
  BY DEF Toks
<1>3. <<"O">> \o l.toks \in Seq(Toks)
  BY <1>1, <1>2, ConcatProperties
<1>4. QED BY <1>1, <1>3 DEF Commented, Line, Kinds

\* The synthetic " */" line is a line.
LEMMA CloserType == Closer \in Line
<1>1. <<"C">> \in Seq(Toks)
  BY DEF Toks
<1>2. QED BY <1>1 DEF Closer, Line, Kinds

-----------------------------------------------------------------------------
(***************************************************************************)
(* Type correctness.  TypeOK is not inductive by itself: PopLine shortens  *)
(* the table, and a pending index is then still an index of the table only *)
(* because the pops go from the largest index down, and the other actions  *)
(* that change the table's length (ReorderMove keeps it, BlockInsert and   *)
(* FixEnd lengthen it) only run when no index is pending.                  *)
(***************************************************************************)
PendingOnlyInRelocate == phase # "relocate" => pending = {}

IInv == TypeOK /\ PendingOnlyInRelocate

\* The group being processed is a group of GROUPS.
LEMMA GroupType ==
  ASSUME TypeOK
  PROVE  G \in Group
BY GroupsAssumption, ElementOfSeq DEF TypeOK, G

LEMMA InitIInv == Init => IInv
<1> SUFFICES ASSUME Init PROVE IInv
  OBVIOUS
<1>1. inside \in BOOLEAN
  BY Zenon DEF Init
<1>2. lines \in Seq(Line) /\ original \in Seq(Line)
  BY InputsAssumption DEF Init
<1>3. QED BY <1>1, <1>2, GroupsAssumption
   DEF Init, IInv, TypeOK, PendingOnlyInRelocate, Phases

LEMMA NextIInv == IInv /\ [Next]_vars => IInv'
<1> SUFFICES ASSUME IInv, [Next]_vars PROVE IInv'
  OBVIOUS
<1>0a. TypeOK /\ PendingOnlyInRelocate
  BY DEF IInv
<1>0b. G \in Group
  BY <1>0a, GroupType
<1>0c. Len(lines) \in Nat /\ lines \in Seq(Line)
  BY <1>0a, LenProperties DEF TypeOK
<1> USE DEF IInv, TypeOK, PendingOnlyInRelocate, Phases
<1>1. CASE FlatShuffle
  <2>1. PICK f \in Bijection(PositionsOf(lines, G.targets), PositionsOf(lines, G.targets)) :
               lines' = Scatter(lines, f)
    BY <1>1 DEF FlatShuffle
  <2>2. PositionsOf(lines, G.targets) \in SUBSET (1..Len(lines))
    BY DEF PositionsOf
  <2>3. f \in [PositionsOf(lines, G.targets) -> PositionsOf(lines, G.targets)]
    BY <2>1 DEF Bijection, Injection
  <2>4. lines' \in Seq(Line) /\ Len(lines') = Len(lines)
    BY <1>0c, <2>1, <2>2, <2>3, ScatterType
  <2>5. QED BY <1>1, <2>4 DEF FlatShuffle
<1>2. CASE ReorderDefer
  <2>1. G.reorder[ri] \in Ops
    BY <1>0b, <1>2, ElementOfSeq DEF ReorderDefer, Group
  <2>2. QED BY <1>2, <2>1 DEF ReorderDefer
<1>3. CASE ReorderMissing
  BY <1>3 DEF ReorderMissing
<1>4. CASE ReorderMove
  <2> DEFINE idx     == opcode_index(lines)
             op      == G.reorder[ri]
             cur     == idx[op]
             rest    == RemoveAt(lines, cur + 1)
             anchors == {idx[a] : a \in G.cca \cap DOMAIN idx}
                          \cup {idx[b] - 1 : b \in G.ccb \cap DOMAIN idx}
  <2>1. op \in DOMAIN idx
    BY <1>4 DEF ReorderMove
  <2>2. \A o \in DOMAIN idx : idx[o] \in 0..Len(lines) - 1
    BY <1>0c, OpcodeIndexType
  <2>3. cur + 1 \in 1..Len(lines)
    BY <2>1, <2>2, <1>0c
  <2>4. rest \in Seq(Line) /\ Len(rest) = Len(lines) - 1
    BY <1>0c, <2>3, RemoveAtType
  <2>5. lines[cur + 1] \in Line
    BY <1>0c, <2>3, ElementOfSeq
  <2>6. PICK c \in IF anchors = {} THEN {cur} ELSE anchors :
               lines' = InsertAt(rest, Clamp(c, Len(rest)) + 1, lines[cur + 1])
    BY <1>4 DEF ReorderMove
  <2>7. c \in Int
    <3>1. CASE anchors = {}
      BY <2>1, <2>2, <2>6, <3>1
    <3>2. CASE anchors # {}
      <4>1. c \in anchors
        BY <2>6, <3>2
      <4>2. QED BY <2>2, <4>1
    <3>3. QED BY <3>1, <3>2
  <2>8. Clamp(c, Len(rest)) + 1 \in 1..Len(rest) + 1
    BY <2>4, <2>7, <1>0c DEF Clamp
  <2>9. lines' \in Seq(Line) /\ Len(lines') = Len(lines)
    BY <2>4, <2>5, <2>6, <2>8, InsertAtType
  <2>10. QED BY <1>4, <2>9 DEF ReorderMove
<1>5. CASE FallbackShuffle
  <2>1. PICK f \in Bijection(PositionsOf(lines, pool), PositionsOf(lines, pool)) :
               lines' = Scatter(lines, f)
    BY <1>5 DEF FallbackShuffle
  <2>2. PositionsOf(lines, pool) \in SUBSET (1..Len(lines))
    BY DEF PositionsOf
  <2>3. f \in [PositionsOf(lines, pool) -> PositionsOf(lines, pool)]
    BY <2>1 DEF Bijection, Injection
  <2>4. lines' \in Seq(Line) /\ Len(lines') = Len(lines)
    BY <1>0c, <2>1, <2>2, <2>3, ScatterType
  <2>5. QED BY <1>5, <2>4 DEF FallbackShuffle
<1>6. CASE BlockExtract
  BY <1>6 DEF BlockExtract
<1>7. CASE BlockCollect
  <2> DEFINE idx == opcode_index(lines)
             op  == Blk[bk]
  <2>1. \A o \in DOMAIN idx : idx[o] \in 0..Len(lines) - 1
    BY <1>0c, OpcodeIndexType
  <2>4. moving' \in Seq(Line) /\ pending' \subseteq 0..Len(lines) - 1
    <3>1. CASE op \in DOMAIN idx
      <4>1. lines[idx[op] + 1] \in Line
        BY <1>0c, <2>1, <3>1, ElementOfSeq
      <4>2. moving' = Append(moving, lines[idx[op] + 1])
            /\ pending' = pending \cup {idx[op]}
        BY <1>7, <3>1 DEF BlockCollect
      <4>3. moving' \in Seq(Line)
        BY <4>1, <4>2
      <4>4. pending' \subseteq 0..Len(lines) - 1
        BY <2>1, <3>1, <4>2
      <4>5. QED BY <4>3, <4>4
    <3>2. CASE op \notin DOMAIN idx
      BY <1>7, <3>2 DEF BlockCollect
    <3>3. QED BY <3>1, <3>2
  <2>5. UNCHANGED <<lines, phase, g, ri, pool, bi, fixed, inside, fi, original>>
    BY <1>7 DEF BlockCollect
  <2>6. phase' = "relocate" /\ bk' = bk + 1
    BY <1>7 DEF BlockCollect
  <2>7. inside' \in BOOLEAN
    BY <2>5, Zenon
  <2>8. QED BY <2>4, <2>5, <2>6, <2>7
<1>8. CASE PopLine
  <2>1. PICK i \in pending :
          /\ \A j \in pending : j <= i
          /\ lines' = RemoveAt(lines, i + 1)
          /\ pending' = pending \ {i}
    BY <1>8 DEF PopLine
  <2>2. i + 1 \in 1..Len(lines)
    BY <2>1, <1>0c
  <2>3. lines' \in Seq(Line) /\ Len(lines') = Len(lines) - 1
    BY <1>0c, <2>1, <2>2, RemoveAtType
  <2>4. pending' \subseteq 0..Len(lines') - 1
    BY <2>1, <2>3, <1>0c
  <2>5. QED BY <1>8, <2>3, <2>4 DEF PopLine
<1>9. CASE BlockInsert
  <2> DEFINE idx     == opcode_index(lines)
             anchors == {idx[a] + 1 : a \in G.cca \cap DOMAIN idx}
                          \cup {idx[b] : b \in G.ccb \cap DOMAIN idx}
  <2>1. \A o \in DOMAIN idx : idx[o] \in 0..Len(lines) - 1
    BY <1>0c, OpcodeIndexType
  <2>2. PICK k \in IF anchors = {} THEN 0..Len(lines) ELSE anchors :
               lines' = SpliceAt(lines, k, moving)
    BY <1>9 DEF BlockInsert
  <2>3. k \in 0..Len(lines)
    BY <2>1, <2>2, <1>0c
  <2>4. lines' \in Seq(Line)
    BY <1>0c, <2>2, <2>3, SpliceAtType
  <2>5. QED BY <1>9, <2>4 DEF BlockInsert
<1>10. CASE NextGroup
  BY <1>10 DEF NextGroup
<1>11. CASE StartFixup
  <2>1. fixed' \in Seq(Line)
    BY <1>11, EmptySeq DEF StartFixup
  <2>2. phase' \in Phases /\ phase' # "relocate"
    BY <1>11 DEF StartFixup
  <2>3. pending = {}
    BY <1>11 DEF StartFixup
  <2>4. UNCHANGED <<lines, g, ri, pool, bi, bk, moving, pending, original>>
    BY <1>11 DEF StartFixup
  <2>5. inside' \in BOOLEAN
    BY <1>11, Zenon DEF StartFixup
  <2>6. fi' \in Nat \ {0}
    BY <1>11 DEF StartFixup
  <2>7. TypeOK'
    BY <2>1, <2>2, <2>3, <2>4, <2>5, <2>6
  <2>8. PendingOnlyInRelocate'
    BY <2>3, <2>4
  <2>9. QED BY <2>7, <2>8
<1>12. CASE FixLine
  <2> DEFINE l  == lines[fi]
             l1 == IF HasC(l) /\ ~HasO(l) /\ ~inside THEN Commented(l) ELSE l
  <2>1. l \in Line
    BY <1>12, <1>0c, ElementOfSeq DEF FixLine
  <2>2. l1 \in Line /\ Closer \in Line
    BY <2>1, CommentedType, CloserType
  <2>3. fixed' \in Seq(Line)
    BY <1>12, <2>2 DEF FixLine
  <2>4. inside' \in BOOLEAN
    BY <1>12, Zenon DEF FixLine
  <2>5. UNCHANGED <<lines, phase, g, ri, pool, bi, bk, moving, pending, original>>
        /\ fi' = fi + 1
    BY <1>12 DEF FixLine
  <2>6. QED BY <2>3, <2>4, <2>5
<1>13. CASE FixEnd
  <2>1. Closer \in Line
    BY CloserType
  <2>2. QED BY <1>13, <2>1 DEF FixEnd
<1>14. CASE UNCHANGED vars
  BY <1>14 DEF vars
<1>15. QED
  BY <1>1, <1>2, <1>3, <1>4, <1>5, <1>6, <1>7, <1>8, <1>9, <1>10, <1>11,
     <1>12, <1>13, <1>14 DEF Next

(* The script never indexes outside its table: in every reachable state    *)
(* the lines, the block being moved and the repaired output are lists of   *)
(* lines, the group index names a group of GROUPS, and every index that    *)
(* the pop loop of lines 193-194 has still to pop names a line of the      *)
(* current, already shortened, table.                                      *)
THEOREM TypeCorrect == Spec => []TypeOK
<1>1. Init => IInv
  BY InitIInv
<1>2. IInv /\ [Next]_vars => IInv'
  BY NextIInv
<1>3. IInv => TypeOK
  BY DEF IInv
<1>4. QED BY <1>1, <1>2, <1>3, PTL DEF Spec
=============================================================================
