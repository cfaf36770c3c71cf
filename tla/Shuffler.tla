------------------------------ MODULE Shuffler ------------------------------
(***************************************************************************)
(* The opcode shuffler of src/BatmanSecurer/patchers/shuffler.py.          *)
(*                                                                         *)
(* The script reads quickjs-opcode.h as a list of lines, and for every     *)
(* group of GROUPS, in order: shuffles the flat targets in place, moves    *)
(* or defers the reorder_list entries, shuffles the deferred ones in       *)
(* place, and relocates every relocation block next to an anchor.  It      *)
(* then repairs the block comments that the moves broke, in one forward    *)
(* scan, and writes the file.                                              *)
(*                                                                         *)
(* A line is abstracted to what the regexes and the C lexer see of it:     *)
(* its kind (a DEF( line, a lower-case def( line, a # directive, or any    *)
(* other text), the opcode it defines, and the sequence of its comment     *)
(* tokens in order: "O" for /*, "C" for */ and "X" for the code text (the  *)
(* DEF(...) or #... part).  Every random draw of the script is a           *)
(* nondeterministic choice.  Indices computed by the script are kept       *)
(* 0-based, as in Python; a line at Python index i is lines[i+1].          *)
(***************************************************************************)
EXTENDS Integers, Sequences, SequencesExt, FiniteSets, Bags

CONSTANTS
  Ops,      \* opcode names (the first argument of DEF(...))
  NoOp,     \* what extract_opcode returns for a line that is no DEF( line
  Inputs,   \* the possible contents of deps/quickjs-opcode.h
  Groups,   \* GROUPS: the sequence of group policies
  MustFollow \* pairs <<x, y>>: in QuickJS, opcode y must directly follow x

Kinds == {"DEF", "def", "dir", "text"}
Toks  == {"O", "C", "X"}

Line == [kind : Kinds, op : Ops \cup {NoOp}, toks : Seq(Toks)]

(* reorder_prob is only compared with random.random() \in [0, 1): the      *)
(* fallback branch is possible iff reorder_prob < 1, and the move branch   *)
(* is always possible (random.random() may return 0.0).                    *)
Group == [targets : SUBSET Ops, blocks : Seq(Seq(Ops)), reorder : Seq(Ops),
          ccb : SUBSET Ops, cca : SUBSET Ops, fallback : BOOLEAN]

ASSUME InputsAssumption == Inputs \subseteq Seq(Line) /\ Inputs # {}
ASSUME NoOpAssumption == NoOp \notin Ops
ASSUME MustFollowAssumption == MustFollow \subseteq Ops \X Ops
(* GROUPS is a non-empty list; no opcode is listed twice in one block.     *)
ASSUME GroupsAssumption ==
  /\ Groups \in Seq(Group) /\ Len(Groups) > 0
  /\ \A k \in 1..Len(Groups) : \A b \in ToSet(Groups[k].blocks) :
        \A i, j \in 1..Len(b) : b[i] = b[j] => i = j

Phases == {"flat", "reorder", "blocks", "relocate", "fixup", "done"}

VARIABLES
  lines,    \* the list of lines being rewritten
  phase,    \* which step of the script runs next
  g,        \* index of the group being processed
  ri,       \* position in the group's reorder_list
  pool,     \* fallback_shuffle_ops
  bi,       \* position in the group's relocate_blocks
  bk,       \* position in the block being collected
  moving,   \* block_lines of the block being relocated
  pending,  \* block_indices not yet popped (Python indices)
  fixed,    \* the output list of fix_multiline_trailing_comments
  inside,   \* its inside_comment flag
  fi,       \* position of the next line it scans
  original  \* history: the lines as read from INPUT_FILE (lines 124-125)

vars == <<lines, phase, g, ri, pool, bi, bk, moving, pending, fixed, inside,
          fi, original>>

G == Groups[g]

(***************************************************************************)
(* Helpers, lines 109-118.                                                 *)
(***************************************************************************)
\* extract_opcode: the name captured by DEF_RE, or None.
extract_opcode(l) == IF l.kind = "DEF" THEN l.op ELSE NoOp

\* opcode_index: name -> Python index; a later duplicate overwrites.
opcode_index(ls) ==
  LET names == {extract_opcode(ls[i]) : i \in 1..Len(ls)} \ {NoOp}
  IN  [o \in names |->
         Max({i \in 1..Len(ls) : extract_opcode(ls[i]) = o}) - 1]

\* The positions (1-based) of the lines whose opcode is in S.
PositionsOf(ls, S) == {i \in 1..Len(ls) : extract_opcode(ls[i]) \in S}

\* Writing a shuffled bucket back into the same positions: the line at
\* position i is replaced by the line at position f[i], f a bijection.
Scatter(ls, f) == [i \in 1..Len(ls) |-> IF i \in DOMAIN f THEN ls[f[i]] ELSE ls[i]]

\* lines[k:k] = s, for a Python index k.
SpliceAt(ls, k, s) == SubSeq(ls, 1, k) \o s \o SubSeq(ls, k + 1, Len(ls))

\* max(0, min(x, n))
Clamp(x, n) == IF x < 0 THEN 0 ELSE IF x > n THEN n ELSE x

Init ==
  /\ lines \in Inputs
  /\ original = lines
  /\ phase = "flat"
  /\ g = 1
  /\ ri = 1
  /\ pool = {}
  /\ bi = 1
  /\ bk = 1
  /\ moving = <<>>
  /\ pending = {}
  /\ fixed = <<>>
  /\ inside = FALSE
  /\ fi = 1

(***************************************************************************)
(* Shuffle-only targets, lines 135-145: the lines of the flat targets are  *)
(* permuted among their own positions.                                     *)
(***************************************************************************)
FlatShuffle ==
  /\ phase = "flat"
  /\ LET P == PositionsOf(lines, G.targets)
     IN  \E f \in Bijection(P, P) : lines' = Scatter(lines, f)
  /\ phase' = "reorder"
  /\ ri' = 1
  /\ pool' = {}
  /\ UNCHANGED <<g, bi, bk, moving, pending, fixed, inside, fi, original>>

(***************************************************************************)
(* reorder_list, lines 150-153: random() > reorder_prob defers the entry.  *)
(***************************************************************************)
ReorderDefer ==
  /\ phase = "reorder"
  /\ ri <= Len(G.reorder)
  /\ G.fallback
  /\ pool' = pool \cup {G.reorder[ri]}
  /\ ri' = ri + 1
  /\ UNCHANGED <<lines, phase, g, bi, bk, moving, pending, fixed, inside, fi, original>>

(* Lines 155-157: the entry is not in the table and is skipped.            *)
ReorderMissing ==
  /\ phase = "reorder"
  /\ ri <= Len(G.reorder)
  /\ G.reorder[ri] \notin DOMAIN opcode_index(lines)
  /\ ri' = ri + 1
  /\ UNCHANGED <<lines, phase, g, pool, bi, bk, moving, pending, fixed, inside, fi, original>>

\* Mutant: the entry is inserted without being popped first.
ReorderMoveNoPop ==
  /\ phase = "reorder"
  /\ ri <= Len(G.reorder)
  /\ LET idx     == opcode_index(lines)
         op      == G.reorder[ri]
         cur     == idx[op]
         anchors == {idx[a] : a \in G.cca \cap DOMAIN idx}
                      \cup {idx[b] - 1 : b \in G.ccb \cap DOMAIN idx}
     IN  /\ op \in DOMAIN idx
         /\ \E c \in IF anchors = {} THEN {cur} ELSE anchors :
               lines' = InsertAt(lines, Clamp(c, Len(lines)) + 1, lines[cur + 1])
  /\ ri' = ri + 1
  /\ UNCHANGED <<phase, g, pool, bi, bk, moving, pending, fixed, inside, fi, original>>

(* Lines 155-172: the entry is popped and reinserted at an index drawn     *)
(* from the anchors, which are computed from the index map taken before    *)
(* the pop.                                                                *)
ReorderMove ==
  /\ phase = "reorder"
  /\ ri <= Len(G.reorder)
  /\ LET idx     == opcode_index(lines)
         op      == G.reorder[ri]
         cur     == idx[op]
         rest    == RemoveAt(lines, cur + 1)
         anchors == {idx[a] : a \in G.cca \cap DOMAIN idx}
                      \cup {idx[b] - 1 : b \in G.ccb \cap DOMAIN idx}
     IN  /\ op \in DOMAIN idx
         /\ \E c \in IF anchors = {} THEN {cur} ELSE anchors :
               lines' = InsertAt(rest, Clamp(c, Len(rest)) + 1, lines[cur + 1])
  /\ ri' = ri + 1
  /\ UNCHANGED <<phase, g, pool, bi, bk, moving, pending, fixed, inside, fi, original>>

(***************************************************************************)
(* Fallback shuffle, lines 175-181: the deferred entries are permuted      *)
(* among their current positions.                                          *)
(***************************************************************************)
FallbackShuffle ==
  /\ phase = "reorder"
  /\ ri > Len(G.reorder)
  /\ LET P == PositionsOf(lines, pool)
     IN  \E f \in Bijection(P, P) : lines' = Scatter(lines, f)
  /\ phase' = "blocks"
  /\ bi' = 1
  /\ UNCHANGED <<g, ri, pool, bk, moving, pending, fixed, inside, fi, original>>

(***************************************************************************)
(* Block relocation, lines 184-208.  BlockExtract starts a block (lines    *)
(* 184-187), BlockCollect is one iteration of the loop that collects the   *)
(* lines of the block's members in block order (lines 188-192), PopLine    *)
(* is one iteration of the pop loop over the indices in decreasing order   *)
(* (lines 193-194), and BlockInsert recomputes the anchors on the          *)
(* shortened table and splices the block in (lines 196-206).               *)
(***************************************************************************)
Blk == G.blocks[bi]

BlockExtract ==
  /\ phase = "blocks"
  /\ bi <= Len(G.blocks)
  /\ phase' = "relocate"
  /\ bk' = 1
  /\ moving' = <<>>
  /\ pending' = {}
  /\ UNCHANGED <<lines, g, ri, pool, bi, fixed, inside, fi, original>>

\* Mutant: idx_map[op] read without the "if op in idx_map" test of line
\* 189, so a block member missing from the table raises KeyError.
BlockCollectNoCheck ==
  /\ phase = "relocate"
  /\ bk <= Len(Blk)
  /\ LET idx == opcode_index(lines)
         op  == Blk[bk]
     IN  /\ op \in DOMAIN idx
         /\ moving' = Append(moving, lines[idx[op] + 1])
         /\ pending' = pending \cup {idx[op]}
  /\ bk' = bk + 1
  /\ UNCHANGED <<lines, phase, g, ri, pool, bi, fixed, inside, fi, original>>

(* Lines 188-192: the idx_map of line 185 is that of the current table,    *)
(* which the collection loop does not change.                              *)
BlockCollect ==
  /\ phase = "relocate"
  /\ bk <= Len(Blk)
  /\ LET idx == opcode_index(lines)
         op  == Blk[bk]
     IN  IF op \in DOMAIN idx
         THEN /\ moving' = Append(moving, lines[idx[op] + 1])
              /\ pending' = pending \cup {idx[op]}
         ELSE UNCHANGED <<moving, pending>>
  /\ bk' = bk + 1
  /\ UNCHANGED <<lines, phase, g, ri, pool, bi, fixed, inside, fi, original>>

\* Mutant: block_indices popped in increasing order (sorted without
\* reverse=True).
PopLineAscending ==
  /\ phase = "relocate"
  /\ bk > Len(Blk)
  /\ \E i \in pending :
       /\ \A j \in pending : i <= j
       /\ lines' = RemoveAt(lines, i + 1)
       /\ pending' = pending \ {i}
  /\ UNCHANGED <<phase, g, ri, pool, bi, bk, moving, fixed, inside, fi, original>>

PopLine ==
  /\ phase = "relocate"
  /\ bk > Len(Blk)
  /\ \E i \in pending :
       /\ \A j \in pending : j <= i
       /\ lines' = RemoveAt(lines, i + 1)
       /\ pending' = pending \ {i}
  /\ UNCHANGED <<phase, g, ri, pool, bi, bk, moving, fixed, inside, fi, original>>

\* Mutant: the anchor-after index taken without + 1, as the reorder step
\* does.
BlockInsertNoOffset ==
  /\ phase = "relocate"
  /\ bk > Len(Blk)
  /\ pending = {}
  /\ LET idx     == opcode_index(lines)
         anchors == {idx[a] : a \in G.cca \cap DOMAIN idx}
                      \cup {idx[b] : b \in G.ccb \cap DOMAIN idx}
     IN  \E k \in IF anchors = {} THEN 0..Len(lines) ELSE anchors :
           lines' = SpliceAt(lines, k, moving)
  /\ phase' = "blocks"
  /\ bi' = bi + 1
  /\ UNCHANGED <<g, ri, pool, bk, moving, pending, fixed, inside, fi, original>>

BlockInsert ==
  /\ phase = "relocate"
  /\ bk > Len(Blk)
  /\ pending = {}
  /\ LET idx     == opcode_index(lines)
         anchors == {idx[a] + 1 : a \in G.cca \cap DOMAIN idx}
                      \cup {idx[b] : b \in G.ccb \cap DOMAIN idx}
     IN  \E k \in IF anchors = {} THEN 0..Len(lines) ELSE anchors :
           lines' = SpliceAt(lines, k, moving)
  /\ phase' = "blocks"
  /\ bi' = bi + 1
  /\ UNCHANGED <<g, ri, pool, bk, moving, pending, fixed, inside, fi, original>>

(* Line 131: the next group starts once this one's blocks are done.        *)
NextGroup ==
  /\ phase = "blocks"
  /\ bi > Len(G.blocks)
  /\ g < Len(Groups)
  /\ g' = g + 1
  /\ phase' = "flat"
  /\ UNCHANGED <<lines, ri, pool, bi, bk, moving, pending, fixed, inside, fi, original>>

(***************************************************************************)
(* fix_multiline_trailing_comments, lines 213-232.                         *)
(***************************************************************************)
HasO(l) == "O" \in ToSet(l.toks)
HasC(l) == "C" \in ToSet(l.toks)

\* "/* " + l: the line no longer matches DEF_RE or the directive regex.
Commented(l) == [kind |-> "text", op |-> l.op, toks |-> <<"O">> \o l.toks]

\* The synthetic " */" line.
Closer == [kind |-> "text", op |-> NoOp, toks |-> <<"C">>]

\* re.match(r"^\s*DEF\(", l) or re.match(r"^\s*#", l)
Resyncs(l) == l.kind \in {"DEF", "dir"}

(* Lines 214-215 and 232: the loop over the groups ends and the scan       *)
(* starts with an empty output and inside_comment = False.                 *)
StartFixup ==
  /\ phase = "blocks"
  /\ bi > Len(G.blocks)
  /\ g = Len(Groups)
  /\ phase' = "fixup"
  /\ fixed' = <<>>
  /\ inside' = FALSE
  /\ fi' = 1
  /\ UNCHANGED <<lines, g, ri, pool, bi, bk, moving, pending, original>>

\* Mutant: no closer is synthesised before a DEF( or # line met inside an
\* open comment (lines 220-222 dropped).
FixLineNoResync ==
  /\ phase = "fixup"
  /\ fi <= Len(lines)
  /\ LET l     == lines[fi]
         l1    == IF HasC(l) /\ ~HasO(l) /\ ~inside THEN Commented(l) ELSE l
     IN  /\ fixed' = Append(fixed, l1)
         /\ inside' = IF HasC(l1) THEN FALSE
                      ELSE IF HasO(l1) THEN TRUE
                      ELSE inside
  /\ fi' = fi + 1
  /\ UNCHANGED <<lines, phase, g, ri, pool, bi, bk, moving, pending, original>>

(* Lines 217-227: one iteration of the scan.                               *)
FixLine ==
  /\ phase = "fixup"
  /\ fi <= Len(lines)
  /\ LET l     == lines[fi]
         l1    == IF HasC(l) /\ ~HasO(l) /\ ~inside THEN Commented(l) ELSE l
         close == inside /\ Resyncs(l1)
     IN  /\ fixed' = (IF close THEN Append(fixed, Closer) ELSE fixed) \o <<l1>>
         /\ inside' = IF HasC(l1) THEN FALSE
                      ELSE IF HasO(l1) THEN TRUE
                      ELSE inside /\ ~close
  /\ fi' = fi + 1
  /\ UNCHANGED <<lines, phase, g, ri, pool, bi, bk, moving, pending, original>>

(* Lines 228-232: a comment still open at the end is closed, and the       *)
(* result replaces lines.                                                  *)
FixEnd ==
  /\ phase = "fixup"
  /\ fi > Len(lines)
  /\ lines' = IF inside THEN Append(fixed, Closer) ELSE fixed
  /\ phase' = "done"
  /\ UNCHANGED <<g, ri, pool, bi, bk, moving, pending, fixed, inside, fi, original>>

Next ==
  \/ FlatShuffle
  \/ ReorderDefer \/ ReorderMissing \/ ReorderMove
  \/ FallbackShuffle
  \/ BlockExtract \/ BlockCollect \/ PopLine \/ BlockInsert
  \/ NextGroup
  \/ StartFixup \/ FixLine \/ FixEnd

Spec == Init /\ [][Next]_vars

(* The script is one sequential process with no waits: a step that can   *)
(* be taken is not put off forever.                                        *)
LiveSpec == Spec /\ WF_vars(Next)

-----------------------------------------------------------------------------
(***************************************************************************)
(* How a C compiler reads the comments of a list of lines.  The lines are  *)
(* flattened to one token stream; after /* everything up to the next */    *)
(* is comment, a /* inside a comment is ignored, and a */ outside a        *)
(* comment is a stray token (a syntax error in the opcode table).          *)
(***************************************************************************)
TokenStream(ls) ==
  FlattenSeq([i \in 1..Len(ls) |->
                [k \in 1..Len(ls[i].toks) |-> [t |-> ls[i].toks[k], line |-> i]]])

\* OpenAfter(st)[n]: whether a comment is open after the first n tokens.
OpenAfter(st) ==
  LET open[n \in 0..Len(st)] ==
        IF n = 0 THEN FALSE
        ELSE IF st[n].t = "O" THEN TRUE
        ELSE IF st[n].t = "C" THEN FALSE
        ELSE open[n - 1]
  IN  open

\* No stray */ and no comment left open at the end of the file.
CommentsBalanced(ls) ==
  LET st == TokenStream(ls)
      open == OpenAfter(st)
  IN  /\ \A n \in 1..Len(st) : st[n].t = "C" => open[n - 1]
      /\ ~open[Len(st)]

\* Every line that defines an opcode has its code outside any comment.
OpcodesLive(ls) ==
  LET st == TokenStream(ls)
      open == OpenAfter(st)
      live == {st[n].line : n \in {m \in 1..Len(st) : st[m].t = "X" /\ ~open[m - 1]}}
  IN  \A i \in 1..Len(ls) : ls[i].op # NoOp => i \in live

(* The header the script reads compiles: its comments are balanced and no  *)
(* opcode definition in it is commented out.                               *)
ASSUME InputsCompile == \A in \in Inputs : CommentsBalanced(in) /\ OpcodesLive(in)

-----------------------------------------------------------------------------
(* Type invariant.  A pending block index always names a line of the       *)
(* current table, whatever has been popped already.                        *)
TypeOK ==
  /\ lines \in Seq(Line)
  /\ original \in Seq(Line)
  /\ phase \in Phases
  /\ g \in 1..Len(Groups)
  /\ ri \in Nat \ {0}
  /\ bi \in Nat \ {0}
  /\ bk \in Nat \ {0}
  /\ fi \in Nat \ {0}
  /\ pool \subseteq Ops
  /\ moving \in Seq(Line)
  /\ pending \subseteq 0..Len(lines) - 1
  /\ fixed \in Seq(Line)
  /\ inside \in BOOLEAN

(* Spec section 8, set preservation: outside the middle of a block         *)
(* relocation (phase "relocate", when the block may be out of the table)   *)
(* the table holds exactly the lines that were read, each as often as it   *)
(* was read: the flat shuffles, the reorder moves, the fallback shuffle    *)
(* and the relocations of all groups only move lines (shuffler.py lines    *)
(* 131-208).                                                               *)
ShuffleIsPermutation ==
  phase \notin {"relocate", "done"} => ToBag(lines) = ToBag(original)

(* The file written at line 239 compiles: after the comment repair of      *)
(* fix_multiline_trailing_comments every comment is closed, no */ is       *)
(* stray, and no opcode definition (DEF( or def() has been swallowed by a  *)
(* comment that a moved line opened or whose opener moved away.            *)
OutputCompiles ==
  phase = "done" => CommentsBalanced(lines) /\ OpcodesLive(lines)

\* The opcodes in the order the DEF( lines define them.
DefOrder(ls) ==
  LET ds == SelectSeq(ls, LAMBDA l : extract_opcode(l) # NoOp)
  IN  [k \in 1..Len(ds) |-> ds[k].op]

(* The anchors of a group (ccb: "before these", cca: "after these") are    *)
(* the ends of runs of opcodes that QuickJS numbers consecutively, such as *)
(* fclosure, which "must follow push_const".  Whenever the table is whole, *)
(* every such pair present in it is still adjacent in definition order:    *)
(* no shuffle, reorder move or block relocation (lines 139-206) has put a  *)
(* definition between them.                                                *)
MustFollowKept ==
  phase # "relocate" =>
    LET o == DefOrder(lines)
    IN  \A p \in MustFollow :
          \A k \in 1..Len(o) : o[k] = p[1] /\ p[2] \in ToSet(o) =>
             k < Len(o) /\ o[k + 1] = p[2]

(* shuffler.py reaches the write of line 238 for every table and every    *)
(* group policy: each loop of lines 131-232 ends, and no step is stuck    *)
(* on a name missing from the table (the "if ... in idx_map" tests of     *)
(* lines 155, 189, 198 and 201) or on an index out of range.               *)
Terminates == <>(phase = "done")
=============================================================================
