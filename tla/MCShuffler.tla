----------------------------- MODULE MCShuffler -----------------------------
(***************************************************************************)
(* Small instances of Shuffler for TLC.                                    *)
(*                                                                         *)
(* The tables are cut-downs of quickjs-opcode.h that keep the structures   *)
(* the script acts on: a protected pair (pc = push_const8 followed by      *)
(* fc = fclosure8, "must follow push_const8"), flat targets of which one   *)
(* (t1) carries a trailing comment continued on the next line, members of  *)
(* relocation blocks (b1, b2 and n1; zz is listed but absent), a comment   *)
(* line and a lower-case def( line as in the temporary-opcode section, a   *)
(* # directive, and n2, which only the second group of the reorder         *)
(* instance touches.  One table lacks the protected pair, so the random    *)
(* splice of a block (no anchor present) happens too.                      *)
(***************************************************************************)
EXTENDS Shuffler

CONSTANTS pc, fc, t1, t2, b1, b2, n1, n2, tmp, zz

\* A DEF( line, a def( line, a directive and a text line.
D(o, ts)  == [kind |-> "DEF", op |-> o, toks |-> ts]
Lc(o)     == [kind |-> "def", op |-> o, toks |-> <<"X">>]
Dir       == [kind |-> "dir", op |-> NoOp, toks |-> <<"X">>]
Txt(ts)   == [kind |-> "text", op |-> NoOp, toks |-> ts]

\* The layout of the GENERAL section followed by the temporary opcodes.
TableA ==
  << D(pc, <<"X">>), D(fc, <<"X", "O", "C">>),
     D(t1, <<"X", "O">>), Txt(<<"C">>),
     D(b1, <<"X">>), D(t2, <<"X">>), D(n1, <<"X">>), D(b2, <<"X", "O", "C">>),
     D(n2, <<"X">>), Txt(<<"O", "C">>), Lc(tmp), Dir >>

\* A table that starts with a directive, in which a block member carries a
\* trailing comment continued on the next line, and which lacks n1 and n2.
TableB ==
  << Dir, D(t1, <<"X">>), D(b1, <<"X", "O">>), Txt(<<"C">>),
     D(t2, <<"X">>), D(pc, <<"X">>), D(fc, <<"X">>), D(b2, <<"X">>) >>

\* A table without the anchors of the group, so that a block is spliced at
\* an index drawn from the whole table (line 205), possibly between a
\* trailing comment and its continuation.
TableC ==
  << D(t1, <<"X", "O">>), Txt(<<"C">>), D(b1, <<"X">>), D(t2, <<"X">>),
     D(b2, <<"X", "O", "C">>) >>

MCMustFollow == {<<pc, fc>>}

MCOps == {pc, fc, t1, t2, b1, b2, n1, n2, tmp, zz}

MCInputs == {TableA, TableB, TableC}

\* GROUPS of shuffler.py (lines 39-104) has three groups: GENERAL,
\* CONFIG_BIGNUM and SHORT_OPCODES.  The run of the shipped shape takes one
\* group like SHORT_OPCODES: flat targets, relocation blocks (some of whose
\* members may be absent from a table), an empty reorder_list, and anchors
\* around push_const8 and fclosure8.  The loop over several groups is
\* covered by MCGroupsReorder.
ShortOpcodes == [targets |-> {t1, t2}, blocks |-> << <<b1, b2>>, <<n1, zz>> >>,
                 reorder |-> <<>>, ccb |-> {pc}, cca |-> {fc}, fallback |-> TRUE]
MCGroupsAsShipped == << ShortOpcodes >>

\* A second group without anchors, for the loop over several groups.
Bignum    == [targets |-> {n1, n2}, blocks |-> <<>>, reorder |-> <<>>,
              ccb |-> {}, cca |-> {}, fallback |-> TRUE]

\* Groups that use the reorder_list path (present, deferred and missing
\* entries), which the shipped GROUPS leave empty.
Reordering == [targets |-> {t1}, blocks |-> << <<b1, b2>> >>, reorder |-> <<t2, n1, zz>>,
               ccb |-> {pc}, cca |-> {fc}, fallback |-> TRUE]
MCGroupsReorder == << Reordering, Bignum >>
=============================================================================
