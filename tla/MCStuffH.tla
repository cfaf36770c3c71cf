------------------------------ MODULE MCStuffH ------------------------------
(***************************************************************************)
(* A small instance of StuffH: a box of four entries, an empty and a       *)
(* non-empty key, and a release version and a pre-release one.  Eight      *)
(* byte values are enough for every residue the code takes: b % (i + 1)    *)
(* for i <= 3 and b & 7.                                                   *)
(***************************************************************************)
EXTENDS StuffH

MCKeys == {"", "secret"}

MCVersions == { <<"1", "6", ".", "5">>, <<"1", "7", "-", "r", "c">> }

MCByte == 0..7
=============================================================================
