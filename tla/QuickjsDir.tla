------------------------------ MODULE QuickjsDir ------------------------------
(***************************************************************************)
(* What setup_quickjs (src/BatmanSecurer/frida_builder.py, lines 254-287) *)
(* promises the steps after it, which test only whether the directory     *)
(* subprojects/quickjs exists (line 257): the directory is absent until   *)
(* it appears in one step holding every top-level entry of the tarball,   *)
(* and it is never changed or removed afterwards.                          *)
(***************************************************************************)
EXTENDS Integers

CONSTANT TarItems   \* top-level entries of deps/quickjs.tar.gz

VARIABLE dir        \* entries in subprojects/quickjs, -1 while it is absent

Init == dir = -1

\* The tarball's content is put in place as a whole.
Extract ==
  /\ dir = -1
  /\ dir' = TarItems

Next == Extract

Spec == Init /\ [][Next]_dir
=============================================================================
