------------------------- MODULE MCGumQuickPatcher -------------------------
(***************************************************************************)
(* Small gumquickcore.c files for GumQuickPatcher.  Shipped(n) has the    *)
(* layout of the real file: the unbind_weak declaration among the others, *)
(* the gumjs_script_entries array, the unbind_weak function with a nested *)
(* block, and a later function that calls allocator n.  The other files   *)
(* each lack one thing the script needs.                                   *)
(***************************************************************************)
EXTENDS GumQuickPatcher

Shipped(n) ==
  << "x", "A", "\n", "x", "\n",
     "M", "{", "x", "\n", "}", "\n",
     "F", "\n", "{", "{", "}", "x", "\n", "}", "\n",
     "x", "{", n, "\n", "}" >>

\* Shipped(n) with every token in drop removed.
Without(n, drop) == SelectSeq(Shipped(n), LAMBDA c : c \notin drop)

\* Either allocator or none, and the shipped layout or one lacking the
\* array marker, the declaration anchor, the function anchor or every "}".
MCInputs ==
  { Without(n, drop) : n \in {"N1", "N2", "x"},
                       drop \in {{}, {"M"}, {"A"}, {"F"}, {"}"}} }

=============================================================================
