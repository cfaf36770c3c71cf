--------------------------- MODULE GumQuickPatcher ---------------------------
(***************************************************************************)
(* src/BatmanSecurer/patchers/gum_quick_patcher.py: adds loadBytecode to  *)
(* frida-gum's gumquickcore.c by three text patches, each skipped when    *)
(* its literal is already present, and writes the file back.  The         *)
(* builder runs it on every build (frida_builder.py 575-582, main 706),   *)
(* and clone_frida keeps an existing checkout (lines 210-212), so the     *)
(* same file is patched again and again: MaxRuns runs are modelled.        *)
(*                                                                         *)
(* The C text is a sequence of tokens; every literal the script searches  *)
(* for is one token:                                                       *)
(*   "M"  static const JSCFunctionListEntry gumjs_script_entries[] =       *)
(*   "A"  GUMJS_DECLARE_FUNCTION (gumjs_script_unbind_weak)                *)
(*   "F"  GUMJS_DEFINE_FUNCTION (gumjs_script_unbind_weak)                 *)
(*   "E"  JS_CFUNC_DEF ("loadBytecode", 0, gumjs_script_load_bytecode),    *)
(*   "D"  GUMJS_DECLARE_FUNCTION (gumjs_script_load_bytecode)              *)
(*   "I"  GUMJS_DEFINE_FUNCTION (gumjs_script_load_bytecode)               *)
(*   "N1" gum_es_asset_new(     "N2" gum_es_asset_new_take(                *)
(*   "{" "}" "\n" themselves, and "x" for any other text.                  *)
(* Positions are 0-based offsets as in Python; -1 is str.find's miss.     *)
(***************************************************************************)
EXTENDS Integers, Sequences, SequencesExt, FiniteSets

CONSTANTS
  Inputs,    \* the gumquickcore.c files the script may find
  MaxRuns,   \* how many builds run the script on the same checkout
  Tears      \* whether a crash may interrupt write_text

Toks == {"M", "A", "F", "E", "D", "I", "N1", "N2", "{", "}", "\n", "x"}

ASSUME InputsAssumption == Inputs \subseteq Seq(Toks) /\ Inputs # {}
ASSUME MaxRunsAssumption == MaxRuns \in Nat
ASSUME TearsAssumption == Tears \in BOOLEAN

\* ENTRY_TO_ADD and DECLARE_LINE (lines 13-14) end with a newline.
ENTRY_TO_ADD == <<"E", "\n">>
DECLARE_LINE == <<"D", "\n">>

(* build_function, lines 40-127: the function's header line, its body     *)
(* with a nested if-block, the allocator call of the variant body (lines  *)
(* 16-32) and the closing brace.                                           *)
Alloc(v) == IF v = 1 THEN "N1" ELSE "N2"
build_function(v) == <<"I", "\n", "{", "{", "}", Alloc(v), "\n", "}">>

\* `s in t` for str.
In(s, t) == s \in SubSeqs(t)

\* t.find(s, from): the first 0-based offset >= from where s starts, or -1.
find(t, s, from) ==
  LET C == {k \in from..(Len(t) - Len(s)) : SubSeq(t, k + 1, k + Len(s)) = s}
  IN  IF C = {} THEN -1 ELSE CHOOSE k \in C : \A c \in C : k <= c

\* The nesting depth after scanning offsets o+1..j, starting from depth 1.
ScanDepth(t, o, j) ==
  1 + Cardinality({k \in (o + 1)..j : t[k + 1] = "{"})
    - Cardinality({k \in (o + 1)..j : t[k + 1] = "}"})

(* find_matching_brace, lines 130-141: the first "}" at which the depth,  *)
(* counted naively from open_pos + 1, returns to 0, or -1.                 *)
find_matching_brace(t, o) ==
  LET C == {j \in (o + 1)..(Len(t) - 1) : t[j + 1] = "}" /\ ScanDepth(t, o, j) = 0}
  IN  IF C = {} THEN -1 ELSE CHOOSE j \in C : \A c \in C : j <= c

\* Mutant: text[:p] + s + text[p + 1:], the character at p overwritten.
SpliceOverwrite(t, p, s) == SubSeq(t, 1, p) \o s \o SubSeq(t, p + 2, Len(t))

\* text[:p] + s + text[p:]
Splice(t, p, s) == SubSeq(t, 1, p) \o s \o SubSeq(t, p + 1, Len(t))

VARIABLES
  file,        \* gumquickcore.c on disk
  text,        \* the copy being patched by the current run
  variant,     \* the allocator variant detected by the current run
  pc,          \* "idle" between runs, or the patch the current run is at
  runs,        \* runs started
  original,    \* the file before the first run
  written,     \* some run has written the file
  firstWrite   \* what the first successful run wrote

vars == <<file, text, variant, pc, runs, original, written, firstWrite>>

Init ==
  /\ file \in Inputs
  /\ text = <<>>
  /\ variant = 1
  /\ pc = "idle"
  /\ runs = 0
  /\ original = file
  /\ written = FALSE
  /\ firstWrite = <<>>

\* die(...): the run ends with the file untouched.
Die ==
  /\ pc' = "idle"
  /\ UNCHANGED <<file, text, variant, runs, original, written, firstWrite>>

\* Mutant: "gum_es_asset_new" tested before "gum_es_asset_new_take".
StartNewFirst ==
  /\ pc = "idle"
  /\ runs < MaxRuns
  /\ runs' = runs + 1
  /\ text' = file
  /\ \/ /\ "N1" \in Range(file) \/ "N2" \in Range(file)
        /\ variant' = IF "N1" \in Range(file) \/ "N2" \in Range(file) THEN 1 ELSE 2
        /\ pc' = "p1"
     \/ /\ "N1" \notin Range(file) /\ "N2" \notin Range(file)
        /\ pc' = "idle"
        /\ UNCHANGED variant
  /\ UNCHANGED <<file, original, written, firstWrite>>

\* Mutant: die() returns, and detect_variant's None is taken as the variant.
StartDieReturns ==
  /\ pc = "idle"
  /\ runs < MaxRuns
  /\ runs' = runs + 1
  /\ text' = file
  /\ \/ /\ "N2" \in Range(file)
        /\ variant' = 2
     \/ /\ "N2" \notin Range(file) /\ "N1" \in Range(file)
        /\ variant' = 1
     \/ /\ "N1" \notin Range(file) /\ "N2" \notin Range(file)
        /\ variant' = 0
  /\ pc' = "p1"
  /\ UNCHANGED <<file, original, written, firstWrite>>

(* main, lines 156-178: the file is read, and detect_variant (144-153)    *)
(* picks 2 if "gum_es_asset_new_take" occurs, else 1 if                    *)
(* "gum_es_asset_new" occurs (which the take form also contains), else    *)
(* the run dies.                                                           *)
Start ==
  /\ pc = "idle"
  /\ runs < MaxRuns
  /\ runs' = runs + 1
  /\ text' = file
  /\ \/ /\ "N2" \in Range(file)
        /\ variant' = 2
        /\ pc' = "p1"
     \/ /\ "N2" \notin Range(file) /\ "N1" \in Range(file)
        /\ variant' = 1
        /\ pc' = "p1"
     \/ /\ "N1" \notin Range(file) /\ "N2" \notin Range(file)
        /\ pc' = "idle"
        /\ UNCHANGED variant
  /\ UNCHANGED <<file, original, written, firstWrite>>

\* The offset of the closing brace of gumjs_script_entries, or -1.
EntriesClose(t) ==
  LET mpos == find(t, <<"M">>, 0)
      ob   == find(t, <<"{">>, mpos)
  IN  IF mpos = -1 \/ ob = -1 THEN -1 ELSE find_matching_brace(t, ob)

\* Mutant: the entry is inserted after the closing brace.
Patch1AfterBrace ==
  /\ pc = "p1"
  /\ \/ In(ENTRY_TO_ADD, text) /\ UNCHANGED text
     \/ /\ ~In(ENTRY_TO_ADD, text)
        /\ EntriesClose(text) # -1
        /\ text' = Splice(text, EntriesClose(text) + 1, ENTRY_TO_ADD)
  /\ pc' = "p2"
  /\ UNCHANGED <<file, variant, runs, original, written, firstWrite>>

(* Patch 1, lines 181-199: unless ENTRY_TO_ADD occurs, it is inserted     *)
(* just before the brace closing the gumjs_script_entries array.           *)
Patch1 ==
  /\ pc = "p1"
  /\ \/ In(ENTRY_TO_ADD, text) /\ UNCHANGED text
     \/ /\ ~In(ENTRY_TO_ADD, text)
        /\ EntriesClose(text) # -1
        /\ text' = Splice(text, EntriesClose(text), ENTRY_TO_ADD)
  /\ pc' = "p2"
  /\ UNCHANGED <<file, variant, runs, original, written, firstWrite>>

\* Lines 184-193: the marker, its "{" or its matching "}" is missing.
Patch1Die ==
  /\ pc = "p1"
  /\ ~In(ENTRY_TO_ADD, text)
  /\ EntriesClose(text) = -1
  /\ Die

\* Mutant: the declaration is added whether or not it is present.
Patch2Always ==
  /\ pc = "p2"
  /\ find(text, <<"A">>, 0) # -1
  /\ text' = Splice(text, find(text, <<"\n">>, find(text, <<"A">>, 0)) + 1, DECLARE_LINE)
  /\ pc' = "p3"
  /\ UNCHANGED <<file, variant, runs, original, written, firstWrite>>

\* Mutant: the declaration is inserted at the newline, not after it.
Patch2AtNewline ==
  /\ pc = "p2"
  /\ \/ In(DECLARE_LINE, text) /\ UNCHANGED text
     \/ /\ ~In(DECLARE_LINE, text)
        /\ find(text, <<"A">>, 0) # -1
        /\ text' = Splice(text, find(text, <<"\n">>, find(text, <<"A">>, 0)), DECLARE_LINE)
  /\ pc' = "p3"
  /\ UNCHANGED <<file, variant, runs, original, written, firstWrite>>

(* Patch 2, lines 202-212: unless DECLARE_LINE occurs, it is inserted     *)
(* after the first newline that follows the unbind_weak declaration;      *)
(* insert_pos = find("\n", idx) + 1 is 0 when that newline is missing.    *)
Patch2 ==
  /\ pc = "p2"
  /\ \/ In(DECLARE_LINE, text) /\ UNCHANGED text
     \/ /\ ~In(DECLARE_LINE, text)
        /\ find(text, <<"A">>, 0) # -1
        /\ text' = Splice(text, find(text, <<"\n">>, find(text, <<"A">>, 0)) + 1, DECLARE_LINE)
  /\ pc' = "p3"
  /\ UNCHANGED <<file, variant, runs, original, written, firstWrite>>

\* Lines 205-206: the declaration anchor is missing.
Patch2Die ==
  /\ pc = "p2"
  /\ ~In(DECLARE_LINE, text)
  /\ find(text, <<"A">>, 0) = -1
  /\ Die

(* The offset of the brace closing the unbind_weak function: find("{",    *)
(* idx) is not checked (line 221), so a -1 there starts the scan at 0.    *)
FuncClose(t) ==
  LET idx == find(t, <<"F">>, 0)
  IN  IF idx = -1 THEN -1 ELSE find_matching_brace(t, find(t, <<"{">>, idx))

\* Mutant: the function is inserted before the closing brace.
Patch3AtBrace ==
  /\ pc = "p3"
  /\ \/ In(<<"I">>, text) /\ UNCHANGED text
     \/ /\ ~In(<<"I">>, text)
        /\ FuncClose(text) # -1
        /\ text' = Splice(text, FuncClose(text),
                          <<"\n", "\n">> \o build_function(variant) \o <<"\n">>)
  /\ pc' = "write"
  /\ UNCHANGED <<file, variant, runs, original, written, firstWrite>>

(* Patch 3, lines 215-230: unless the new function's header occurs, the  *)
(* function is inserted after the brace closing gumjs_script_unbind_weak, *)
(* framed by "\n\n" and "\n".                                              *)
Patch3 ==
  /\ pc = "p3"
  /\ \/ In(<<"I">>, text) /\ UNCHANGED text
     \/ /\ ~In(<<"I">>, text)
        /\ FuncClose(text) # -1
        /\ text' = Splice(text, FuncClose(text) + 1,
                          <<"\n", "\n">> \o build_function(variant) \o <<"\n">>)
  /\ pc' = "write"
  /\ UNCHANGED <<file, variant, runs, original, written, firstWrite>>

\* Lines 216-224: the function anchor or the end of its body is missing.
Patch3Die ==
  /\ pc = "p3"
  /\ ~In(<<"I">>, text)
  /\ FuncClose(text) = -1
  /\ Die

\* Line 232: write_text; the first successful run's result is remembered.
Write ==
  /\ pc = "write"
  /\ file' = text
  /\ pc' = "idle"
  /\ written' = TRUE
  /\ firstWrite' = IF written THEN firstWrite ELSE text
  /\ UNCHANGED <<text, variant, runs, original>>

(* Line 232 cut short: Path.write_text opens the file with "w", which    *)
(* truncates it, and then writes the text, so a crash (Ctrl-C, a killed   *)
(* build, a full disk) leaves a proper prefix of the text on disk.  The   *)
(* next build runs the script on that prefix.                              *)
TornWrite ==
  /\ Tears
  /\ pc = "write"
  /\ \E n \in 0..(Len(text) - 1) : file' = SubSeq(text, 1, n)
  /\ pc' = "idle"
  /\ UNCHANGED <<text, variant, runs, original, written, firstWrite>>

Next ==
  \/ Start
  \/ Patch1 \/ Patch1Die
  \/ Patch2 \/ Patch2Die
  \/ Patch3 \/ Patch3Die
  \/ Write \/ TornWrite

Spec == Init /\ [][Next]_vars

-----------------------------------------------------------------------------
\* The number of places at which s occurs in t.
Occurrences(t, s) ==
  Cardinality({k \in 0..(Len(t) - Len(s)) : SubSeq(t, k + 1, k + Len(s)) = s})

\* The brace depth of the C text in front of offset p.
Depth(t, p) ==
  Cardinality({k \in 1..p : t[k] = "{"}) - Cardinality({k \in 1..p : t[k] = "}"})

(* Type invariant.                                                         *)
TypeOK ==
  /\ file \in Seq(Toks)
  /\ text \in Seq(Toks)
  /\ variant \in {1, 2}
  /\ pc \in {"idle", "p1", "p2", "p3", "write"}
  /\ runs \in 0..MaxRuns
  /\ original \in Inputs
  /\ written \in BOOLEAN
  /\ firstWrite \in Seq(Toks)

(* Spec 4.1 and 5, idempotence: the builder runs the script on every      *)
(* build of a kept checkout; once a run has written gumquickcore.c, every *)
(* later run finds all three literals of lines 181, 202 and 215 and       *)
(* writes back the very same text.                                         *)
PatchIdempotent ==
  written => file = firstWrite

(* Spec 4.1, the three insertion strategies: a patched file holds the     *)
(* entry, the declaration and the function exactly once each; the entry   *)
(* directly inside the braces of gumjs_script_entries (Patch 1), the      *)
(* declaration on a line of its own before the array that uses it        *)
(* (Patch 2), and the function at top level after unbind_weak (Patch 3).  *)
PatchPlacement ==
  written =>
    LET t == file
        e == find(t, <<"E">>, 0)
        d == find(t, <<"D">>, 0)
        i == find(t, <<"I">>, 0)
        m == find(t, <<"M">>, 0)
    IN  /\ \A s \in {<<"E">>, <<"D">>, <<"I">>} : Occurrences(t, s) = 1
        /\ m < e /\ Depth(t, e) = Depth(t, m) + 1
        /\ d < m /\ (d = 0 \/ t[d] = "\n")
        /\ find(t, <<"F">>, 0) < i /\ Depth(t, i) = 0

(* detect_variant (lines 144-153) must pick the allocator the file uses:  *)
(* the function added by Patch 3 calls no allocator that the original     *)
(* gumquickcore.c does not call.                                           *)
VariantMatches ==
  {"N1", "N2"} \cap Range(file) \subseteq Range(original)

(* Spec 4.1, "inserts new declarations/definitions exactly once": however *)
(* builds are interrupted, also inside write_text, no patch literal is    *)
(* ever on disk twice.  A rerun on a cut file either finds the literal    *)
(* (lines 181, 202, 215) or, when the cut came before it, dies on the     *)
(* anchor's brace that the cut removed.                                    *)
PatchesAtMostOnce ==
  \A s \in {<<"E">>, <<"D">>, <<"I">>} : Occurrences(file, s) <= 1

\* s is a subsequence of t: t is s with tokens inserted.
Embeds(t, s) ==
  LET e[i \in 0..Len(s), j \in 0..Len(t)] ==
        IF i = 0 THEN TRUE
        ELSE IF j = 0 THEN FALSE
        ELSE IF s[i] = t[j] THEN e[i - 1, j - 1]
        ELSE e[i, j - 1]
  IN  e[Len(s), Len(t)]

(* Spec section 7: a failed patch run does not corrupt the file ("operate *)
(* on a copy, fail before committing"), and a run that reaches line 232   *)
(* reports "patch complete".  Spec 4.1: insertion never perturbs the     *)
(* content around it.  So every write of a completed run is the file as   *)
(* it was before the first run with text inserted, and nothing lost.      *)
CompletedRunKeepsSource ==
  [][Write => Embeds(file', original)]_vars
=============================================================================
