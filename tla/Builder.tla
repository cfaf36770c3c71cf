------------------------------- MODULE Builder -------------------------------
(***************************************************************************)
(* The build pipeline of src/BatmanSecurer/frida_builder.py (main, lines  *)
(* 694-718) over the files it leaves behind, run again and again on the   *)
(* same output directory.  A run may end at any point between two steps:  *)
(* a die() (the user declines at the overview), an exception of a         *)
(* subprocess, a Ctrl-C or a lost machine all stop the process and leave  *)
(* the files as they are.  The next run starts from those files.          *)
(*                                                                         *)
(* Files are abstracted to what the steps test: which patches are in,     *)
(* how many of the tarball's top-level entries have reached the quickjs   *)
(* directory, and, for quickjs-opcode.h and stuff.h, the run that wrote   *)
(* them (0: as shipped).  A binary is the pair of the opcode layout and   *)
(* the key material it was compiled from.                                  *)
(***************************************************************************)
EXTENDS Integers, FiniteSets

CONSTANTS
  Configs,   \* the configurations the user may give a run
  TarItems,  \* top-level entries of deps/quickjs.tar.gz
  CPUs,      \* the values os.cpu_count() may return
  MaxRuns,   \* runs of the builder on one output directory
  Tears      \* whether a crash may cut a clone or a file write short

Targets == {"server", "gadget"}
Tools == {"comper", "dihcomper"}

\* The options of a configuration the pipeline acts on.
ConfigType ==
  [shuffle : BOOLEAN, key : BOOLEAN, comper : BOOLEAN, dih : BOOLEAN,
   server : BOOLEAN, gadget : BOOLEAN]

ASSUME ConfigsAssumption == Configs \subseteq ConfigType /\ Configs # {}
ASSUME TarItemsAssumption == TarItems \in Nat \ {0}
ASSUME CPUsAssumption == CPUs \subseteq Nat \ {0} /\ CPUs # {}
ASSUME MaxRunsAssumption == MaxRuns \in Nat
ASSUME TearsAssumption == Tears \in BOOLEAN

\* What a binary was compiled from, or None.
Src == [opc : 0..MaxRuns, stuff : 0..MaxRuns]
None == [opc |-> -1, stuff |-> -1]

(* The steps of main (lines 705-716), each mapped to the one after it;    *)
(* the run ends after fetch.  build is configure, make its second half.    *)
After ==
  [clone |-> "gum", gum |-> "wrap", wrap |-> "meson", meson |-> "quickjs",
   quickjs |-> "shuffle", shuffle |-> "stuff", stuff |-> "comper",
   comper |-> "dihcomper", dihcomper |-> "build", build |-> "make",
   make |-> "fetch", fetch |-> "idle"]

\* The steps of main, the domain of After.
Steps ==
  {"clone", "gum", "wrap", "meson", "quickjs", "shuffle", "stuff", "comper",
   "dihcomper", "build", "make", "fetch"}

VARIABLES
  step,      \* "idle" (no process), a step of Steps, or "qjs_move", "qjs_item", "qjs_rmdir"
  cfg,       \* the configuration of the current run
  runs,      \* runs started
  checkout,  \* the output directory: "none", "partial" (a clone cut short) or "full"
  gum,       \* gumquickcore.c carries the loadBytecode patch
  wrap,      \* subprojects/quickjs.wrap exists
  meson,     \* frida-gum/meson.build: "orig", "patched", or cut short by a
             \* crash in write_text after ("torn") or before ("torn_bare") the marker
  qjs,       \* entries in subprojects/quickjs, -1 if the directory is absent
  tmp,       \* entries in __quickjs_tmp__, -1 if it is absent
  opc,       \* the run that wrote quickjs-opcode.h in the quickjs directory
  stuff,     \* the run that wrote stuff.h there, 0 if there is none
  tool,      \* comper and dihcomper in the quickjs directory
  buildDir,  \* the build directory exists
  conf,      \* the targets the build directory was configured for
  bin,       \* the binaries in the build directory
  jobs,      \* the -j of the last make
  built,     \* the binaries and tools copied to built/
  backup     \* the headers copied to built/backups

vars == <<step, cfg, runs, checkout, gum, wrap, meson, qjs, tmp, opc, stuff, tool,
          buildDir, conf, bin, jobs, built, backup>>

\* The sources as they are now.
Cur == [opc |-> opc, stuff |-> stuff]

(* Before the first run the output directory does not exist; the other   *)
(* values are those of the fresh checkout the first clone makes.          *)
Init ==
  /\ step = "idle"
  /\ cfg \in Configs
  /\ runs = 0
  /\ checkout = "none"
  /\ gum = FALSE
  /\ wrap = TRUE
  /\ meson = "orig"
  /\ qjs = -1
  /\ tmp = -1
  /\ opc = 0
  /\ stuff = 0
  /\ tool = [t \in Tools |-> None]
  /\ buildDir = FALSE
  /\ conf = {}
  /\ bin = [t \in Targets |-> None]
  /\ jobs = 1
  /\ built = [t \in Targets \cup Tools |-> None]
  /\ backup = None

\* The step s is done or skipped; main goes on.
Done(s) == step = s /\ step' = After[s]

(* main, lines 694-706: the configuration is read and shown, and the user *)
(* confirms it (display_intro, 203-204) or the run dies.                   *)
Start ==
  /\ step = "idle"
  /\ runs < MaxRuns
  /\ runs' = runs + 1
  /\ cfg' \in Configs
  /\ step' \in {"clone", "idle"}
  /\ UNCHANGED <<checkout, gum, wrap, meson, qjs, tmp, opc, stuff, tool, buildDir, conf,
                 bin, jobs, built, backup>>

(* The process stops between two steps: die(), an exception of run()      *)
(* (check=True), Ctrl-C or a crash.  Nothing is cleaned up.                *)
Crash ==
  /\ step # "idle"
  /\ step' = "idle"
  /\ UNCHANGED <<cfg, runs, checkout, gum, wrap, meson, qjs, tmp, opc, stuff, tool,
                 buildDir, conf, bin, jobs, built, backup>>

(* clone_frida, lines 210-220: an existing output directory is kept,     *)
(* whatever it holds; otherwise git clone --recursive makes the checkout. *)
Clone ==
  /\ Done("clone")
  /\ checkout' = IF checkout = "none" THEN "full" ELSE checkout
  /\ UNCHANGED <<cfg, runs, gum, wrap, meson, qjs, tmp, opc, stuff, tool,
                 buildDir, conf, bin, jobs, built, backup>>

(* Lines 214-220 cut short: git clone killed while it fetches the         *)
(* submodules leaves the output directory without frida-gum's sources.    *)
CloneTorn ==
  /\ Tears
  /\ step = "clone"
  /\ checkout = "none"
  /\ checkout' = "partial"
  /\ step' = "idle"
  /\ UNCHANGED <<cfg, runs, gum, wrap, meson, qjs, tmp, opc, stuff, tool,
                 buildDir, conf, bin, jobs, built, backup>>

(* run_gum_quick_patcher, lines 575-582: the patcher adds its three       *)
(* patches or finds them present (GumQuickPatcher models it).  In a       *)
(* partial checkout gumquickcore.c is missing: the patcher dies, run()    *)
(* raises, and only Crash is left.                                         *)
Gum ==
  /\ Done("gum")
  /\ checkout = "full"
  /\ gum' = TRUE
  /\ UNCHANGED <<cfg, runs, checkout, wrap, meson, qjs, tmp, opc, stuff, tool,
                 buildDir, conf, bin, jobs, built, backup>>

\* remove_quickjs_wrap, lines 290-294.
Wrap ==
  /\ Done("wrap")
  /\ wrap' = FALSE
  /\ UNCHANGED <<cfg, runs, checkout, gum, meson, qjs, tmp, opc, stuff, tool,
                 buildDir, conf, bin, jobs, built, backup>>

\* Mutant: the # _PATCHED_ check of lines 230-232 left out.
MesonNoSkip ==
  /\ step = "meson"
  /\ \/ meson = "orig" /\ meson' = "patched" /\ step' = "quickjs"
     \/ meson # "orig" /\ step' = "idle" /\ UNCHANGED meson
  /\ UNCHANGED <<cfg, runs, checkout, gum, wrap, qjs, tmp, opc, stuff, tool,
                 buildDir, conf, bin, jobs, built, backup>>

(* patch_meson_build, lines 223-252: skipped when the # _PATCHED_ marker *)
(* is there (lines 230-232), else the dependency block is replaced and    *)
(* the file written.                                                       *)
Meson ==
  /\ Done("meson")
  /\ meson \in {"orig", "patched", "torn"}
  /\ meson' = IF meson = "orig" THEN "patched" ELSE meson
  /\ UNCHANGED <<cfg, runs, checkout, gum, wrap, qjs, tmp, opc, stuff, tool,
                 buildDir, conf, bin, jobs, built, backup>>

(* Line 251 cut short: write_text truncates meson.build and writes the    *)
(* new lines; a crash leaves a prefix, with or without the first marker   *)
(* line of QUICKJS_REPLACEMENT.                                            *)
MesonTorn ==
  /\ Tears
  /\ step = "meson"
  /\ meson = "orig"
  /\ meson' \in {"torn", "torn_bare"}
  /\ step' = "idle"
  /\ UNCHANGED <<cfg, runs, checkout, gum, wrap, qjs, tmp, opc, stuff, tool,
                 buildDir, conf, bin, jobs, built, backup>>

(* Lines 249-250: a prefix cut before the marker has lost the dependency  *)
(* line too, so "Failed to find QuickJS dependency block" and die().      *)
MesonDie ==
  /\ step = "meson"
  /\ meson = "torn_bare"
  /\ step' = "idle"
  /\ UNCHANGED <<cfg, runs, checkout, gum, wrap, meson, qjs, tmp, opc, stuff, tool,
                 buildDir, conf, bin, jobs, built, backup>>

(* setup_quickjs, lines 254-276: skipped when the quickjs directory      *)
(* exists; else the tarball is extracted into __quickjs_tmp__ (created   *)
(* with exist_ok, and overwritten entry by entry), which then holds its   *)
(* TarItems entries, with the shipped quickjs-opcode.h.                   *)
SetupQuickjs ==
  /\ step = "quickjs"
  /\ \/ /\ qjs >= 0
        /\ step' = "shuffle"
        /\ UNCHANGED <<tmp, opc>>
     \/ /\ qjs = -1
        /\ tmp' = TarItems
        /\ opc' = 0
        /\ step' = "qjs_move"
  /\ UNCHANGED <<cfg, runs, checkout, gum, wrap, meson, qjs, stuff, tool,
                 buildDir, conf, bin, jobs, built, backup>>

\* Mutant: the single-directory rename of lines 279-280 left out.
SetupPlaceNoRename ==
  /\ step = "qjs_move"
  /\ qjs' = 0
  /\ step' = "qjs_item"
  /\ UNCHANGED <<tmp, cfg, runs, checkout, gum, wrap, meson, opc, stuff, tool,
                 buildDir, conf, bin, jobs, built, backup>>

(* Lines 278-282: a single directory is renamed to quickjs at once;      *)
(* otherwise quickjs is created empty and the entries are moved one by    *)
(* one.                                                                    *)
SetupPlace ==
  /\ step = "qjs_move"
  /\ \/ /\ tmp = 1
        /\ qjs' = 1
        /\ tmp' = 0
        /\ step' = "qjs_rmdir"
     \/ /\ tmp # 1
        /\ qjs' = 0
        /\ step' = "qjs_item"
        /\ UNCHANGED tmp
  /\ UNCHANGED <<cfg, runs, checkout, gum, wrap, meson, opc, stuff, tool,
                 buildDir, conf, bin, jobs, built, backup>>

\* Lines 283-284: one entry is moved into quickjs.
SetupMoveItem ==
  /\ step = "qjs_item"
  /\ tmp > 0
  /\ qjs' = qjs + 1
  /\ tmp' = tmp - 1
  /\ UNCHANGED <<step, cfg, runs, checkout, gum, wrap, meson, opc, stuff, tool,
                 buildDir, conf, bin, jobs, built, backup>>

\* Line 285: the emptied temporary directory is removed.
SetupRmdir ==
  /\ \/ step = "qjs_rmdir"
     \/ step = "qjs_item" /\ tmp = 0
  /\ tmp' = -1
  /\ step' = "shuffle"
  /\ UNCHANGED <<cfg, runs, checkout, gum, wrap, meson, qjs, opc, stuff, tool,
                 buildDir, conf, bin, jobs, built, backup>>
(* maybe_shuffle_opcodes, lines 364-382: when shuffle_opcodes is set    *)
(* and the user confirms, shuffler.py writes a new layout, built from the *)
(* shipped table, into quickjs-opcode.h.                                   *)
Shuffle ==
  /\ Done("shuffle")
  /\ \/ cfg.shuffle /\ opc' = runs
     \/ UNCHANGED opc
  /\ UNCHANGED <<cfg, runs, checkout, gum, wrap, meson, qjs, tmp, stuff, tool,
                 buildDir, conf, bin, jobs, built, backup>>

(* generate_stuff_h, lines 388-489 (StuffH models its body): with a key   *)
(* configured and the user's consent, a new stuff.h is written.           *)
Stuff ==
  /\ Done("stuff")
  /\ \/ cfg.key /\ stuff' = runs
     \/ UNCHANGED stuff
  /\ UNCHANGED <<cfg, runs, checkout, gum, wrap, meson, qjs, tmp, opc, tool,
                 buildDir, conf, bin, jobs, built, backup>>

\* The configuration option that asks for tool t.
Wants(t) == IF t = "comper" THEN cfg.comper ELSE cfg.dih

(* maybe_build_custom_compiler and maybe_build_custom_dihcompiler, lines *)
(* 495-532 and 534-573: when asked for and confirmed, the tool is         *)
(* compiled in the quickjs directory from its sources as they are now.    *)
BuildTool(t) ==
  /\ Done(t)
  /\ \/ Wants(t) /\ tool' = [tool EXCEPT ![t] = Cur]
     \/ UNCHANGED tool
  /\ UNCHANGED <<cfg, runs, checkout, gum, wrap, meson, qjs, tmp, opc, stuff,
                 buildDir, conf, bin, jobs, built, backup>>

\* The targets a configuration enables (the --enable-* flags, 312-321).
Enabled(c) == {t \in Targets : c[t]}

\* Mutant: make sits under "if run_configure", so a reused directory is not rebuilt.
ConfigureReuseSkipsMake ==
  /\ step = "build"
  /\ \/ /\ buildDir
        /\ step' = "fetch"
        /\ UNCHANGED <<buildDir, conf, bin>>
     \/ /\ meson = "patched"
        /\ buildDir' = TRUE
        /\ conf' = Enabled(cfg)
        /\ bin' = [t \in Targets |-> None]
        /\ step' = "make"
  /\ UNCHANGED <<cfg, runs, checkout, gum, wrap, meson, qjs, tmp, opc, stuff, tool,
                 jobs, built, backup>>

(* build, lines 306-346: an existing build directory is reused (configure *)
(* skipped) or wiped and configured again; a missing one is configured.   *)
(* meson fails on a cut meson.build: run() raises and only Crash is left. *)
Configure ==
  /\ Done("build")
  /\ \/ /\ buildDir
        /\ UNCHANGED <<buildDir, conf, bin>>
     \/ /\ meson = "patched"
        /\ buildDir' = TRUE
        /\ conf' = Enabled(cfg)
        /\ bin' = [t \in Targets |-> None]
  /\ UNCHANGED <<cfg, runs, checkout, gum, wrap, meson, qjs, tmp, opc, stuff, tool,
                 jobs, built, backup>>

\* Mutant: the division of line 354 without max(1, ...).
MakeNoFloor ==
  /\ Done("make")
  /\ meson = "patched"
  /\ \E n \in CPUs : jobs' = n \div 2
  /\ bin' = [t \in Targets |-> IF t \in conf THEN Cur ELSE bin[t]]
  /\ UNCHANGED <<cfg, runs, checkout, gum, wrap, meson, qjs, tmp, opc, stuff, tool,
                 buildDir, conf, built, backup>>

(* Lines 354-356: make -j max(1, cpu_count / 2) rebuilds every target the *)
(* build directory is configured for from the sources as they are now     *)
(* (and fails, raising in run(), if meson.build is cut short).            *)
Make ==
  /\ Done("make")
  /\ meson = "patched"
  /\ \E n \in CPUs : jobs' = IF n \div 2 > 1 THEN n \div 2 ELSE 1
  /\ bin' = [t \in Targets |-> IF t \in conf THEN Cur ELSE bin[t]]
  /\ UNCHANGED <<cfg, runs, checkout, gum, wrap, meson, qjs, tmp, opc, stuff, tool,
                 buildDir, conf, built, backup>>

(* fetch_built_artifacts, lines 584-688: an enabled target's binary is    *)
(* copied if it exists; comper whenever it exists; dihcomper if enabled   *)
(* and present; and quickjs-opcode.h and stuff.h when they exist.         *)
Fetch ==
  /\ Done("fetch")
  /\ built' = [t \in Targets \cup Tools |->
                 IF \/ t \in Targets /\ cfg[t] /\ bin[t] # None
                    \/ t = "comper" /\ tool[t] # None
                    \/ t = "dihcomper" /\ cfg.dih /\ tool[t] # None
                 THEN IF t \in Targets THEN bin[t] ELSE tool[t]
                 ELSE built[t]]
  /\ backup' = [opc |-> IF qjs >= 1 THEN opc ELSE backup.opc,
                stuff |-> IF stuff > 0 THEN stuff ELSE backup.stuff]
  /\ UNCHANGED <<cfg, runs, checkout, gum, wrap, meson, qjs, tmp, opc, stuff, tool,
                 buildDir, conf, bin, jobs>>

Next ==
  \/ Start \/ Crash
  \/ Clone \/ CloneTorn \/ Gum \/ Wrap \/ Meson \/ MesonTorn \/ MesonDie
  \/ SetupQuickjs \/ SetupPlace \/ SetupMoveItem \/ SetupRmdir
  \/ Shuffle \/ Stuff \/ \E t \in Tools : BuildTool(t)
  \/ Configure \/ Make \/ Fetch

Spec == Init /\ [][Next]_vars

(* A step of the last run the user allows that ends the run other than    *)
(* by main returning after fetch: a decline, a die(), an exception or a  *)
(* crash.                                                                  *)
LastRunStopped == runs' = MaxRuns /\ step' = "idle" /\ step # "fetch"

(* The user reruns the builder after each interruption, and the last run  *)
(* is not interrupted from outside.  main is one sequential process: a    *)
(* step that can be taken is not put off forever (weak fairness).  A run  *)
(* that the code itself stops (a die() or a failing command) is then      *)
(* stuck, which LastRunCompletes reports.                                  *)
LiveSpec == Init /\ [][Next /\ ~LastRunStopped]_vars /\ WF_vars(Next /\ ~LastRunStopped)

-----------------------------------------------------------------------------
(* Type invariant.                                                         *)
TypeOK ==
  /\ step \in Steps \cup {"idle", "qjs_move", "qjs_item", "qjs_rmdir"}
  /\ cfg \in Configs
  /\ runs \in 0..MaxRuns
  /\ checkout \in {"none", "partial", "full"}
  /\ gum \in BOOLEAN /\ wrap \in BOOLEAN
  /\ meson \in {"orig", "patched", "torn", "torn_bare"}
  /\ qjs \in -1..TarItems /\ tmp \in -1..TarItems
  /\ opc \in 0..MaxRuns /\ stuff \in 0..MaxRuns
  /\ tool \in [Tools -> Src \cup {None}]
  /\ buildDir \in BOOLEAN
  /\ conf \subseteq Targets
  /\ bin \in [Targets -> Src \cup {None}]
  /\ jobs \in Nat \ {0}
  /\ built \in [Targets \cup Tools -> Src \cup {None}]
  /\ backup \in [opc : -1..MaxRuns, stuff : -1..MaxRuns]

(* setup_quickjs skips extraction whenever subprojects/quickjs exists     *)
(* (lines 257-259, "QuickJS already present").  For that to be right, a  *)
(* run that gets past it, over any number of earlier runs stopped at any  *)
(* point, finds the whole tarball in place: every step that reads the     *)
(* quickjs directory (shuffle, stuff.h, the tools, the build, the backup) *)
(* sees all TarItems entries.                                              *)
QuickjsCompleteWhenUsed ==
  step \in {"shuffle", "stuff", "comper", "dihcomper", "build", "make", "fetch"}
    => qjs = TarItems

(* When fetch_built_artifacts copies, every target the build directory   *)
(* is configured for was compiled from the opcode layout and stuff.h now *)
(* in the quickjs directory, also when the build directory was reused    *)
(* and configure skipped (lines 337-346).                                 *)
BuiltFromCurrentSources ==
  step = "fetch" => \A t \in conf : bin[t] = Cur

\* The backups b hold the layout of source s, and its stuff.h if it had one.
Describes(b, s) == b.opc = s.opc /\ (s.stuff > 0 => b.stuff = s.stuff)

(* built/backups/WHAT_ARE_THESE.md (lines 669-685): the backed-up         *)
(* quickjs-opcode.h and stuff.h "allow you to rebuild Frida exactly as it *)
(* was produced for this build".  So between runs every binary and tool   *)
(* in built/ was compiled from the backed-up layout and key material.     *)
BackupsDescribeBuilt ==
  step = "idle" =>
    \A t \in Targets \cup Tools : built[t] # None => Describes(backup, built[t])

(* The quickjs directory as setup_quickjs promises it to the later steps. *)
QD == INSTANCE QuickjsDir WITH dir <- qjs

(* setup_quickjs makes subprojects/quickjs appear whole in one step and   *)
(* never touches it again (QuickjsDir), however runs are interrupted: the *)
(* "already present" test of line 257 is only sound if no run can stop    *)
(* while the directory exists but is incomplete.                           *)
QuickjsAtomic == QD!Spec

(* Every step of main checks what an earlier run left before it acts     *)
(* (clone_frida, patch_meson_build, setup_quickjs and build skip what is  *)
(* there, lines 211, 230, 257, 338): so after any number of runs stopped  *)
(* at any point, a run left alone gets through every step and fetches     *)
(* the build.                                                              *)
LastRunCompletes == <>(runs = MaxRuns /\ step = "fetch")
=============================================================================
