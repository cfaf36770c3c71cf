---------------------------- MODULE BuilderProofs ----------------------------
(***************************************************************************)
(* Proofs about Builder for every set of configurations, every number of  *)
(* runs and processor counts, and every way runs are cut short.            *)
(***************************************************************************)
EXTENDS Builder, TLAPS

\* The steps after setup_quickjs, which read the quickjs directory.
Later == {"shuffle", "stuff", "comper", "dihcomper", "build", "make", "fetch"}

LEMMA InitTypeOK == Init => TypeOK
<1> SUFFICES ASSUME Init PROVE TypeOK
  OBVIOUS
<1>1. None \in Src \cup {None}
  OBVIOUS
<1>2. tool \in [Tools -> Src \cup {None}] /\ bin \in [Targets -> Src \cup {None}]
      /\ built \in [Targets \cup Tools -> Src \cup {None}]
  BY <1>1 DEF Init
<1>3. backup \in [opc : -1..MaxRuns, stuff : -1..MaxRuns]
  BY MaxRunsAssumption DEF Init, None
<1>4. gum \in BOOLEAN /\ wrap \in BOOLEAN /\ buildDir \in BOOLEAN
  BY Zenon DEF Init
<1>5. QED BY <1>2, <1>3, <1>4, MaxRunsAssumption, TarItemsAssumption
          DEF Init, TypeOK, After

\* A binary compiled now records sources of Src.
LEMMA CurType == TypeOK => Cur \in Src
BY DEF TypeOK, Cur, Src

\* Every step of main is followed by a step of main or by the end of the run.
LEMMA StepAfter ==
  ASSUME NEW s \in Steps
  PROVE  After[s] \in Steps \cup {"idle"}
BY DEF After, Steps

\* A step that is done leaves step in its type.
LEMMA DoneStep ==
  ASSUME NEW s \in Steps, Done(s)
  PROVE  step' \in Steps \cup {"idle", "qjs_move", "qjs_item", "qjs_rmdir"}
BY StepAfter DEF Done

(***************************************************************************)
(* TypeOK is not inductive: the loop of lines 283-284 moves one entry at  *)
(* a time, and only the count of the entries still to move keeps quickjs  *)
(* within the tarball.  The strengthening: when the entries are placed,   *)
(* the temporary directory holds the whole tarball, and during the loop   *)
(* the entries moved and those left add up to it.                         *)
(***************************************************************************)
TInv ==
  /\ TypeOK
  /\ step = "qjs_move" => tmp = TarItems
  /\ step = "qjs_item" => qjs >= 0 /\ tmp >= 0 /\ qjs + tmp = TarItems

LEMMA NextTypeOK == TInv /\ [Next]_vars => TypeOK'
<1> SUFFICES ASSUME TInv, [Next]_vars PROVE TypeOK'
  BY DEF TInv
<1> USE DEF TInv
<1> USE MaxRunsAssumption, TarItemsAssumption
<1>1. CASE Start
  <2>1. (gum \in BOOLEAN /\ wrap \in BOOLEAN /\ buildDir \in BOOLEAN)'
    BY <1>1, Zenon DEF Start, TypeOK
  <2>2. QED BY <1>1, <2>1 DEF Start, TypeOK, Steps
<1>2. CASE Crash
  <2>1. (gum \in BOOLEAN /\ wrap \in BOOLEAN /\ buildDir \in BOOLEAN)'
    BY <1>2, Zenon DEF Crash, TypeOK
  <2>2. QED BY <1>2, <2>1 DEF Crash, TypeOK
<1>22. CASE CloneTorn \/ MesonTorn \/ MesonDie
  <2>1. (gum \in BOOLEAN /\ wrap \in BOOLEAN /\ buildDir \in BOOLEAN)'
    BY <1>22, Zenon DEF CloneTorn, MesonTorn, MesonDie, TypeOK
  <2>2. QED BY <1>22, <2>1 DEF CloneTorn, MesonTorn, MesonDie, TypeOK
<1>3. ASSUME NEW s \in Steps, Done(s),
             UNCHANGED <<cfg, runs, qjs, tmp, opc, stuff, tool, buildDir,
                         conf, bin, jobs, built, backup>>,
             checkout' \in {"none", "partial", "full"},
             gum' \in BOOLEAN, wrap' \in BOOLEAN,
             meson' \in {"orig", "patched", "torn", "torn_bare"}
      PROVE  TypeOK'
  <2>1. buildDir' \in BOOLEAN
    BY <1>3, Zenon DEF TypeOK
  <2>2. step' \in Steps \cup {"idle", "qjs_move", "qjs_item", "qjs_rmdir"}
    BY <1>3, DoneStep
  <2>3. QED BY <1>3, <2>1, <2>2 DEF TypeOK
<1>4. CASE Clone
  <2>1. gum' \in BOOLEAN /\ wrap' \in BOOLEAN
    BY <1>4, Zenon DEF Clone, TypeOK
  <2>2. QED BY <1>4, <2>1, <1>3 DEF Clone, TypeOK, Steps
<1>5. CASE Gum
  <2>1. gum' \in BOOLEAN /\ wrap' \in BOOLEAN
    BY <1>5, Zenon DEF Gum, TypeOK
  <2>2. QED BY <1>5, <2>1, <1>3 DEF Gum, TypeOK, Steps
<1>6. CASE Wrap
  <2>1. gum' \in BOOLEAN /\ wrap' \in BOOLEAN
    BY <1>6, Zenon DEF Wrap, TypeOK
  <2>2. QED BY <1>6, <2>1, <1>3 DEF Wrap, TypeOK, Steps
<1>7. CASE Meson
  <2>1. gum' \in BOOLEAN /\ wrap' \in BOOLEAN
    BY <1>7, Zenon DEF Meson, TypeOK
  <2>2. QED BY <1>7, <2>1, <1>3 DEF Meson, TypeOK, Steps
<1>8. ASSUME UNCHANGED <<cfg, runs, checkout, gum, wrap, meson, opc, stuff, tool,
                         buildDir, conf, bin, jobs, built, backup>>,
             step' \in Steps \cup {"idle", "qjs_move", "qjs_item", "qjs_rmdir"},
             qjs' \in -1..TarItems, tmp' \in -1..TarItems
      PROVE  TypeOK'
  <2>1. (gum \in BOOLEAN /\ wrap \in BOOLEAN /\ buildDir \in BOOLEAN)'
    BY <1>8, Zenon DEF TypeOK
  <2>2. QED BY <1>8, <2>1 DEF TypeOK
<1>9. CASE SetupQuickjs
  <2>1. opc' \in 0..MaxRuns
    BY <1>9 DEF SetupQuickjs, TypeOK
  <2>2. (gum \in BOOLEAN /\ wrap \in BOOLEAN /\ buildDir \in BOOLEAN)'
    BY <1>9, Zenon DEF SetupQuickjs, TypeOK
  <2>3. QED BY <1>9, <2>1, <2>2 DEF SetupQuickjs, TypeOK, Steps
<1>10. CASE SetupPlace
  BY <1>10, <1>8 DEF SetupPlace, TypeOK
<1>11. CASE SetupMoveItem
  <2>1. qjs' \in -1..TarItems /\ tmp' \in -1..TarItems
    BY <1>11 DEF SetupMoveItem, TypeOK
  <2>2. QED BY <1>11, <1>8, <2>1 DEF SetupMoveItem, TypeOK
<1>12. CASE SetupRmdir
  <2>1. step' \in Steps \cup {"idle", "qjs_move", "qjs_item", "qjs_rmdir"}
    BY <1>12 DEF SetupRmdir, Steps
  <2>2. qjs' \in -1..TarItems /\ tmp' \in -1..TarItems
    BY <1>12 DEF SetupRmdir, TypeOK
  <2>3. UNCHANGED <<cfg, runs, checkout, gum, wrap, meson, opc, stuff, tool,
                    buildDir, conf, bin, jobs, built, backup>>
    BY <1>12 DEF SetupRmdir
  <2>4. QED BY <2>1, <2>2, <2>3, <1>8
<1>13. ASSUME NEW s \in Steps, Done(s),
              UNCHANGED <<cfg, runs, checkout, gum, wrap, meson, qjs, tmp, buildDir,
                          conf, bin, jobs, built, backup>>,
              opc' \in 0..MaxRuns, stuff' \in 0..MaxRuns,
              tool' \in [Tools -> Src \cup {None}]
       PROVE  TypeOK'
  <2>1. (gum \in BOOLEAN /\ wrap \in BOOLEAN /\ buildDir \in BOOLEAN)'
    BY <1>13, Zenon DEF TypeOK
  <2>2. step' \in Steps \cup {"idle", "qjs_move", "qjs_item", "qjs_rmdir"}
    BY <1>13, DoneStep
  <2>3. QED BY <1>13, <2>1, <2>2 DEF TypeOK
<1>14. CASE Shuffle
  <2>1. opc' \in 0..MaxRuns
    BY <1>14 DEF Shuffle, TypeOK
  <2>2. QED BY <1>14, <2>1, <1>13 DEF Shuffle, TypeOK, Steps
<1>15. CASE Stuff
  <2>1. stuff' \in 0..MaxRuns
    BY <1>15 DEF Stuff, TypeOK
  <2>2. QED BY <1>15, <2>1, <1>13 DEF Stuff, TypeOK, Steps
<1>16. ASSUME NEW t \in Tools, BuildTool(t) PROVE TypeOK'
  <2>1. Cur \in Src
    BY CurType
  <2>2. tool' \in [Tools -> Src \cup {None}]
    BY <1>16, <2>1 DEF BuildTool, TypeOK
  <2>3. t \in Steps
    BY DEF Tools, Steps
  <2>4. QED BY <1>16, <2>2, <2>3, <1>13 DEF BuildTool, TypeOK
<1>17. CASE Configure
  <2>1. bin' \in [Targets -> Src \cup {None}] /\ conf' \subseteq Targets
    BY <1>17 DEF Configure, TypeOK, Enabled
  <2>2. (gum \in BOOLEAN /\ wrap \in BOOLEAN /\ buildDir \in BOOLEAN)'
    BY <1>17, Zenon DEF Configure, TypeOK
  <2>3. step' \in Steps \cup {"idle", "qjs_move", "qjs_item", "qjs_rmdir"}
    BY <1>17, DoneStep DEF Configure, Steps
  <2>4. QED BY <1>17, <2>1, <2>2, <2>3 DEF Configure, TypeOK
<1>18. CASE Make
  <2>1. Cur \in Src
    BY CurType
  <2>2. bin' \in [Targets -> Src \cup {None}]
    BY <1>18, <2>1 DEF Make, TypeOK
  <2>3. jobs' \in Nat \ {0}
    BY <1>18, CPUsAssumption DEF Make
  <2>4. (gum \in BOOLEAN /\ wrap \in BOOLEAN /\ buildDir \in BOOLEAN)'
    BY <1>18, Zenon DEF Make, TypeOK
  <2>5. step' \in Steps \cup {"idle", "qjs_move", "qjs_item", "qjs_rmdir"}
    BY <1>18, DoneStep DEF Make, Steps
  <2>6. QED BY <1>18, <2>2, <2>3, <2>4, <2>5 DEF Make, TypeOK
<1>19. CASE Fetch
  <2>1. built' \in [Targets \cup Tools -> Src \cup {None}]
    BY <1>19 DEF Fetch, TypeOK
  <2>2. backup' \in [opc : -1..MaxRuns, stuff : -1..MaxRuns]
    BY <1>19 DEF Fetch, TypeOK
  <2>3. (gum \in BOOLEAN /\ wrap \in BOOLEAN /\ buildDir \in BOOLEAN)'
    BY <1>19, Zenon DEF Fetch, TypeOK
  <2>4. step' \in Steps \cup {"idle", "qjs_move", "qjs_item", "qjs_rmdir"}
    BY <1>19, DoneStep DEF Fetch, Steps
  <2>5. QED BY <1>19, <2>1, <2>2, <2>3, <2>4 DEF Fetch, TypeOK
<1>20. CASE UNCHANGED vars
  <2>1. (gum \in BOOLEAN /\ wrap \in BOOLEAN /\ buildDir \in BOOLEAN)'
    BY <1>20, Zenon DEF vars, TypeOK
  <2>2. QED BY <1>20, <2>1 DEF vars, TypeOK
<1>21. QED
  BY <1>1, <1>2, <1>4, <1>5, <1>6, <1>7, <1>9, <1>10, <1>11, <1>12, <1>14,
     <1>15, <1>16, <1>17, <1>18, <1>19, <1>20, <1>22 DEF Next

\* The strengthening is kept by every step.
LEMMA NextTInv ==
  TInv /\ [Next]_vars
    => /\ (step = "qjs_move" => tmp = TarItems)'
       /\ (step = "qjs_item" => qjs >= 0 /\ tmp >= 0 /\ qjs + tmp = TarItems)'
<1> SUFFICES ASSUME TInv, [Next]_vars
             PROVE  /\ (step = "qjs_move" => tmp = TarItems)'
                    /\ (step = "qjs_item" => qjs >= 0 /\ tmp >= 0 /\ qjs + tmp = TarItems)'
  OBVIOUS
<1> USE TarItemsAssumption DEF TInv, TypeOK
<1>1. ASSUME NEW s \in Steps, Done(s) PROVE step' \notin {"qjs_move", "qjs_item"}
  BY <1>1, StepAfter DEF Done, Steps
<1>2. CASE Start \/ Crash \/ CloneTorn \/ MesonTorn \/ MesonDie
  BY <1>2 DEF Start, Crash, CloneTorn, MesonTorn, MesonDie
<1>3. CASE Clone \/ Gum \/ Wrap \/ Meson
  BY <1>3, <1>1 DEF Clone, Gum, Wrap, Meson, Steps
<1>4. CASE SetupQuickjs
  BY <1>4, <1>1 DEF SetupQuickjs
<1>5. CASE SetupPlace
  BY <1>5 DEF SetupPlace
<1>6. CASE SetupMoveItem
  BY <1>6 DEF SetupMoveItem
<1>7. CASE SetupRmdir
  BY <1>7 DEF SetupRmdir
<1>8. CASE Shuffle \/ Stuff \/ Configure \/ Make \/ Fetch
  BY <1>8, <1>1 DEF Shuffle, Stuff, Configure, Make, Fetch, Steps
<1>9. ASSUME NEW t \in Tools, BuildTool(t)
      PROVE  /\ (step = "qjs_move" => tmp = TarItems)'
             /\ (step = "qjs_item" => qjs >= 0 /\ tmp >= 0 /\ qjs + tmp = TarItems)'
  BY <1>9, <1>1 DEF BuildTool, Tools, Steps
<1>10. CASE UNCHANGED vars
  BY <1>10 DEF vars
<1>11. QED
  BY <1>2, <1>3, <1>4, <1>5, <1>6, <1>7, <1>8, <1>9, <1>10 DEF Next

(* Type correctness of the pipeline over any sequence of runs.           *)
THEOREM TypeCorrect == Spec => []TypeOK
<1>1. Init => TInv BY InitTypeOK DEF Init, TInv
<1>2. TInv /\ [Next]_vars => TInv'
  <2> SUFFICES ASSUME TInv, [Next]_vars PROVE TInv'
    OBVIOUS
  <2>1. TypeOK' BY NextTypeOK
  <2>2. (step = "qjs_move" => tmp = TarItems)'
        /\ (step = "qjs_item" => qjs >= 0 /\ tmp >= 0 /\ qjs + tmp = TarItems)'
    BY NextTInv
  <2>3. QED BY <2>1, <2>2 DEF TInv
<1>3. TInv => TypeOK BY DEF TInv
<1>4. QED BY <1>1, <1>2, <1>3, PTL DEF Spec

(***************************************************************************)
(* main reaches fetch only through make (After maps only "make" to        *)
(* "fetch"), and make rebuilds every configured target from the sources   *)
(* as they are; the fetch step itself and a crash change no source, no   *)
(* binary and no configuration.  So BuiltFromCurrentSources is inductive  *)
(* together with TInv.                                                     *)
(***************************************************************************)
\* Only the make step is followed by fetch.
LEMMA AfterFetch ==
  ASSUME NEW s \in Steps, After[s] = "fetch"
  PROVE  s = "make"
BY DEF After, Steps

LEMMA NextBuilt ==
  TInv /\ BuiltFromCurrentSources /\ [Next]_vars => BuiltFromCurrentSources'
<1> SUFFICES ASSUME TInv, BuiltFromCurrentSources, [Next]_vars, step' = "fetch"
             PROVE  \A t \in conf' : bin'[t] = Cur'
  BY DEF BuiltFromCurrentSources
<1> USE DEF TInv, TypeOK
<1>1. ASSUME NEW s \in Steps, Done(s), s # "make" PROVE FALSE
  BY <1>1, AfterFetch DEF Done
<1>2. CASE Make
  <2>1. bin' = [t \in Targets |-> IF t \in conf THEN Cur ELSE bin[t]]
        /\ UNCHANGED <<conf, opc, stuff>>
    BY <1>2 DEF Make
  <2>2. conf \subseteq Targets
    OBVIOUS
  <2>3. QED BY <2>1, <2>2 DEF Cur
<1>3. CASE Fetch \/ Crash \/ Start \/ CloneTorn \/ MesonTorn \/ MesonDie
  BY <1>3 DEF Fetch, Crash, Start, CloneTorn, MesonTorn, MesonDie, Done, After
<1>4. CASE Clone \/ Gum \/ Wrap \/ Meson \/ Shuffle \/ Stuff \/ Configure
  BY <1>4, <1>1 DEF Clone, Gum, Wrap, Meson, Shuffle, Stuff, Configure, Steps
<1>5. CASE SetupQuickjs \/ SetupPlace \/ SetupMoveItem \/ SetupRmdir
  BY <1>5 DEF SetupQuickjs, SetupPlace, SetupMoveItem, SetupRmdir
<1>6. ASSUME NEW t \in Tools, BuildTool(t) PROVE \A u \in conf' : bin'[u] = Cur'
  BY <1>6, <1>1 DEF BuildTool, Tools, Steps
<1>7. CASE UNCHANGED vars
  BY <1>7 DEF vars, BuiltFromCurrentSources, Cur
<1>8. QED
  BY <1>2, <1>3, <1>4, <1>5, <1>6, <1>7 DEF Next

(* fetch_built_artifacts (lines 584-688) copies binaries that were all    *)
(* compiled from the opcode layout and stuff.h now in the quickjs         *)
(* directory, for every configuration, tarball, CPU count and number of   *)
(* interrupted runs, also when build() reused the build directory and     *)
(* skipped configure (lines 337-346): make runs on every path to fetch.   *)
THEOREM BuiltCurrent == Spec => []BuiltFromCurrentSources
<1> DEFINE BInv == TInv /\ BuiltFromCurrentSources
<1>1. Init => BInv
  BY InitTypeOK DEF Init, TInv, BuiltFromCurrentSources
<1>2. BInv /\ [Next]_vars => BInv'
  <2> SUFFICES ASSUME BInv, [Next]_vars PROVE BInv'
    OBVIOUS
  <2>1. TypeOK' BY NextTypeOK
  <2>2. (step = "qjs_move" => tmp = TarItems)'
        /\ (step = "qjs_item" => qjs >= 0 /\ tmp >= 0 /\ qjs + tmp = TarItems)'
    BY NextTInv
  <2>3. BuiltFromCurrentSources' BY NextBuilt
  <2>4. QED BY <2>1, <2>2, <2>3 DEF TInv
<1>3. QED BY <1>1, <1>2, PTL DEF Spec

(***************************************************************************)
(* With a tarball of one top-level directory, the inductive invariant:    *)
(* the quickjs directory is absent or complete (the rename of line 280 is *)
(* one step), the temporary directory holds the whole tarball when the    *)
(* entries are placed, the one-by-one loop is never entered, and every    *)
(* step from the removal of the temporary directory on sees quickjs       *)
(* complete.  A crash between any two steps keeps all of it.              *)
(***************************************************************************)
QInv ==
  /\ TInv
  /\ qjs \in {-1, TarItems}
  /\ step # "qjs_item"
  /\ step \in Later \cup {"qjs_rmdir"} => qjs = TarItems

LEMMA NextQInv ==
  ASSUME TarItems = 1
  PROVE  QInv /\ [Next]_vars => QInv'
<1> SUFFICES ASSUME QInv, [Next]_vars PROVE QInv'
  OBVIOUS
<1>1. TInv'
  BY NextTypeOK, NextTInv DEF QInv, TInv
<1> USE DEF QInv, TInv, Later
<1>2. CASE Start
  BY <1>1, <1>2 DEF Start
<1>3. CASE Crash \/ CloneTorn \/ MesonTorn \/ MesonDie
  BY <1>1, <1>3 DEF Crash, CloneTorn, MesonTorn, MesonDie
<1>4. CASE Clone \/ Gum \/ Wrap \/ Meson
  BY <1>1, <1>4 DEF Clone, Gum, Wrap, Meson, Done, After, Later
<1>5. CASE SetupQuickjs
  BY <1>1, <1>5 DEF SetupQuickjs, Later
<1>6. CASE SetupPlace
  BY <1>1, <1>6 DEF SetupPlace, Later
<1>7. CASE SetupMoveItem
  BY <1>7 DEF SetupMoveItem
<1>8. CASE SetupRmdir
  BY <1>1, <1>8 DEF SetupRmdir, Later
<1>9. CASE Shuffle \/ Stuff \/ Configure \/ Make \/ Fetch
  BY <1>1, <1>9 DEF Shuffle, Stuff, Configure, Make, Fetch, Done, After, Later
<1>10. ASSUME NEW t \in Tools, BuildTool(t) PROVE QInv'
  <2>1. step \in Tools /\ step' \in {"dihcomper", "build"}
    <3>1. step = t /\ step' = After[t]
      BY <1>10, Zenon DEF BuildTool, Done
    <3>2. CASE t = "comper"
      <4>1. After["comper"] = "dihcomper"
        BY Zenon DEF After
      <4>2. QED BY <3>1, <3>2, <4>1, Zenon DEF Tools
    <3>3. CASE t = "dihcomper"
      <4>1. After["dihcomper"] = "build"
        BY Zenon DEF After
      <4>2. QED BY <3>1, <3>3, <4>1, Zenon DEF Tools
    <3>4. QED BY <3>2, <3>3 DEF Tools
  <2>2. UNCHANGED qjs
    BY <1>10 DEF BuildTool
  <2>3. QED BY <1>1, <2>1, <2>2 DEF Tools
<1>11. CASE UNCHANGED vars
  BY <1>1, <1>11 DEF vars
<1>12. QED
  BY <1>2, <1>3, <1>4, <1>5, <1>6, <1>7, <1>8, <1>9, <1>10, <1>11 DEF Next

(* setup_quickjs trusts an existing quickjs directory (lines 257-259).    *)
(* With a tarball whose only top-level entry is a directory, that trust   *)
(* is justified however runs are interrupted: every step that reads the   *)
(* quickjs directory finds the whole tarball there.                        *)
THEOREM SingleDirQuickjsComplete ==
  ASSUME TarItems = 1
  PROVE  Spec => []QuickjsCompleteWhenUsed
<1>1. Init => QInv
  BY InitTypeOK DEF Init, QInv, TInv, Later
<1>2. QInv /\ [Next]_vars => QInv'
  BY NextQInv
<1>3. QInv => QuickjsCompleteWhenUsed
  BY DEF QInv, QuickjsCompleteWhenUsed, Later
<1>4. QED BY <1>1, <1>2, <1>3, PTL DEF Spec
\* setup_quickjs only ever creates quickjs or adds to it; nothing removes it.
LEMMA QjsNeverRemoved ==
  TInv /\ [Next]_vars => (qjs' = -1 => qjs = -1)
<1> SUFFICES ASSUME TInv, [Next]_vars, qjs' = -1 PROVE qjs = -1
  OBVIOUS
<1> USE DEF TInv, TypeOK
<1>1. CASE SetupPlace
  BY <1>1 DEF SetupPlace
<1>2. CASE SetupMoveItem
  BY <1>2 DEF SetupMoveItem
<1>3. CASE Start \/ Crash \/ CloneTorn \/ MesonTorn \/ MesonDie \/ Clone
           \/ Gum \/ Wrap \/ Meson \/ SetupQuickjs \/ SetupRmdir
  BY <1>3 DEF Start, Crash, CloneTorn, MesonTorn, MesonDie, Clone, Gum, Wrap,
              Meson, SetupQuickjs, SetupRmdir
<1>4. CASE Shuffle \/ Stuff \/ Configure \/ Make \/ Fetch
  BY <1>4 DEF Shuffle, Stuff, Configure, Make, Fetch
<1>5. ASSUME NEW t \in Tools, BuildTool(t) PROVE qjs = -1
  BY <1>5 DEF BuildTool
<1>6. CASE UNCHANGED vars
  BY <1>6 DEF vars
<1>7. QED
  BY <1>1, <1>2, <1>3, <1>4, <1>5, <1>6 DEF Next

(* setup_quickjs trusts an existing quickjs directory (line 257).  With a *)
(* tarball whose only top-level entry is a directory, the pipeline        *)
(* implements QuickjsDir under the mapping dir <- qjs: the directory      *)
(* appears whole in one step (the rename of line 280) and is never        *)
(* changed afterwards, however runs are interrupted.                       *)
THEOREM SingleDirQuickjsAtomic ==
  ASSUME TarItems = 1
  PROVE  Spec => QuickjsAtomic
<1>1. Spec => []QInv
  <2>1. Init => QInv
    BY InitTypeOK DEF Init, QInv, TInv, Later
  <2>2. QInv /\ [Next]_vars => QInv'
    BY NextQInv
  <2>3. QED BY <2>1, <2>2, PTL DEF Spec
<1>2. Init => QD!Init
  BY DEF Init, QD!Init
<1>3. QInv /\ [Next]_vars => [QD!Next]_qjs
  <2> SUFFICES ASSUME QInv, [Next]_vars PROVE [QD!Next]_qjs
    OBVIOUS
  <2>1. QInv'
    BY NextQInv
  <2>2. qjs \in {-1, 1} /\ qjs' \in {-1, 1}
    BY <2>1 DEF QInv
  <2>3. qjs' = -1 => qjs = -1
    BY QjsNeverRemoved DEF QInv
  <2>4. QED BY <2>2, <2>3 DEF QD!Next, QD!Extract
<1>4. QED BY <1>1, <1>2, <1>3, PTL DEF Spec, QuickjsAtomic, QD!Spec
=============================================================================
