# TLA+ models of BatmanSecurer

BatmanSecurer builds a hardened Frida for Android. Its driver,
`src/BatmanSecurer/frida_builder.py`, does these steps in order:

1. Clone Frida.
2. Patch `gumquickcore.c` with `patchers/gum_quick_patcher.py`.
3. Swap the QuickJS wrap for a bundled tarball (`setup_quickjs`).
4. Optionally reshuffle the QuickJS opcode table with `patchers/shuffler.py`.
5. Optionally derive secret key material into `stuff.h` (`generate_stuff_h`).
6. Optionally build two custom bytecode compilers.
7. Configure and make Frida.
8. Copy the binaries, with backups of the two generated headers, to `built/`.

Every run works on the same output directory. Each step keeps what an earlier
run left there. That is why the project models repeated and interrupted runs.

This directory holds one module per component, with these parts:

- `MC*` modules and `.cfg` files, which instantiate the modules for TLC;
- five `*Proofs` modules, whose theorems TLAPS checks;
- `PROJECT.json`, which records the runs, mutants, line map, findings and
  hazards.

## Components and modules

| Part of the code | Module | State | Actions |
|---|---|---|---|
| `shuffler.py` (all) | `Shuffler` | the line list, the group, reorder and block cursors, the block being moved and the indices still to pop, and the comment-repair scan | `FlatShuffle`, `ReorderDefer`, `ReorderMissing`, `ReorderMove`, `FallbackShuffle`, `BlockExtract`, `BlockCollect`, `PopLine`, `BlockInsert`, `NextGroup`, `StartFixup`, `FixLine`, `FixEnd` |
| `generate_stuff_h` (frida_builder.py 388-489) | `StuffH` | out_len, len(final), the sbox, the pass and index of the Fisher-Yates loop, and the stuff.h written | `NoKey`, `Declined`, `Start`, `Stretch`, `Truncate`, `Swap`, `NextPass`, `Write` |
| `gum_quick_patcher.py` (all) | `GumQuickPatcher` | the file on disk, the copy being patched, the variant, the patch the run is at, and the first write | `Start`, `Patch1`/`Patch1Die`, `Patch2`/`Patch2Die`, `Patch3`/`Patch3Die`, `Write`, `TornWrite`, `Die` |
| `main` and its steps (frida_builder.py 210-718) | `Builder` | what each step tests or leaves on disk: the checkout, patches, the quickjs and temporary directories (as entry counts), the run that wrote quickjs-opcode.h and stuff.h, the tools, the build directory and its binaries, and `built/` | `Start`, `Crash`, `Clone`, `CloneTorn`, `Gum`, `Wrap`, `Meson`, `MesonTorn`, `MesonDie`, `SetupQuickjs`, `SetupPlace`, `SetupMoveItem`, `SetupRmdir`, `Shuffle`, `Stuff`, `BuildTool(t)`, `Configure`, `Make`, `Fetch` |
| what `setup_quickjs` promises (frida_builder.py 254-287) | `QuickjsDir` | the entries of `subprojects/quickjs`, -1 while it is absent | `Extract`: the directory appears holding the whole tarball |

An action covers the whole handler: its guard comes from the early returns,
and each `die()` is an action or a disjunct of its own.

Data is abstracted as follows:

- **Shuffler.** A line of the opcode header is its kind (`DEF(`, lower-case
  `def(`, `#` directive or text), its opcode, and its comment tokens (`/*`,
  `*/`, code).
- **GumQuickPatcher.** The C text is a sequence of tokens, one for each
  literal the patcher searches for, with braces and newlines kept.
  `str.find` is modelled by what it computes: 0-based offsets, with -1 on a
  miss. The brace scan of `find_matching_brace` is kept, naive as it is.
- **StuffH.** Hash outputs and `secrets` bytes are free choices in 0..255.
- **Builder.** The other scripts are single steps of Builder. Their bodies are
  modelled by the modules above.

Builder's `Crash` is a stop between any two steps: a `die()`, an exception
from `run()`, Ctrl-C or a lost machine. The steps of `main` do no cleanup,
so the next run starts from whatever is on disk.

Fault model. With the constant `Tears` set, a crash may also cut an
operation short in the middle:

- `GumQuickPatcher!TornWrite`: `write_text` truncates the file and then
  writes it, so a crash leaves a proper prefix of the new text.
- `Builder!CloneTorn`: `git clone --recursive` is killed while it fetches
  the submodules. The output directory then exists without frida-gum.
  The patcher dies on it, so only `Crash` is left.
- `Builder!MesonTorn`: `meson.build` is cut before the `# _PATCHED_`
  marker (`torn_bare`) or after it (`torn`). A bare cut makes
  `patch_meson_build` die (`MesonDie`). A marked cut is skipped as patched,
  and then configure and make fail on it.

## Runs

Each script ends, so every cfg says `CHECK_DEADLOCK FALSE`. The final state
of a script is a state with no successor. That a script does reach it is
checked as liveness (`Terminates`, `LastRunCompletes`).

| Run | Checks | Shows |
|---|---|---|
| `shuffle_as_shipped` | `TypeOK`, `OutputCompiles`, `MustFollowKept`, `Terminates` | With the shape of the shipped GROUPS, the comment repair leaves a header with balanced comments and no opcode commented out. push_const8/fclosure8 stay adjacent. Under weak fairness the script always reaches its write, also when a block names an opcode missing from the table. |
| `shuffle_reorder` | `TypeOK`, `ShuffleIsPermutation`, `OutputCompiles` | The reorder_list path (deferred, missing and moved entries) over two groups, after the flat shuffles. The script only permutes lines, and the comment repair still leaves a header that compiles. |
| `shuffle_reorder_anchor` (violation) | `MustFollowKept` | The reorder step takes its anchors from the index map computed before the pop and uses `- 1` for ccb, so an entry lands inside a protected pair. This is dormant: the shipped GROUPS leave reorder_list empty. |
| `stuff_h` | `TypeOK`, `SboxIsPermutation`, `BlobLengthBound` | For every key, version and keystream, the inner Fisher-Yates index always names an entry of the box (a loop started at `len(sbox)` would read `sbox[256]`), the sbox is a bijection and the blob has 64..159 bytes. |
| `gum_patcher` | `TypeOK`, `PatchIdempotent`, `PatchPlacement`, `VariantMatches`, `CompletedRunKeepsSource` | Repeated runs on shipped and damaged files: each patch lands exactly once where it belongs, every later run writes the same text, the variant is the allocator the file uses, and without torn writes every completed run only inserts text into the file it read. |
| `gum_torn` | `TypeOK`, `PatchesAtMostOnce`, `VariantMatches` | With the write cut short at any point and the patcher run again on what is left, no patch literal is ever on disk twice. |
| `gum_torn_write` (violation) | `CompletedRunKeepsSource` | A write cut after the three patches leaves a prefix holding every literal. The next run skips every patch, reports "patch complete" and writes the truncated text back. |
| `builder` | `TypeOK`, `BuiltFromCurrentSources`, `QuickjsAtomic`, `LastRunCompletes` | Up to three interrupted runs, with a one-directory tarball. quickjs appears whole in one step (Builder implements `QuickjsDir`), so it is complete whenever it is used; `QuickjsCompleteWhenUsed` is proved for this case, and the violation run below shows it fails when the tarball has several entries. make rebuilds every configured target, also from a reused build directory. After two runs stopped anywhere, a third run left alone reaches fetch: every skip test of `main` tolerates what an interrupted run left. |
| `builder_multi` | `TypeOK`, `BuiltFromCurrentSources` | A two-entry tarball, which takes the entry-by-entry move loop, with torn clones and meson.build writes. |
| `builder_torn` (violation) | `LastRunCompletes` | A clone cut short is kept by `clone_frida` ("Output directory exists"), and a marked torn meson.build is kept by `patch_meson_build`. No later run can complete. |
| `builder_partial_quickjs` (violation) | `QuickjsCompleteWhenUsed` | A run stopped inside the move loop leaves a partial quickjs, which `setup_quickjs` then trusts ("already present"). |
| `builder_stale_artifacts` (violation) | `BackupsDescribeBuilt` | `fetch_built_artifacts` copies any comper it finds. A comper built for an older opcode layout ends up in `built/` beside backups of the newer one, contrary to WHAT_ARE_THESE.md. |

Each property of each passing run has a mutant in `PROJECT.json`: a
plausible bug in the mapped action, defined just before it, which TLC finds
under that run's cfg. Examples:

- popping the block indices in increasing order;
- a swap without a temporary;
- a missing `final[:out_len]`;
- `make -j` without `max(1, …)`;
- `text[:p] + s + text[p+1:]`, which overwrites one character;
- the `# _PATCHED_` test left out;
- the single-directory rename left out;
- `idx_map[op]` without the `in` test;
- make placed under `if run_configure`;
- extraction skipped whenever the temporary directory exists.

### Bounds

- **Shuffler.** Three tables of 5-12 lines hold everything the script acts
  on: a protected pair, flat targets, blocks with an absent member, a
  multi-line trailing comment, a `def(` line and a directive. The third
  table lacks both anchors, so a block is also spliced at a random index
  of the whole table (line 205). The first instance has one group shaped
  like SHORT_OPCODES (GROUPS has three). The second instance has two
  groups, for the loop over groups and the reorder_list path.
- **StuffH.** A 4-entry box and bytes 0..7. These give every residue
  `b % (i+1)` for i ≤ 3, and every value of `b & 7`.
- **GumQuickPatcher.** The shipped layout of both variants, one variant with
  no allocator, and variants with each anchor or brace removed, over 3 runs.
- **Builder.** Two configurations that differ in every option the pipeline
  reads, 3 runs (a run, an interrupted run and a rerun), and CPU counts 1
  and 8. With 3 runs, the third run of the liveness check follows two runs
  that each stopped anywhere. `builder_torn` repeats this with torn clones
  and meson.build writes.

### Fairness

Each script is one sequential process with no waiting and no other
process. So `Shuffler!LiveSpec` assumes weak fairness of `Next`: a step that
can be taken is not put off forever.

`Builder!LiveSpec` makes two assumptions:

- The user reruns the builder after each interruption.
- The last run the bound allows is not interrupted from outside.

So `LastRunStopped` excludes a decline, a die, an exception or a crash in
that run. It has weak fairness on what is left. A run that the code itself
stops (a `die()` on a cut `meson.build`, or a patcher missing its file) is
then stuck, which the property reports.

## Proofs

TLAPS proves these theorems for every value of the constants, under the
ASSUMEs of the modules:

- **`ShufflerProofs!TypeCorrect`: `Spec => []TypeOK`.**
  - The inductive invariant adds one fact: the indices still to pop lie only
    in the relocation phase.
  - The key point is that popping the largest pending index first keeps
    every other pending index inside the shortened table.
  - The lemmas cover `opcode_index`, `SpliceAt`, `RemoveAt` and `InsertAt`.
- **`ShufflerPermProofs!Permutation`: `Spec => []ShuffleIsPermutation`.**
  - A bag is a function from elements to counts, so the proof counts each
    line: `Cnt(s, x)` is the number of positions of `s` that hold `x`, and
    equal counts give equal bags (`BagFromCnt`).
  - The counting lemmas give the count after a concatenation, a splice, an
    insert, a pop and an append, and after a scatter through a permutation
    of positions (`CntScatter`).
  - `ShuffleIsPermutation` is not inductive: it says nothing while a block
    is relocated. The invariant `CntInv` adds that, during a relocation,
    the count in the table plus the count in `moving` (block_lines)
    equals the count in the input plus the number of pending indices
    (block_indices) that hold the line.
  - The collection loop adds a new index each time. `CntInv` records that
    the pending indices hold names met earlier in the block, and the names
    of a block are distinct (GroupsAssumption).
  - A pop from the largest index keeps the lines in front of it in place
    (`RemoveAtPrefix`), so every other pending index still names its line.
  - Before `BlockInsert` every index has been popped, so the splice of
    `moving` restores the counts of the input.
  - The unbounded `\A x` of `CntInv` is out of TLC's reach. Its
    restriction to the lines of the model's tables was checked by TLC
    before the proof.
- **`StuffHProofs!SboxBijective`: `Spec => []SboxIsPermutation`.**
  - The invariant `IInv` records that `i` is an index of the box during the
    passes.
  - From that, `b % (i+1)` is an index (lemma `ModIdx`). A swap of two
    indices keeps a permutation (lemma `SwapPermutation`).
- **`StuffHProofs!BlobLength`: `Spec => []BlobLengthBound`.**
  - This uses the same `IInv`.
  - out_len lies in 64..159 from its draw on, and `final` has been cut to
    it when the box is built.
- **`BuilderProofs!TypeCorrect`: `Spec => []TypeOK`.**
  - TypeOK alone is not inductive. The move loop needs
    `qjs + tmp = TarItems`, and `tmp = TarItems` when the entries are
    placed. `TInv` adds both.
- **`BuilderProofs!SingleDirQuickjsComplete`: `TarItems = 1` implies
  `Spec => []QuickjsCompleteWhenUsed`.**
  - The invariant `QInv` adds these facts:
    - quickjs is absent or complete;
    - the one-by-one loop is never entered;
    - every step from `rmdir` on sees quickjs complete.
  - Each of these survives a `Crash` between any two steps.
  - The violation run shows that the condition `TarItems = 1` is needed.
- **`BuilderProofs!SingleDirQuickjsAtomic`: `TarItems = 1` implies
  `Spec => QuickjsAtomic`.** This says the pipeline implements `QuickjsDir`
  under the refinement mapping `dir <- qjs`.
  - Initial states map to `QuickjsDir!Init`.
  - By `QInv`, `qjs` is -1 or `TarItems` before and after every step.
  - Lemma `QjsNeverRemoved` adds that no step sets `qjs` back to -1.
  - So every step either leaves `qjs` alone (a stutter) or is `Extract`.
  - The entry-by-entry loop breaks the refinement: quickjs exists while
    it is still empty. TLC finds this with a two-entry tarball, and with
    the mutant that drops the rename.

- **`StuffHProofs!TypeCorrect`: `Spec => []TypeOK`.**
  - This uses the same `IInv`. The Fisher-Yates index stays in the box and
    the draw of lines 459-469 stays in range.
- **`BuilderProofs!BuiltCurrent`: `Spec => []BuiltFromCurrentSources`.**
  - The inductive invariant is `TInv /\ BuiltFromCurrentSources`.
  - Lemma `AfterFetch`: in `After`, only `make` is followed by `fetch`.
  - So a step that reaches `fetch` is `Make`, which rebuilds every
    configured target from the current sources.
  - Fetch, a crash and the torn steps change no source, binary or
    configuration.
- **`GumQuickPatcherProofs!TypeCorrect`: `Spec => []TypeOK`.**
  - This holds for any input files, any `MaxRuns` and with or without torn
    writes.
  - The lemmas `FindRange`, `MatchRange`, `EntriesCloseRange`,
    `FuncCloseRange` and `DeclarePosRange` show that every offset `find`
    and `find_matching_brace` return lies in the text.
  - Their CHOOSE of the least hit is handled by `LeastExists`, which uses
    the well-foundedness of `<` on Nat.
  - So every patch is a splice at an offset of the text (`SpliceType`).
- **`GumQuickPatcherProofs!VariantSound`: `Spec => []VariantMatches`.**
  - `VariantMatches` is not inductive. The run in progress carries what it
    will write in `text` and `variant`.
  - `VInv` keeps the file, and the copy of a run in progress, over
    `Allowed`. `Allowed` is the set of C tokens minus the allocators the
    original file does not call.
  - Torn writes keep this, since a prefix stays over the same alphabet.
- **`GumQuickPatcherProofs!Idempotent`: `~Tears` implies
  `Spec => []PatchIdempotent`.**
  - `PInv` says that a written file equals the first write and holds all
    three literals. A later run's copy equals the file.
  - A run's copy holds the literals of the patches it has passed.
  - `LitsIn`, from `InPair` and `InSingle`, turns the script's `in` tests
    into adjacent tokens.
  - The splice lemmas show that an insertion keeps a token and a pair of
    adjacent tokens. The pair is kept unless the insertion falls between
    its two tokens.
  - `DeclarePosChar` shows that Patch 2 inserts at offset 0 or after a
    newline. `FuncCloseChar` shows that Patch 3 inserts after a `}`.
  - So no later patch splits an earlier literal, and each patch of a
    rerun finds its literal and skips.
  - `~Tears` is needed: `TornWrite` after a first write puts a proper
    prefix of it on disk, so the file differs from `firstWrite`.

The string literals `"{"` and `"}"` are out of reach of the SMT backend.
Steps that mention them are proved by Zenon. The SMT steps work on lemmas
stated over a variable alphabet, such as `Seq2`, `FramedHas1` and
`SpliceKeeps2`.

The following are checked only by TLC:

- `OutputCompiles` and `MustFollowKept`. They are stated with a comment
  scanner over the flattened token stream and with the definition order of
  `SelectSeq`. Proving them would need induction over the token sequence,
  and the provers cannot instantiate the library's induction theorems.
- `PatchPlacement` and `PatchesAtMostOnce`. They hold for the layout of
  the shipped file, not for every file of `Seq(Toks)`, so no theorem over
  all `Inputs` states them.
  - Take a file that has the unbind_weak function and the entries array
    in front of the unbind_weak declaration. A write cut right after the
    declaration keeps every anchor and the other two literals.
  - The next run then inserts the declaration a second time, and writes.
  - TLC finds this trace on such a file with torn writes.
  - In the shipped layout (`MCGumQuickPatcher`) the declaration comes
    first. A cut after it also removes the array marker, so the rerun
    dies in Patch 1.
  - A proof would need the layout as a hypothesis, and the brace scan of
    `find_matching_brace` over it.
- `CompletedRunKeepsSource`. `Embeds` is a recursive function over two
  sequences.
- The liveness properties `Terminates` and `LastRunCompletes`. TLAPS does
  not reason about fairness and ENABLED.

## Not modelled

- **`src/JokerDecompiler/compile.py`.** It runs one external command.
- **Byte-level content.** Hash values, the text of the generated files, the
  configure flags beyond which targets are enabled, and Frida's own build.
  Only the facts the steps test are kept.
- **Torn writes of generated files.** The writes of `quickjs-opcode.h`
  (shuffler.py 238) and `stuff.h` are single steps. Builder keeps only which
  run wrote them, not their content. The torn write of the shuffler's
  output is listed as a hazard.
- **The content of a partial checkout.** A torn clone is one value,
  `partial`. Which submodules it lacks is not modelled.
- **Path resolution**, such as the shuffler's `INPUT_FILE`, which is relative
  to the current directory.
