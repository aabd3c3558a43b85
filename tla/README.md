# TLA+ models of gflags bash completion

This directory holds TLA+ models of the flag completion code in
`src/src/gflags_completions.cc` and of its bash launcher
`src/src/gflags_completions.sh`, and the TLC configurations that check them.

## The system

A binary linked with gflags completes its own flags. The bash launcher
`src/src/gflags_completions.sh` runs the binary with
`--tab_completion_word=<word>`. `HandleCommandLineCompletions` (line 809) then
calls `PrintFlagCompletionInfo` (224-309), which prints one completion per line
and exits. The work is a pipeline of five steps. Each step hands its output to
the next through local variables:

1. **Token normalizer**: `CanonicalizeCursorWordAndSearchOptions` (314-360).
   It strips a leading `"` and the leading dashes. It then strips up to three
   trailing `?` and one trailing `+` in any order. It returns the token and the
   `CompletionOptions` (192-203).
2. **Candidate matcher**: `FindMatchingFlags` and `DoesSingleFlagMatch`
   (376-441). It keeps the flags whose name has the token as a prefix. Each
   `?` widens the search: first to a substring of the name, then of the
   filename, then of the description. While matching, it computes the longest
   common prefix of the matched names. When that prefix is longer than the
   token, `PrintFlagCompletionInfo` prints `--<prefix>` as the only completion
   (the shortcut).
3. **Ownership locator**: `TryFindModuleAndPackageDir` (509-546). It guesses
   the binary's module file from the program name and a list of suffixes
   (`PushNameWithSuffix`, 503-506). The module's directory is the package
   directory.
4. **Relevance classifier**: `CategorizeAllMatchingFlags` (448-501). It puts
   each match into one of the `NotableFlags` sets (211-218):
   - perfect: the name equals the token;
   - module: the flag is defined in the module file;
   - package, subpackage: by directory;
   - common: defined nowhere, and always empty.
5. **Output composer**: `FinalizeCompletionOutput`, `SizeInLines`,
   `RetrieveUnusedFlags` and `OutputSingleGroupWithLimit` (549-732). This step
   has two passes:
   - It selects groups in relevance order while they fit into
     `kLinesPerOutput` (98) lines, or without a limit after `+`.
   - It writes each selected group with a header, its flags and a footer. The
     groups share one counter of remaining lines. Each group is indented one
     space less than the previous one, so bash's sort keeps the order.

   The function then decides whether everything was shown. If not, the caller
   appends a `~` line so that bash does not complete inline.

   The lines are rendered by `GetShortFlagLine` (735-756) and `GetLongFlagLine`
   (759-805). The long format is used only for a perfect-match group.

The other files under `src/` are not completion logic. `defines.h.in` is a
CMake template. `unnamed/part_000` is a sample gflags program, and
`unnamed/part_001` is unrelated C++ example code.

## Modules

Every module is sequential: the code runs in one thread and persists nothing.
The hard parts are therefore not interleavings. They are:
- loops whose state carries from one iteration to the next;
- the interaction of counters and bounds;
- string positions computed by `std::string::find`.

Each loop iteration, or each branch of an if/else chain, is one action. The
inputs are enumerated in `Init` from small sets. Strings are sequences of
one-character strings. `CppString` gives `find`, `rfind` and `substr`, with
`npos` as -1.

| Module | Models | State ↔ code |
|---|---|---|
| `CanonicalizeToken` | step 1 | `token` = `*canonical_search_token`; `q`/`p` = `found_question_marks`/`found_plusses`; `options` = `*options`. Actions: `EmptyWord` (early return), `StripLeading`, `StripQuestion`, `StripPlus`, `EndScan` (the `break` and the option assignments). |
| `FindMatching` | step 2 | `snapshot` = the flag snapshot, in any order; `it` = the loop position; `matches`; `lcp` = `*longest_common_prefix`; `firstMatch` = `first_match`. Actions: `NoMatch`, `FirstMatch`, `MatchClearsPrefix`, `MatchShrinksPrefix`. The instance `Abstract` maps it onto `MatchingAbstract`: until `it` passes the last flag the caller sees no matches and an empty prefix. |
| `MatchingAbstract` | spec.md 4.2 | The matcher's promise without its loop: one `Answer` step sets `matches` to the flags the match rule admits and `lcp` to the longest common prefix of their names. It models the spec, not code. |
| `Categorize` | steps 3 and 4 | `module`/`packageDir` come from the first (flag, suffix) hit (`ModuleFound`/`ModuleNotFound`); `todo` = the matches not yet examined; `notable` = `NotableFlags`. Actions: one per branch (`PerfectMatch`, `ModuleMatch`, `PackageMatch`, `SubpackageMatch`, `NotSpecial`). Files are paths over a tiny alphabet, chosen to include the boundary cases. |
| `CompletionOutput` | step 5 and the `~` line | `outputGroups`, `linesSoFar`, `indent`, `remaining` (`lines_so_far` of `OutputSingleGroupWithLimit`), `completionsOutput`, `longFormat` (`perfect_match_found`), `completions` (lines as records of kind, group, indent, flag and format; the text is left out). The selection pass is `SelectGroup`/`SkipGroup`. The emission pass is `NextGroup`, `EmitHeader`/`StartHeaderless`/`GroupReturnsEarly`, `EmitFlag`/`LoopDone` and `EmitFooter`/`SkipFooter`. Then come `Verdict` and `AppendNoUpdateMarker`. Which flags are in which set is any split that `CategorizeAllMatchingFlags` can produce: at most one perfect match, and common always empty. |
| `ShortFlagLine` | `GetShortFlagLine` | `prefixLen` = `prefix.size()` (the prefix is kept as its length); `remainder` (an `int`); `suffix` (text). `FormatPrefix` computes the prefix, then one of three actions builds the suffix: `NoRoom` (`remainder <= 0`), `Truncate` (`substr(0, remainder - 3) + "..."`, with the argument converted to `size_t` at width `SizeWidth`) or `KeepWhole`. |
| `LongFlagLine` | `GetLongFlagLine` | `output`; `lineOfSpaces` (the static `line_of_spaces`); `missingSpaces`. `Describe` is the straight-line part: it doubles the dash, inserts the breaks before `type:` and `default:`, and adds the frame. Then comes one step per iteration of the doubled-newline loop (`CollapseDoubled`/`CollapseDone`) and of the reflow loop (`Reflow`/`ReflowDone`). A width below zero ends `Describe` in `LineOfSpacesTooLong` and a zero width ends the first reflow step in `ReflowDivideByZero`, both in the state `crash`. `DescribeOneFlag` lives in `gflags_reporting.cc`, not under `src/`, so its text is modelled from the spec's collaborator contract: `    -name (desc)`, then the type and default fields, each after a space or after a newline and six spaces. The ghost variables `collapsed` and `rowStarts` record the text before the reflow and where each reflowed line starts. |
| `ShellLauncher` | `gflags_completions.sh` | `args` = `"$@"` (the `-C` arguments, then the command, the word and the previous word bash adds); `compLine` = `$COMP_LINE`, split into words; `word`, `binary`, `params`, `i` as in the script; `ran` = what `eval` ran and with which argument vector. Actions: `ReadWord`/`EmptyWordExit` (lines 60-77), `ReadBinary`/`UnwrapBinary` (82-116, the `time`/`env` case), `AddParam` (one loop iteration) and `AddWord` (122-130), then `RunCandidate`, `RunFile` or `NotRunnable` (139-147). `eval` is modelled by what it does to the parameter string: a fold over its characters in which a double quote toggles quoting, an unquoted space ends a word, a backslash escapes the next character (inside double quotes only `$`, `"` and `\`), `$name` expands to the constant `VarValue` (an unset variable in the runs), and an unterminated quote is a syntax error. |
| `FlagLine` | the call at lines 723-725 | Composes the two renderers: `longOutputFormat` (`long_output_format`) picks `GetLongFlagLine` or `GetShortFlagLine`, both reading one `columns`. The other renderer's variables stay at rest; the program counters are renamed `shortPc` and `longPc`. |
| `LaunchedCanonicalize` | launcher → step 1 | Composes `ShellLauncher` with `CanonicalizeToken`. `caller` says whether bash ran the script or the binary was run directly with the flag. `Launch` is the script's steps; `StartBinary` starts the program `eval` ran with `FLAGS_tab_completion_word` set to the argument after the last `--tab_completion_word` (gflags' argument parsing, outside `src/`, modelled from that rule); `NoBinary` ends when nothing ran; `Canonicalize` is the function's steps, on renamed variables. |
| `CompletionPipeline` | `HandleCommandLineCompletions`, `PrintFlagCompletionInfo` | Composes the five steps. `CanonicalizeToken`, `FindMatching`, `Categorize` and `CompletionOutput` are instantiated on shared variables, so what one step leaves is what the next one reads: `token`, `matches`, `notable`, and the return-all option. `Start` is the empty-word test (line 810). After matching, one of `Shortcut`, `NothingMatched` or `ListMatches` follows. `CatStep`/`CatDone` and `OutStep`/`OutDone` run steps 3-5. The snapshot's names are a constant (`FlagNames`), because `Categorize` compares them with the token; the files vary. |

Each `MC*.tla` module gives the constants their values, and each `.cfg` file
selects the invariants. Every module ends in a `Terminated` stutter step,
because the function has returned. Deadlock checking therefore stays on and
confirms that every path reaches the end.

## Runs

| Run | Checks | Result |
|---|---|---|
| `canonicalize_launched` | `LaunchedCanonicalize`: the cursor word comes from the launcher or is given to the binary directly. `LauncherPassesWord` (spec.md 6): the launcher runs the program being completed, found on the PATH or as an executable file and unwrapped from `time`/`env`, with its `-C` arguments and `--tab_completion_word <word>` exactly as bash passed them, and runs nothing for an empty word or an unknown program. `CanonicalizationSound`: the result is a declarative split of the word (leading part, which takes a leading quote, then the dashes; token; tail of modifiers) with the options of the tail's counts. From bash: words of ≤ 3 characters over `{a, -, ?, +, space}`, zero or one `-C` argument, six command lines. Directly: all words of ≤ 5 characters over the same characters and `"`. | pass |
| `find_matching` | `MatcherRefinesAbstract`: `FindMatchingFlags` implements `MatchingAbstract` under the refinement mapping. The flags it keeps through `string::find` positions are exactly those the modifiers admit (name prefix without `?`), and its incrementally shrunk `lcp` is the longest common prefix of their names. Three flags in every order; names, paths and descriptions over `{a, b}`; every token of ≤ 2 characters and 0-3 `?`. | pass |
| `categorize` | `DirectoryFlagsNotMissed`: a flag in the package directory or below it is in the package or subpackage set, or in a higher one. | pass |
| `package_buckets` | `DirectoryBucketsExact`: the package set holds exactly the flags of the package directory, and the subpackage set those below it. | **violation**: `xd/x.c` is classified as in package `d` |
| `completion_output` | See the list below. | pass |
| `first_group_long` | `FirstGroupRenderedLong` (spec.md 4.5): the first selected group is rendered long. | **violation**: without a perfect match, every group is rendered short |
| `flag_line` | `FlagLine`: one flag's line in either format, for widths -1, 0 and 6-14. `ShortLineUsesRoom`: when at least three columns are left, the line fits, the description is shown whole exactly when it fits, and a cut description fills the row (prefixes 7-13 wide; descriptions 0-5 long). `LongLineLayout`: whichever breaks `DescribeOneFlag` chose, the text before the reflow is exactly the layout of spec.md 4.6: the `Details for` line, then `--name`, then `type:`, `default:` and `defined:`, each on its own line (one or two indentation spaces and name letters; three descriptions). | pass |
| `short_line_fits` | `ShortLineFitsColumns`: whenever columns are left, the line fits them. | **violation**: with 1-2 columns left, the whole description plus `...` is printed |
| `long_desc_marker` | `LongFlagLine`'s `LongLineLayout` with the description `a type: a`. | **violation**: the break meant for the type field is inserted inside the description |
| `long_rows_aligned` | `LongLineRowsAligned` (spec.md 4.6): every reflowed line starts at a multiple of the column width. | **violation**: a newline at a multiple of the width gets only `columns - 1` spaces |
| `pipeline` | All steps composed; inputs are every cursor word of ≤ 3 characters over `{a, b, -, ?, +}`, flags `ab`, `abb` and `b` placed in any of `a/p.c, a/b.c, a/b/c.c, ba/c.c`, program `p`, and a line cap lowered to 4. Properties: `PipelineOutput` (the three output shapes of spec.md: nothing, `--<prefix>`, or a listing, decided on the match rule); `ListedFlagsAdmitted` (spec.md 8: only flags the match rule admits are listed); `PerfectMatchShownLong` (scenario D); `ReturnAllListsEverything` (scenario C: with `+`, everything is listed and nothing is hidden); `CompletionTerminates` (under weak fairness, every invocation ends). The flag order `ab`, `b`, `abb` lets a match follow a cleared prefix. | pass |
| `launcher_quote` | `ShellLauncher`'s `LauncherPassesWord` with words of ≤ 3 characters over `{a, -, ", \, $}`. | **violation**: for the word `\` the backslash escapes the closing quote, eval fails on the unbalanced quoting and the binary never runs; `"` fails the same way and `$a` reaches the binary empty |

The `completion_output` run checks these properties over four flags split in
every way among the notable sets, with and without `+`:
- `ListingWithinBudget`: no more lines than the budget.
- `VerdictMatchesListing`: "all shown" is claimed exactly when every match was
  listed once.
- `GroupsOrderedByRelevance`: indentation strictly decreases in relevance
  order.
- `LongFormatOnlyForPerfectMatch`.
- `FitsThenAllShown`: if everything needs fewer lines than the budget, every
  flag is listed.

Each property of a passing run has a mutant in `PROJECT.json`, a plausible bug
in the modelled code that TLC finds. Examples:
- the `?` cap off by one;
- the leading quote kept in the token;
- a `continue` that skips the iterator's increment (caught by `CompletionTerminates`);
- the separator search starting at the end;
- no budget check before a header;
- `perfect_match_found` not reset;
- the indent not decremented;
- the subpackage set omitted from `RetrieveUnusedFlags`;
- all flags classified instead of the matches;
- the module test made before the perfect-match test;
- the `+` budget ignored;
- the launcher's word appended without quotes (a word with a space is split).

### Bounds

- `CompletionOutput`: `kLinesPerOutput` is lowered to 7 and `AllLines` to 20.
  With four flags, one group then needs 3 to 6 lines. This makes three kinds
  of situation reachable:
  - selection stops part-way;
  - a header lands on the last two lines;
  - a group is cut off inside its flag loop.

  A budget of 98 would need ~95 flags to reach any of them. No code path
  depends on the constant's value, except through these comparisons.
- `Categorize`: the paths are
  `d/p.c, d/x.c, d/e/x.c, xd/x.c, dd/x.c, e/x.c, e/p_test.c, e/p.d/x.c` with
  program name `p`. They cover:
  - a module and its own package;
  - a subpackage;
  - the two `find`-anywhere cases;
  - a test-suffix module;
  - a directory named like a suffix.
- `FlagLine`: the widths are -1, 0 and 6-14: the two values that fail and
  a range wide enough for rows to wrap one or several times.
- `LaunchedCanonicalize`: launcher words of up to three characters give a
  word with a space inside, at either end, and twice, and the modifiers the
  function strips; direct words of five give four `?` after a quote and
  dashes. The previous word is only counted by the script, so one value
  suffices; the command lines cover each of the
  three dispatch outcomes directly and through `time` or `env`.
- `FindMatching`: three flags are enough for the prefix to shrink twice, and
  to shrink to empty and stay empty.

## Fairness

Only the `pipeline` run assumes fairness: `FairSpec` adds `WF_vars(Next)`.
spec.md 5 describes one synchronous, single-threaded pass with no suspension
point, so nothing the program waits for can stop it. That is weak fairness of
the whole next-state relation, and no more: there are no competing processes
that would call for fairness per action. Under it `CompletionTerminates`
checks that every invocation reaches the end. Deadlock checking alone would
not show this, because a loop that stops advancing (the mutant whose
`continue` skips the iterator's increment) has a successor, itself, and is
not a deadlock. The other runs check safety only.

## Findings

1. **spec/code divergence (line 662)**: spec.md 4.5 says the first selected
   group is rendered in the long format. The code passes `perfect_match_found`
   instead.
2. **code bug (lines 468-473, 486-493)**: package membership uses
   `filename.find(package_dir)` anywhere in the path. It then looks for `/`
   from one character past the match. As a result, `xd/x.c` is in package `d`
   and `dd/x.c` is in subpackage `d`. This contradicts the `NotableFlags`
   comments.

3. **code bug (line 753)**: `GetShortFlagLine` computes `remainder - 3`.
   When only 1 or 2 columns remain, that value is negative and becomes a huge
   `size_t`. `substr` then keeps the whole description, and `...` is appended.
   The line is then wider than if nothing had been cut.
4. **spec/code divergence (line 802)**: the reflow copies padding from offset
   1 of a `line_of_spaces` that is `columns` long. A newline that falls on a
   row boundary therefore gets `columns - 1` spaces, and the next line starts
   at the last column of a row. This contradicts spec.md 4.6.

5. **code bug (line 769)**: `GetLongFlagLine` inserts the type field's line
   break at `output.find(" type:")`, the first occurrence in the whole text
   of `DescribeOneFlag`. For a description that mentions ` type:` the break
   lands inside the description, and the real type field stays on the flag's
   line, contrary to spec.md 4.6. ` default:` has the same defect.

6. **code bug (launcher, lines 130 and 143)**: the word is wrapped in double
   quotes without escaping and the result is `eval`ed. If bash hands over a
   word holding a double quote, or ending in a backslash (which escapes the
   closing quote), the quoting is unbalanced and nothing runs; a `$name` in
   the word is expanded before the binary sees it. This happens although
   `CanonicalizeCursorWordAndSearchOptions` (line 322) strips a leading
   `"`, as if it expects to receive one. Whether bash passes these
   characters through unchanged depends on how it splits the line into
   words (`COMP_WORDBREAKS`); the model assumes it does.

## Not modelled, and the plan

- The composed pipeline fixes the flag names and one description, to keep
  its state space small; `FindMatching` and the step modules vary them on
  their own.
- Column widths ≤ 0 (lines 787 and 799): `tab_completion_columns` is an
  `int32` flag with no validator. `LongFlagLine` models what happens as a
  `crash` state (`LineOfSpacesTooLong`: `line_of_spaces` throws
  `length_error`; `ReflowDivideByZero`: `newline % 0`), and the `flag_line`
  run explores both. spec.md 6 requires a positive width, so no run claims
  other widths work.
- `TryFindModuleAndPackageDir` accepts a suffix anywhere in the path, so for
  program `p` the file `e/p.d/x.c` can be the module, which the TODO at line
  537 says should not happen. spec.md 4.3 defines exactly that rule and
  documents the ambiguity, so no run states the TODO as a property.
- The npos results of `find` at lines 769-776: `DescribeOneFlag`'s contract
  guarantees the markers, so `find` never fails. A marker that occurs twice
  is finding 5.
- In the launcher, command substitution (`$(...)`, backquotes), positional
  parameters (`$1`) and `type -p` itself are left out: they run commands
  or depend on the shell's environment. The PATH, the executable files and
  the value of a variable are constants.
- `defines.h.in` is a CMake template of `#cmakedefine` lines, resolved at
  build time. The two example programs (`src/unnamed/part_000`, `part_001`)
  parse three flags and print them, or print a string and an integer. Neither
  has state that changes in steps, so neither is modelled.
- Termination of the two `GetLongFlagLine` loops is not stated as a liveness
  property. A plausible bug there (a replacement that keeps the newline) makes
  the text grow without bound, which TLC cannot explore. Each `Reflow` step
  removes one newline and adds none; `LongFlagLine` is checked for deadlock.
