------------------------- MODULE CompletionPipeline -------------------------
(***************************************************************************)
(* HandleCommandLineCompletions and PrintFlagCompletionInfo of            *)
(* src/src/gflags_completions.cc: the empty-word exit, then the five steps *)
(* run one after the other on one snapshot: CanonicalizeToken, FindMatching *)
(* (then the shared-prefix shortcut or the no-match exit), Categorize and   *)
(* CompletionOutput.  Each step module is instantiated on the pipeline's   *)
(* variables, so that what one step leaves is what the next one reads:     *)
(* the token, the match set (snapshot indices), the NotableFlags sets and  *)
(* the return-all option.  The snapshot's names are the constant FlagNames *)
(* (Categorize compares them with the token); its files vary.              *)
(***************************************************************************)
EXTENDS Integers, Sequences, FiniteSets

LOCAL INSTANCE SequencesExt

CONSTANTS
  Chars, MaxWord,              \* cursor words, as in CanonicalizeToken
  FlagNames, Paths, Descriptions,  \* the snapshot
  Sep, ProgName, SuffixTails,  \* the module search, as in Categorize
  MaxLines, AllLines           \* the line budgets, as in CompletionOutput

NFlags == Len(FlagNames)

VARIABLES
  word, token, q, p, options, cpc,         \* step 1
  searchOptions, snapshot, it, matches, lcp, firstMatch,  \* step 2
  files, module, packageDir, todo, notable, catPc,  \* step 3
  returnAll, forceNoUpdate, outPc, cand, linesSoFar, outputGroups,
  indent, gi, outStage, pending, remaining, completionsOutput,
  longFormat, completions,                 \* steps 4 and 5
  stage,     \* "entry", "canonicalize", "match", "categorize", "output", "done"
  outcome,   \* "pending", "nothing", "shortcut", "listing"
  printed    \* what the shortcut printed to stdout

canonVars == <<word, token, q, p, options, cpc>>
matchVars == <<searchOptions, snapshot, it, matches, lcp, firstMatch>>
catVars == <<files, module, packageDir, todo, notable, catPc>>
outVars == <<returnAll, forceNoUpdate, outPc, cand, linesSoFar, outputGroups,
             indent, gi, outStage, pending, remaining, completionsOutput,
             longFormat, completions>>
vars == <<canonVars, matchVars, catVars, outVars, stage, outcome, printed>>

Canon == INSTANCE CanonicalizeToken WITH pc <- cpc

Match == INSTANCE FindMatching
           WITH options <- searchOptions, Tokens <- Canon!Words,
                Names <- {FlagNames[i] : i \in 1..NFlags}

Cat == INSTANCE Categorize
         WITH matching <- matches, pc <- catPc, Tokens <- Canon!Words

Out == INSTANCE CompletionOutput
         WITH matching <- matches, pc <- outPc, stage <- outStage,
              Flags <- 1..NFlags, Order <- [i \in 1..NFlags |-> i], NoFlag <- 0

\* FindMatchingFlags reads the substring options of the CompletionOptions.
SearchPart(o) ==
  [nameSubstring |-> o.nameSubstring, locationSubstring |-> o.locationSubstring,
   descriptionSubstring |-> o.descriptionSubstring]

Init ==
  /\ Canon!Init
  /\ searchOptions = SearchPart(options)
  /\ snapshot \in {s \in Match!Snapshots : \A i \in 1..NFlags : s[i].name = FlagNames[i]}
  /\ it = 1 /\ matches = {} /\ lcp = <<>> /\ firstMatch = TRUE
  /\ files = [i \in 1..NFlags |-> snapshot[i].filename]
  /\ module = <<>> /\ packageDir = <<>> /\ todo = {}
  /\ notable = [k \in Cat!NotableKinds |-> {}]
  /\ catPc = "locate"
  /\ returnAll = FALSE /\ forceNoUpdate = FALSE
  /\ outPc = "select" /\ cand = 1 /\ linesSoFar = 0 /\ outputGroups = <<>>
  /\ indent = 0 /\ gi = 1 /\ outStage = "start" /\ pending = {}
  /\ remaining = 0 /\ completionsOutput = 0 /\ longFormat = FALSE
  /\ completions = <<>>
  /\ stage = "entry"
  /\ outcome = "pending"
  /\ printed = <<>>

\* Mutant: HandleCommandLineCompletions without its empty-word test.
StartNoGuard ==
  /\ stage = "entry"
  /\ stage' = "canonicalize"
  /\ UNCHANGED <<canonVars, matchVars, catVars, outVars, outcome, printed>>

\* HandleCommandLineCompletions: `if (FLAGS_tab_completion_word.empty())
\* return;`, else PrintFlagCompletionInfo.
Start ==
  /\ stage = "entry"
  /\ IF word = <<>>
     THEN stage' = "done" /\ outcome' = "nothing"
     ELSE stage' = "canonicalize" /\ outcome' = outcome
  /\ UNCHANGED <<canonVars, matchVars, catVars, outVars, printed>>

\* One step of CanonicalizeCursorWordAndSearchOptions.
CanonStep ==
  /\ stage = "canonicalize"
  /\ \/ Canon!EmptyWord \/ Canon!StripLeading
     \/ Canon!StripQuestion \/ Canon!StripPlus \/ Canon!EndScan
  /\ UNCHANGED <<matchVars, catVars, outVars, stage, outcome, printed>>

\* Step 1 has returned; GetAllFlags, then FindMatchingFlags.
CanonDone ==
  /\ stage = "canonicalize" /\ cpc = "done"
  /\ stage' = "match"
  /\ searchOptions' = SearchPart(options)
  /\ UNCHANGED <<canonVars, snapshot, it, matches, lcp, firstMatch,
                 catVars, outVars, outcome, printed>>

\* One iteration of FindMatchingFlags.
MatchStep ==
  /\ stage = "match"
  /\ \/ Match!NoMatch \/ Match!FirstMatch
     \/ Match!MatchClearsPrefix \/ Match!MatchShrinksPrefix
  /\ UNCHANGED <<canonVars, catVars, outVars, stage, outcome, printed>>

\* Mutant: `>=` for `>`.
ShortcutTakenOrEqual == Len(lcp) >= Len(token)

\* `longest_common_prefix.size() > canonical_token.size()`
ShortcutTaken == Len(lcp) > Len(token)

\* `fprintf(stdout, "--%s", longest_common_prefix.c_str()); return;`
Shortcut ==
  /\ stage = "match" /\ it > NFlags /\ ShortcutTaken
  /\ printed' = <<"-", "-">> \o lcp
  /\ outcome' = "shortcut"
  /\ stage' = "done"
  /\ UNCHANGED <<canonVars, matchVars, catVars, outVars>>

\* `if (matching_flags.empty()) return;`
NothingMatched ==
  /\ stage = "match" /\ it > NFlags /\ ~ShortcutTaken /\ matches = {}
  /\ outcome' = "nothing"
  /\ stage' = "done"
  /\ UNCHANGED <<canonVars, matchVars, catVars, outVars, printed>>

\* On to TryFindModuleAndPackageDir and CategorizeAllMatchingFlags.
ListMatches ==
  /\ stage = "match" /\ it > NFlags /\ ~ShortcutTaken /\ matches # {}
  /\ stage' = "categorize"
  /\ UNCHANGED <<canonVars, matchVars, catVars, outVars, outcome, printed>>

\* One step of steps 3 and 4.
CatStep ==
  /\ stage = "categorize"
  /\ \/ Cat!ModuleFound \/ Cat!ModuleNotFound
     \/ Cat!PerfectMatch \/ Cat!ModuleMatch \/ Cat!PackageMatch
     \/ Cat!SubpackageMatch \/ Cat!NotSpecial
  /\ UNCHANGED <<canonVars, matchVars, outVars, stage, outcome, printed>>

\* FinalizeCompletionOutput receives &options.
CatDone ==
  /\ stage = "categorize" /\ Cat!Done
  /\ stage' = "output"
  /\ returnAll' = options.returnAll
  /\ UNCHANGED <<canonVars, matchVars, catVars, forceNoUpdate, outPc, cand,
                 linesSoFar, outputGroups, indent, gi, outStage, pending,
                 remaining, completionsOutput, longFormat, completions,
                 outcome, printed>>

\* One step of step 5 and of the '~' line.
OutStep ==
  /\ stage = "output"
  /\ \/ Out!SelectGroup \/ Out!SkipGroup \/ Out!BeginEmission
     \/ Out!EmitHeader \/ Out!StartHeaderless \/ Out!GroupReturnsEarly
     \/ Out!EmitFlag \/ Out!EmitFooter \/ Out!SkipFooter
     \/ Out!Verdict \/ Out!AppendNoUpdateMarker
  /\ UNCHANGED <<canonVars, matchVars, catVars, stage, outcome, printed>>

\* The completions are printed.
OutDone ==
  /\ stage = "output" /\ outPc = "done"
  /\ outcome' = "listing"
  /\ stage' = "done"
  /\ UNCHANGED <<canonVars, matchVars, catVars, outVars, printed>>

\* gflags_exitfunc(0)
Terminated == stage = "done" /\ UNCHANGED vars

Next ==
  \/ Start \/ CanonStep \/ CanonDone \/ MatchStep
  \/ Shortcut \/ NothingMatched \/ ListMatches
  \/ CatStep \/ CatDone \/ OutStep \/ OutDone
  \/ Terminated

Spec == Init /\ [][Next]_vars

\* spec.md 5: one synchronous, single-threaded pass with no suspension
\* point; nothing the program waits for can stop it, so it keeps taking
\* its next step until it exits.
FairSpec == Spec /\ WF_vars(Next)

-----------------------------------------------------------------------------
(* Properties                                                              *)

TypeOK ==
  /\ Canon!TypeOK
  /\ it \in 1..(NFlags + 1)
  /\ matches \subseteq 1..NFlags
  /\ firstMatch <=> matches = {}
  /\ files \in [1..NFlags -> Paths]
  /\ todo \subseteq 1..NFlags
  /\ notable \in [Cat!NotableKinds -> SUBSET (1..NFlags)]
  /\ catPc \in {"locate", "categorize"}
  /\ Out!TypeOK
  /\ stage \in {"entry", "canonicalize", "match", "categorize", "output", "done"}
  /\ outcome \in {"pending", "nothing", "shortcut", "listing"}
  /\ printed \in Seq(STRING)

\* The flags the match rule of spec.md 4.2 admits for the canonical token
\* and modifiers.
Admitted == {i \in 1..NFlags : Match!SpecMatch(snapshot[i])}

\* spec.md's three output shapes: an empty cursor word or no match prints
\* nothing; a common prefix of all matches longer than the token prints
\* "--<prefix>" alone; otherwise the matches are listed.
PipelineOutput ==
  stage = "done" =>
    LET pre == LongestCommonPrefix({snapshot[i].name : i \in Admitted})
    IN CASE word = <<>>             -> outcome = "nothing"
         [] Admitted = {}           -> outcome = "nothing"
         [] Len(pre) > Len(token)   -> outcome = "shortcut"
                                        /\ printed = <<"-", "-">> \o pre
         [] OTHER                   -> outcome = "listing"

\* spec.md 8: every flag the listing shows has a name that starts with the
\* token or satisfies an enabled substring modifier, although the module
\* search and the classification look at every flag of the snapshot.
ListedFlagsAdmitted ==
  \A i \in Out!FlagLines : completions[i].flag \in Admitted

\* spec.md 8, scenario D: a flag whose name is the canonical token is listed
\* in the long format, and every other listed flag in the short one.
PerfectMatchShownLong ==
  outcome = "listing" =>
    \A i \in Out!FlagLines :
      completions[i].long <=> FlagNames[completions[i].flag] = token

\* spec.md 8, scenario C: with the '+' modifier every match is listed and
\* no "(Remaining flags hidden)" line appears, even past the line cap.
ReturnAllListsEverything ==
  outcome = "listing" /\ options.returnAll =>
    Out!Shown = Admitted /\ ~Out!HiddenLinePresent

\* spec.md 2 and 6: every invocation ends, with one of the three output
\* shapes, whatever the word and the snapshot: each loop of the five steps
\* (the modifier scan, the flag scan with its `continue`, the group
\* selection and emission) advances on every iteration.
CompletionTerminates == <>(stage = "done")

=============================================================================
