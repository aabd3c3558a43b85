--------------------------- MODULE CompletionOutput ---------------------------
(***************************************************************************)
(* Steps 4) and 5) of src/src/gflags_completions.cc: FinalizeCompletionOutput *)
(* picks the output groups under a line budget, then OutputSingleGroupWith- *)
(* Limit writes each group's header, flag lines and footer while a single    *)
(* remaining-line counter lasts; the verdict sets force_no_update or appends *)
(* the "(Remaining flags hidden)" line, and PrintFlagCompletionInfo appends  *)
(* "~" when force_no_update is set.                                         *)
(*                                                                         *)
(* A flag is a model value; a line is a record saying what it shows (its   *)
(* text is left out).  The input is any state CategorizeAllMatchingFlags   *)
(* can leave: a non-empty match set split over disjoint NotableFlags sets,   *)
(* at most one perfect match (flag names are unique), most_common_flags    *)
(* always empty (nothing fills it).                                        *)
(***************************************************************************)
EXTENDS Integers, FiniteSets, Sequences

LOCAL INSTANCE FiniteSetsExt

CONSTANTS
  Flags,     \* identities of the flags of the snapshot (model values)
  Order,     \* snapshot order: set<const CommandLineFlagInfo*> iterates by address
  NoFlag,    \* model value: the line shows no flag
  MaxLines,  \* 98: max_desired_lines without the '+' modifier
  AllLines   \* 999999: max_desired_lines with return_all_matching_flags

ASSUME /\ Order \in Seq(Flags)
       /\ Len(Order) = Cardinality(Flags)
       /\ \A f \in Flags : \E i \in DOMAIN Order : Order[i] = f
ASSUME NoFlag \notin Flags
ASSUME MaxLines \in Nat /\ AllLines \in Nat /\ MaxLines < AllLines

\* The NotableFlags sets in precedence order, then the "Other flags" group.
Candidates == <<"perfect", "module", "package", "common", "subpackage", "other">>
NotableKinds == {"perfect", "module", "package", "common", "subpackage"}

Rank(k) == CHOOSE i \in DOMAIN Candidates : Candidates[i] = k

\* DisplayInfoGroup literals: only the perfect-match group has an empty
\* header, only "-* Other flags *-" has an empty footer.
HasHeader(k) == k # "perfect"
HasFooter(k) == k # "other"

\* DisplayInfoGroup::SizeInLines
SizeInLines(k, members) ==
  Cardinality(members) + 1 + (IF HasHeader(k) THEN 1 ELSE 0)
                           + (IF HasFooter(k) THEN 1 ELSE 0)

\* Mutant: a notable set forgotten in the exclusion test.
RetrieveUnusedFlagsNoSubpackage(matches, nf) ==
  {f \in matches : \A k \in NotableKinds \ {"subpackage"} : f \notin nf[k]}

\* RetrieveUnusedFlags: the matches in none of the NotableFlags sets.
RetrieveUnusedFlags(matches, nf) ==
  {f \in matches : \A k \in NotableKinds : f \notin nf[k]}

\* The member a std::set iteration reaches first.
FirstOf(S) ==
  Order[CHOOSE i \in DOMAIN Order :
          Order[i] \in S /\ \A j \in 1..(i - 1) : Order[j] \notin S]

VARIABLES
  matching,          \* matching_flags (input)
  notable,           \* NotableFlags (input)
  returnAll,         \* options->return_all_matching_flags (input)
  forceNoUpdate,     \* options->force_no_update
  pc,                \* "select", "emit", "finish", "done"
  cand,              \* the candidate group the selection pass examines
  linesSoFar,        \* lines_so_far
  outputGroups,      \* output_groups: <<[kind, members]>>
  indent,            \* indent
  gi,                \* the group being written
  stage,             \* "start" (before the header) or "flags"
  pending,           \* members of the group not yet written
  remaining,         \* remaining_lines
  completionsOutput, \* completions_output
  longFormat,        \* perfect_match_found, passed as long_output_format
  completions        \* completions: <<[kind, grp, indent, flag, long]>>

vars == <<matching, notable, returnAll, forceNoUpdate, pc, cand, linesSoFar,
          outputGroups, indent, gi, stage, pending, remaining,
          completionsOutput, longFormat, completions>>

\* Mutant: the '+' modifier ignored.
BudgetIgnoringReturnAll == MaxLines

\* max_desired_lines
Budget == IF returnAll THEN AllLines ELSE MaxLines

\* The members a candidate group would have.
Members(k) ==
  IF k = "other" THEN RetrieveUnusedFlags(matching, notable) ELSE notable[k]

CurGroup == outputGroups[gi]

Line(kind, f, long) ==
  [kind |-> kind, grp |-> CurGroup.kind, indent |-> indent, flag |-> f,
   long |-> long]

Init ==
  /\ matching \in SUBSET Flags \ {{}}
  /\ \E cls \in [matching -> {"perfect", "module", "package", "subpackage",
                              "other"}] :
        /\ Cardinality({f \in matching : cls[f] = "perfect"}) <= 1
        /\ notable = [k \in NotableKinds |-> {f \in matching : cls[f] = k}]
  /\ returnAll \in BOOLEAN
  /\ forceNoUpdate = FALSE
  /\ pc = "select"
  /\ cand = 1
  /\ linesSoFar = 0
  /\ outputGroups = <<>>
  /\ indent = 0
  /\ gi = 1
  /\ stage = "start"
  /\ pending = {}
  /\ remaining = 0
  /\ completionsOutput = 0
  /\ longFormat = FALSE
  /\ completions = <<>>

-----------------------------------------------------------------------------
(* Selection pass.  A non-empty group is planned while lines_so_far is      *)
(* below the budget; the perfect-match block has no budget test.           *)

\* Mutant: the group is planned only if all of it fits.
SelectableWholeGroup(k) ==
  /\ k = "perfect" \/ linesSoFar + SizeInLines(k, Members(k)) < Budget
  /\ Members(k) # {}

Selectable(k) ==
  /\ k = "perfect" \/ linesSoFar < Budget
  /\ Members(k) # {}

SelectGroup ==
  /\ pc = "select" /\ cand <= Len(Candidates)
  /\ Selectable(Candidates[cand])
  /\ LET k == Candidates[cand] IN
       /\ outputGroups' = Append(outputGroups, [kind |-> k, members |-> Members(k)])
       /\ linesSoFar' = linesSoFar + SizeInLines(k, Members(k))
       /\ longFormat' = (longFormat \/ k = "perfect")
  /\ cand' = cand + 1
  /\ UNCHANGED <<matching, notable, returnAll, forceNoUpdate, pc, indent, gi,
                 stage, pending, remaining, completionsOutput, completions>>

SkipGroup ==
  /\ pc = "select" /\ cand <= Len(Candidates)
  /\ ~Selectable(Candidates[cand])
  /\ cand' = cand + 1
  /\ UNCHANGED <<matching, notable, returnAll, forceNoUpdate, pc, linesSoFar,
                 outputGroups, indent, gi, stage, pending, remaining,
                 completionsOutput, longFormat, completions>>

\* remaining_lines = max_desired_lines; indent = output_groups.size() - 1
BeginEmission ==
  /\ pc = "select" /\ cand = Len(Candidates) + 1
  /\ pc' = "emit"
  /\ remaining' = Budget
  /\ completionsOutput' = 0
  /\ indent' = Len(outputGroups) - 1
  /\ gi' = 1
  /\ stage' = "start"
  /\ UNCHANGED <<matching, notable, returnAll, forceNoUpdate, cand, linesSoFar,
                 outputGroups, pending, longFormat, completions>>

-----------------------------------------------------------------------------
(* Emission pass: one OutputSingleGroupWithLimit call per planned group.   *)

\* Mutants: --indent forgotten; perfect_match_found never reset.
NextGroupKeepIndent ==
  /\ gi' = gi + 1
  /\ indent' = indent
  /\ longFormat' = FALSE
  /\ stage' = "start"

NextGroupKeepLong ==
  /\ gi' = gi + 1
  /\ indent' = indent - 1
  /\ longFormat' = longFormat
  /\ stage' = "start"

\* After each call: ++it, --indent, perfect_match_found = false.
NextGroup ==
  /\ gi' = gi + 1
  /\ indent' = indent - 1
  /\ longFormat' = FALSE
  /\ stage' = "start"

\* Mutant: the header written without the two-line test.
EmitHeaderNoLimitCheck ==
  /\ pc = "emit" /\ gi <= Len(outputGroups) /\ stage = "start"
  /\ CurGroup.members # {}
  /\ HasHeader(CurGroup.kind)
  /\ remaining' = remaining - 2
  /\ completions' = completions \o <<Line("header", NoFlag, FALSE),
                                     Line("underline", NoFlag, FALSE)>>
  /\ stage' = "flags"
  /\ pending' = CurGroup.members
  /\ UNCHANGED <<matching, notable, returnAll, forceNoUpdate, pc, cand,
                 linesSoFar, outputGroups, indent, gi, completionsOutput,
                 longFormat>>

\* Header and its dashed underline, when two lines remain.
EmitHeader ==
  /\ pc = "emit" /\ gi <= Len(outputGroups) /\ stage = "start"
  /\ CurGroup.members # {}
  /\ HasHeader(CurGroup.kind) /\ remaining >= 2
  /\ remaining' = remaining - 2
  /\ completions' = completions \o <<Line("header", NoFlag, FALSE),
                                     Line("underline", NoFlag, FALSE)>>
  /\ stage' = "flags"
  /\ pending' = CurGroup.members
  /\ UNCHANGED <<matching, notable, returnAll, forceNoUpdate, pc, cand,
                 linesSoFar, outputGroups, indent, gi, completionsOutput,
                 longFormat>>

\* The perfect-match group has an empty header: straight to its flags.
StartHeaderless ==
  /\ pc = "emit" /\ gi <= Len(outputGroups) /\ stage = "start"
  /\ CurGroup.members # {}
  /\ ~HasHeader(CurGroup.kind)
  /\ stage' = "flags"
  /\ pending' = CurGroup.members
  /\ UNCHANGED <<matching, notable, returnAll, forceNoUpdate, pc, cand,
                 linesSoFar, outputGroups, indent, gi, remaining,
                 completionsOutput, longFormat, completions>>

\* `if (group.empty()) return;` and `if (*remaining_line_limit < 2) return;`
\* before the header: the group writes nothing, its footer included.
GroupReturnsEarly ==
  /\ pc = "emit" /\ gi <= Len(outputGroups) /\ stage = "start"
  /\ \/ CurGroup.members = {}
     \/ HasHeader(CurGroup.kind) /\ remaining < 2
  /\ NextGroup
  /\ UNCHANGED <<matching, notable, returnAll, forceNoUpdate, pc, cand,
                 linesSoFar, outputGroups, pending, remaining,
                 completionsOutput, completions>>

\* Mutant: the iterator not advanced past the written flag.
EmitFlagNoAdvance ==
  /\ pc = "emit" /\ gi <= Len(outputGroups) /\ stage = "flags"
  /\ pending # {} /\ remaining > 0
  /\ completions' = Append(completions, Line("flag", FirstOf(pending), longFormat))
  /\ remaining' = remaining - 1
  /\ completionsOutput' = completionsOutput + 1
  /\ UNCHANGED <<matching, notable, returnAll, forceNoUpdate, pc, cand,
                 linesSoFar, outputGroups, indent, gi, stage, pending,
                 longFormat>>

\* One iteration of the member loop, while a line remains.
EmitFlag ==
  /\ pc = "emit" /\ gi <= Len(outputGroups) /\ stage = "flags"
  /\ pending # {} /\ remaining > 0
  /\ LET f == FirstOf(pending) IN
       /\ completions' = Append(completions, Line("flag", f, longFormat))
       /\ pending' = pending \ {f}
  /\ remaining' = remaining - 1
  /\ completionsOutput' = completionsOutput + 1
  /\ UNCHANGED <<matching, notable, returnAll, forceNoUpdate, pc, cand,
                 linesSoFar, outputGroups, indent, gi, stage, longFormat>>

LoopDone == pending = {} \/ remaining <= 0

\* The footer, when the group has one and a line remains.
EmitFooter ==
  /\ pc = "emit" /\ gi <= Len(outputGroups) /\ stage = "flags"
  /\ LoopDone
  /\ HasFooter(CurGroup.kind) /\ remaining >= 1
  /\ remaining' = remaining - 1
  /\ completions' = Append(completions, Line("footer", NoFlag, FALSE))
  /\ NextGroup
  /\ UNCHANGED <<matching, notable, returnAll, forceNoUpdate, pc, cand,
                 linesSoFar, outputGroups, pending, completionsOutput>>

SkipFooter ==
  /\ pc = "emit" /\ gi <= Len(outputGroups) /\ stage = "flags"
  /\ LoopDone
  /\ ~HasFooter(CurGroup.kind) \/ remaining < 1
  /\ NextGroup
  /\ UNCHANGED <<matching, notable, returnAll, forceNoUpdate, pc, cand,
                 linesSoFar, outputGroups, pending, remaining,
                 completionsOutput, completions>>

\* completions_output != matching_flags.size(): the hidden-flags line,
\* otherwise force_no_update.
Verdict ==
  /\ pc = "emit" /\ gi > Len(outputGroups)
  /\ IF completionsOutput # Cardinality(matching)
       THEN /\ forceNoUpdate' = FALSE
            /\ completions' = Append(completions,
                 [kind |-> "hidden", grp |-> "other", indent |-> 0,
                  flag |-> NoFlag, long |-> FALSE])
       ELSE /\ forceNoUpdate' = TRUE
            /\ UNCHANGED completions
  /\ pc' = "finish"
  /\ UNCHANGED <<matching, notable, returnAll, cand, linesSoFar, outputGroups,
                 indent, gi, stage, pending, remaining, completionsOutput,
                 longFormat>>

\* PrintFlagCompletionInfo: `if (options.force_no_update)
\* completions.push_back("~");`
AppendNoUpdateMarker ==
  /\ pc = "finish"
  /\ completions' = IF forceNoUpdate
                      THEN Append(completions,
                             [kind |-> "noupdate", grp |-> "other",
                              indent |-> 0, flag |-> NoFlag, long |-> FALSE])
                      ELSE completions
  /\ pc' = "done"
  /\ UNCHANGED <<matching, notable, returnAll, forceNoUpdate, cand, linesSoFar,
                 outputGroups, indent, gi, stage, pending, remaining,
                 completionsOutput, longFormat>>

\* The lines are printed and the process exits.
Terminated == pc = "done" /\ UNCHANGED vars

Next ==
  \/ SelectGroup \/ SkipGroup \/ BeginEmission
  \/ EmitHeader \/ StartHeaderless \/ GroupReturnsEarly
  \/ EmitFlag \/ EmitFooter \/ SkipFooter
  \/ Verdict \/ AppendNoUpdateMarker
  \/ Terminated

Spec == Init /\ [][Next]_vars

-----------------------------------------------------------------------------
(* Properties                                                              *)

LineKinds == {"header", "underline", "flag", "footer", "hidden", "noupdate"}
Kinds == {Candidates[i] : i \in DOMAIN Candidates}

ListingKinds == {"header", "underline", "flag", "footer"}
ListingLines == {i \in DOMAIN completions : completions[i].kind \in ListingKinds}
FlagLines == {i \in DOMAIN completions : completions[i].kind = "flag"}
Shown == {completions[i].flag : i \in FlagLines}
HiddenLinePresent == \E i \in DOMAIN completions : completions[i].kind = "hidden"

\* Lines the complete listing needs: each non-empty group's flags, header
\* and underline, and footer.
NeededLines ==
  MapThenSumSet(LAMBDA k : Cardinality(Members(k))
                             + (IF HasHeader(k) THEN 2 ELSE 0)
                             + (IF HasFooter(k) THEN 1 ELSE 0),
                {k \in Kinds : Members(k) # {}})

TypeOK ==
  /\ matching \subseteq Flags
  /\ notable \in [NotableKinds -> SUBSET Flags]
  /\ returnAll \in BOOLEAN
  /\ forceNoUpdate \in BOOLEAN
  /\ pc \in {"select", "emit", "finish", "done"}
  /\ cand \in 1..(Len(Candidates) + 1)
  /\ linesSoFar \in Nat
  /\ outputGroups \in Seq([kind : Kinds, members : SUBSET Flags])
  /\ indent \in Int
  /\ gi \in Nat \ {0}
  /\ stage \in {"start", "flags"}
  /\ pending \subseteq Flags
  /\ remaining \in Int
  /\ completionsOutput \in 0..Cardinality(Flags)
  /\ longFormat \in BOOLEAN
  /\ completions \in Seq([kind : LineKinds, grp : Kinds, indent : Int,
                          flag : Flags \cup {NoFlag}, long : BOOLEAN])

\* Budget law: FinalizeCompletionOutput and OutputSingleGroupWithLimit
\* never write more header, underline, flag and footer lines than
\* max_desired_lines, however the groups are sized and cut, and the marker
\* lines ("(Remaining flags hidden)", "~") come only last.
ListingWithinBudget ==
  /\ Cardinality(ListingLines) <= Budget
  /\ \A i \in DOMAIN completions : i \notin ListingLines => i = Len(completions)

\* The verdict of FinalizeCompletionOutput counts written flag lines
\* (completions_output) and compares the count with matching_flags.size();
\* it must mean the set: force_no_update is set exactly when every matching
\* flag is listed, the hidden-flags line appears exactly when one is not,
\* and no flag is listed twice.
VerdictMatchesListing ==
  pc = "done" =>
    /\ forceNoUpdate <=> Shown = matching
    /\ HiddenLinePresent <=> Shown # matching
    /\ \A i, j \in FlagLines : completions[i].flag = completions[j].flag => i = j

\* Bash sorts the lines it is given; the decreasing indentation of the
\* emission loop keeps groups in relevance order: a line of an earlier
\* group is indented strictly more than any line of a later group, the
\* groups come in NotableFlags precedence order, and no indentation is
\* negative (string(indent, ' ') with a negative indent cannot be built).
GroupsOrderedByRelevance ==
  \A i, j \in ListingLines :
    /\ completions[i].indent >= 0
    /\ i < j /\ completions[i].grp # completions[j].grp =>
         /\ completions[i].indent > completions[j].indent
         /\ Rank(completions[i].grp) < Rank(completions[j].grp)

\* Only the flag whose name equals the search token is shown in the long
\* format: perfect_match_found is passed as long_output_format for the
\* first group and reset after every group.
LongFormatOnlyForPerfectMatch ==
  \A i \in FlagLines :
    completions[i].long <=> completions[i].flag \in notable["perfect"]

\* The selection pass plans groups by DisplayInfoGroup::SizeInLines, the
\* emission pass spends lines differently (two for a header, none for the
\* "+ 1"); still, when the budget can hold the complete listing, every
\* matching flag is listed and force_no_update is set.  With the '+'
\* modifier (budget 999999) this is the case for any realistic flag count.
FitsThenAllShown ==
  pc = "done" /\ NeededLines <= Budget => Shown = matching /\ forceNoUpdate

\* spec.md 4.5 says the very first selected group renders each member in
\* the long format.  The code passes perfect_match_found, so a first group
\* that is not the perfect-match group is rendered short.
FirstGroupRenderedLong ==
  \A i \in FlagLines :
    completions[i].grp = outputGroups[1].kind => completions[i].long

=============================================================================
