---------------------------- MODULE ShortFlagLine ----------------------------
(***************************************************************************)
(* GetShortFlagLine of src/src/gflags_completions.cc: the one-line form of *)
(* a completion, "<indent>--<name> [<default>] <description>", with the    *)
(* description cut to the columns left after the prefix.  The prefix is    *)
(* kept as its length (what SStringPrintf's result is used for); the       *)
(* description is kept as text, since the line shows a part of it.         *)
(* The `int` remainder is converted to `size_t` when passed to substr;    *)
(* SizeWidth is the width of size_t.                                       *)
(***************************************************************************)
EXTENDS Integers, Sequences, CppString
LOCAL INSTANCE SequencesExt

CONSTANTS
  Columns,       \* values of FLAGS_tab_completion_columns
  IndentLens,    \* lengths of line_indentation
  NameLens,      \* lengths of info.name
  DefaultLens,   \* lengths of info.default_value
  Descriptions,  \* values of info.description
  SizeWidth      \* bits of size_t

\* size_t is wider than any description: a wrapped value exceeds its size.
ASSUME SizeWidth \in Nat /\ \A d \in Descriptions : 2^SizeWidth > Len(d) + 3

Ellipsis == <<".", ".", ".">>

\* The value an int argument takes as a size_t parameter.
SizeT(n) == n % (2^SizeWidth)

\* Length of "%s--%s [%s%s%s] " with the quotes around a string default.
PrefixLen(i, n, d, isStr) == i + 2 + n + 2 + d + (IF isStr THEN 2 ELSE 0) + 2

\* Mutant: remainder declared size_t, so the difference wraps.
RemainderUnsigned(c, pl) == SizeT(c - pl)

\* `int remainder = FLAGS_tab_completion_columns - static_cast<int>(prefix.size());`
Remainder(c, pl) == c - pl

\* Mutant: `>=` for `>`.
TooLongOrEqual(d, r) == Len(d) >= r

\* `static_cast<int>(info.description.size()) > remainder`
TooLong(d, r) == Len(d) > r

VARIABLES
  columns, indentLen, nameLen, defaultLen, isString, description,  \* inputs
  prefixLen,   \* prefix.size()
  remainder,   \* remainder
  suffix,      \* suffix
  pc           \* "format", "suffix", "done"

inputs == <<columns, indentLen, nameLen, defaultLen, isString, description>>
vars == <<inputs, prefixLen, remainder, suffix, pc>>

Init ==
  /\ columns \in Columns
  /\ indentLen \in IndentLens
  /\ nameLen \in NameLens
  /\ defaultLen \in DefaultLens
  /\ isString \in BOOLEAN
  /\ description \in Descriptions
  /\ prefixLen = 0
  /\ remainder = 0
  /\ suffix = <<>>
  /\ pc = "format"

\* SStringPrintf of the prefix, then the remainder.
FormatPrefix ==
  /\ pc = "format"
  /\ prefixLen' = PrefixLen(indentLen, nameLen, defaultLen, isString)
  /\ remainder' = Remainder(columns, prefixLen')
  /\ pc' = "suffix"
  /\ UNCHANGED <<inputs, suffix>>

\* `if (remainder > 0)` fails: the suffix stays empty.
NoRoom ==
  /\ pc = "suffix" /\ remainder <= 0
  /\ pc' = "done"
  /\ UNCHANGED <<inputs, prefixLen, remainder, suffix>>

\* `info.description.substr(0, remainder - 3) + "..."`
Truncate ==
  /\ pc = "suffix" /\ remainder > 0 /\ TooLong(description, remainder)
  /\ suffix' = Substr0(description, SizeT(remainder - 3)) \o Ellipsis
  /\ pc' = "done"
  /\ UNCHANGED <<inputs, prefixLen, remainder>>

\* The description fits and is kept whole.
KeepWhole ==
  /\ pc = "suffix" /\ remainder > 0 /\ ~TooLong(description, remainder)
  /\ suffix' = description
  /\ pc' = "done"
  /\ UNCHANGED <<inputs, prefixLen, remainder>>

\* `return prefix + suffix;`
Terminated == pc = "done" /\ UNCHANGED vars

Next == FormatPrefix \/ NoRoom \/ Truncate \/ KeepWhole \/ Terminated

Spec == Init /\ [][Next]_vars

\* The width of the returned line.
Width == prefixLen + Len(suffix)

-----------------------------------------------------------------------------
(* Properties                                                              *)

TypeOK ==
  /\ prefixLen \in Nat
  /\ remainder \in {0} \cup (columns - prefixLen)..columns
  /\ suffix \in Seq(UNION {Range(d) : d \in Descriptions} \cup {"."})
  /\ pc \in {"format", "suffix", "done"}

\* Whenever at least the three columns of "..." are left after the prefix,
\* the line GetShortFlagLine returns fits FLAGS_tab_completion_columns, the
\* description is shown whole exactly when it fits, and a cut description
\* is a prefix of it that fills the line up to the last column.
ShortLineUsesRoom ==
  (pc = "done" /\ remainder >= 3) =>
    /\ Width <= columns
    /\ (suffix = description) <=> (Len(description) <= remainder)
    /\ suffix # description =>
         /\ Width = columns
         /\ IsPrefix(SubSeq(suffix, 1, Len(suffix) - 3), description)

\* The comment above the truncation: a description longer than the columns
\* left is cut so that the line fits, whenever some columns are left.
ShortLineFitsColumns ==
  (pc = "done" /\ remainder > 0) => Width <= columns

=============================================================================
