------------------------------ MODULE FlagLine ------------------------------
(***************************************************************************)
(* The line OutputSingleGroupWithLimit pushes for one flag: GetLongFlagLine *)
(* for the group shown in the long format, GetShortFlagLine otherwise.     *)
(* Both read the same FLAGS_tab_completion_columns.  The call not made     *)
(* keeps its variables at rest; the program counters are renamed apart.    *)
(***************************************************************************)
EXTENDS Integers, Sequences

CONSTANTS
  Columns,                                                  \* shared
  IndentLens, NameLens, DefaultLens, Descriptions, SizeWidth, \* short
  Indents, Names, Descs, TypeName, DefaultText, FileName     \* long

VARIABLES
  longOutputFormat,   \* long_output_format
  columns,
  indentLen, nameLen, defaultLen, isString, description,
  prefixLen, remainder, suffix, shortPc,
  indent, name, desc, b1, b2,
  output, lineOfSpaces, missingSpaces, collapsed, rowStarts, longPc

S == INSTANCE ShortFlagLine WITH pc <- shortPc
L == INSTANCE LongFlagLine WITH pc <- longPc

shortVars == <<indentLen, nameLen, defaultLen, isString, description,
               prefixLen, remainder, suffix, shortPc>>
longVars == <<indent, name, desc, b1, b2, output, lineOfSpaces, missingSpaces,
              collapsed, rowStarts, longPc>>
vars == <<longOutputFormat, columns, shortVars, longVars>>

ShortAtRest ==
  /\ indentLen = 0 /\ nameLen = 0 /\ defaultLen = 0 /\ isString = FALSE
  /\ description = <<>> /\ prefixLen = 0 /\ remainder = 0 /\ suffix = <<>>
  /\ shortPc = "idle"

LongAtRest ==
  /\ indent = <<>> /\ name = <<>> /\ desc = <<>>
  /\ b1 = CHOOSE b \in L!FieldBreaks : TRUE
  /\ b2 = CHOOSE b \in L!FieldBreaks : TRUE
  /\ output = <<>> /\ lineOfSpaces = <<>> /\ missingSpaces = 0
  /\ collapsed = <<>> /\ rowStarts = {} /\ longPc = "idle"

\* `long_output_format ? GetLongFlagLine(...) : GetShortFlagLine(...)`
Init ==
  \/ longOutputFormat = TRUE /\ L!Init /\ ShortAtRest
  \/ longOutputFormat = FALSE /\ S!Init /\ LongAtRest

ShortStep == ~longOutputFormat /\ S!Next /\ UNCHANGED <<longOutputFormat, longVars>>
LongStep == longOutputFormat /\ L!Next /\ UNCHANGED <<longOutputFormat, shortVars>>

Next == ShortStep \/ LongStep

Spec == Init /\ [][Next]_vars

-----------------------------------------------------------------------------
(* Properties                                                              *)

TypeOK ==
  /\ longOutputFormat \in BOOLEAN
  /\ IF longOutputFormat THEN L!TypeOK ELSE S!TypeOK

\* ShortLineUsesRoom of GetShortFlagLine, for a short-format line.
ShortLineUsesRoom == ~longOutputFormat => S!ShortLineUsesRoom

\* LongLineLayout of GetLongFlagLine, for a long-format line.
LongLineLayout == longOutputFormat => L!LongLineLayout

=============================================================================
