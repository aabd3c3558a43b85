---------------------------- MODULE LongFlagLine ----------------------------
(***************************************************************************)
(* GetLongFlagLine of src/src/gflags_completions.cc: the detailed form of  *)
(* a completion, built from DescribeOneFlag's text.  The straight-line     *)
(* edits (dash doubling, the breaks before the type and default fields,    *)
(* the "Details for" and "defined:" frame) are one step; each iteration of *)
(* the doubled-newline loop and of the reflow loop is a step.  Texts are   *)
(* sequences of one-character strings.                                     *)
(***************************************************************************)
EXTENDS Integers, Sequences, CppString

CONSTANTS
  Columns,       \* values of FLAGS_tab_completion_columns
  Indents,       \* values of line_indentation
  Names,         \* values of info.name
  Descs,         \* the description as DescribeOneFlag lays it out
  TypeName,      \* info.type
  DefaultText,   \* the default value DescribeOneFlag prints
  FileName       \* info.filename

\* FLAGS_tab_completion_columns is an int32 flag with no validator: any
\* value the command line gives.
ASSUME Columns \subseteq Int

NL == "\n"
Sp(n) == Repeat(n, " ")

\* " Details for '--", "':\n", "    defined: "
DetailsFor == <<" ", "D", "e", "t", "a", "i", "l", "s", " ", "f", "o", "r",
                " ", "'", "-", "-">>
DetailsEnd == <<"'", ":", NL>>
Defined == Sp(4) \o <<"d", "e", "f", "i", "n", "e", "d", ":", " ">>

TypeField == <<"t", "y", "p", "e", ":">>
DefaultField == <<"d", "e", "f", "a", "u", "l", "t", ":">>

\* kNewlineWithIndent and kDoubledNewlines
NewlineWithIndent == <<NL>> \o Sp(4)

\* Mutant: the doubled newline spelled with the six spaces of the break.
DoubledNewlinesSix == <<NL>> \o Sp(6) \o <<NL>>

DoubledNewlines == <<NL>> \o Sp(5) \o <<NL>>

\* The breaks AddString of DescribeOneFlag puts before "type:" and
\* "default:": a space, or a newline and six spaces when the line is full.
FieldBreaks == {<<" ">>, <<NL>> \o Sp(6)}

\* DescribeOneFlag (gflags_reporting.cc, not under src): "    -name (desc)",
\* then the type and default fields after their breaks, then a newline.
DescribeOneFlag(name, desc, b1, b2) ==
  Sp(4) \o <<"-">> \o name \o <<" ", "(">> \o desc \o <<")">>
    \o b1 \o TypeField \o <<" ">> \o TypeName
    \o b2 \o DefaultField \o <<" ">> \o DefaultText \o <<NL>>

\* The edits before the loops: '-name' becomes '--name', a newline and
\* indentation replace the space before "type:" and "default:", and the
\* text is framed by the "Details for" line and the "defined:" field.
Framed(indent, name, text) ==
  LET old == <<"-">> \o name
      o1  == Replace(text, Find(text, old, 0), Len(old), <<"-">> \o old)
      o2  == Replace(o1, Find(o1, <<" ">> \o TypeField, 0), 1, NewlineWithIndent)
      o3  == Replace(o2, Find(o2, <<" ">> \o DefaultField, 0), 1, NewlineWithIndent)
  IN indent \o DetailsFor \o name \o DetailsEnd \o o3 \o Defined \o FileName

VARIABLES
  columns, indent, name, desc, b1, b2,   \* inputs
  output,         \* output
  lineOfSpaces,   \* the static line_of_spaces
  missingSpaces,  \* missing_spaces of the last reflow iteration
  collapsed,      \* ghost: output when the doubled-newline loop ended
  rowStarts,      \* ghost: where the text after each replaced newline starts
  pc              \* "describe", "collapse", "reflow", "done", "crash"

inputs == <<columns, indent, name, desc, b1, b2>>
vars == <<inputs, output, lineOfSpaces, missingSpaces, collapsed, rowStarts, pc>>

Init ==
  /\ columns \in Columns
  /\ indent \in Indents
  /\ name \in Names
  /\ desc \in Descs
  /\ b1 \in FieldBreaks
  /\ b2 \in FieldBreaks
  /\ output = <<>>
  /\ lineOfSpaces = <<>>
  /\ missingSpaces = 0
  /\ collapsed = <<>>
  /\ rowStarts = {}
  /\ pc = "describe"

\* From `DescribeOneFlag(info)` to the StringPrintf of the frame; the static
\* line_of_spaces is built on the first call.
Describe ==
  /\ pc = "describe" /\ columns >= 0
  /\ output' = Framed(indent, name, DescribeOneFlag(name, desc, b1, b2))
  /\ lineOfSpaces' = Sp(columns)
  /\ pc' = "collapse"
  /\ UNCHANGED <<inputs, missingSpaces, collapsed, rowStarts>>

\* `line_of_spaces(FLAGS_tab_completion_columns, ' ')`: a negative int
\* becomes a size_t beyond max_size(), std::length_error is thrown and
\* nothing catches it, so the process aborts.
LineOfSpacesTooLong ==
  /\ pc = "describe" /\ columns < 0
  /\ pc' = "crash"
  /\ UNCHANGED <<inputs, output, lineOfSpaces, missingSpaces, collapsed, rowStarts>>

\* One iteration of the doubled-newline loop.
CollapseDoubled ==
  /\ pc = "collapse"
  /\ Find(output, DoubledNewlines, 0) # NPos
  /\ output' = Replace(output, Find(output, DoubledNewlines, 0),
                       Len(DoubledNewlines), <<NL>>)
  /\ UNCHANGED <<inputs, lineOfSpaces, missingSpaces, collapsed, rowStarts, pc>>

CollapseDone ==
  /\ pc = "collapse"
  /\ Find(output, DoubledNewlines, 0) = NPos
  /\ collapsed' = output
  /\ pc' = "reflow"
  /\ UNCHANGED <<inputs, output, lineOfSpaces, missingSpaces, rowStarts>>

\* Mutant: the column position taken without the modulo.
MissingSpacesNoModulo(newline) == columns - newline

\* `newline_pos = newline % columns; missing_spaces = columns - newline_pos;`
MissingSpaces(newline) == columns - (newline % columns)

\* One iteration of the reflow loop: `output.replace(newline, 1,
\* line_of_spaces, 1, missing_spaces)` copies at most size - 1 spaces.
Reflow ==
  /\ pc = "reflow" /\ columns # 0
  /\ Find(output, <<NL>>, 0) # NPos
  /\ LET newline == Find(output, <<NL>>, 0)
         missing == MissingSpaces(newline)
         pad     == IF missing < Len(lineOfSpaces) - 1
                    THEN missing ELSE Len(lineOfSpaces) - 1
     IN /\ output' = Replace(output, newline, 1, Sp(pad))
        /\ missingSpaces' = missing
        /\ rowStarts' = rowStarts \cup {newline + pad}
  /\ UNCHANGED <<inputs, lineOfSpaces, collapsed, pc>>

\* `newline % FLAGS_tab_completion_columns` with a zero width: integer
\* division by zero, undefined behaviour that the x86 build turns into
\* SIGFPE, so the process dies.
ReflowDivideByZero ==
  /\ pc = "reflow" /\ columns = 0
  /\ Find(output, <<NL>>, 0) # NPos
  /\ pc' = "crash"
  /\ UNCHANGED <<inputs, output, lineOfSpaces, missingSpaces, collapsed, rowStarts>>

\* `return output;`
ReflowDone ==
  /\ pc = "reflow"
  /\ Find(output, <<NL>>, 0) = NPos
  /\ pc' = "done"
  /\ UNCHANGED <<inputs, output, lineOfSpaces, missingSpaces, collapsed, rowStarts>>

\* The line is returned, or the process has died.
Terminated == pc \in {"done", "crash"} /\ UNCHANGED vars

Next ==
  \/ Describe \/ LineOfSpacesTooLong
  \/ CollapseDoubled \/ CollapseDone
  \/ Reflow \/ ReflowDivideByZero \/ ReflowDone
  \/ Terminated

Spec == Init /\ [][Next]_vars

-----------------------------------------------------------------------------
(* Properties                                                              *)

TypeOK ==
  /\ output \in Seq(STRING)
  /\ missingSpaces \in 0..columns \/ missingSpaces = 0
  /\ rowStarts \subseteq Nat
  /\ pc \in {"describe", "collapse", "reflow", "done", "crash"}

\* The layout spec.md 4.6 gives the long format before the reflow: the
\* "Details for" line, the flag line with '--name', then the type, default
\* and defined fields, each on a line of its own indented by four spaces,
\* with no blank line, whichever breaks DescribeOneFlag chose.
Layout ==
  indent \o DetailsFor \o name \o DetailsEnd
    \o Sp(4) \o <<"-", "-">> \o name \o <<" ", "(">> \o desc \o <<")">>
    \o NewlineWithIndent \o TypeField \o <<" ">> \o TypeName
    \o NewlineWithIndent \o DefaultField \o <<" ">> \o DefaultText
    \o <<NL>> \o Defined \o FileName

\* After GetLongFlagLine's edits and its doubled-newline loop, the text is
\* exactly that layout.
LongLineLayout == pc \in {"reflow", "done"} => collapsed = Layout

\* spec.md 4.6: each line break is replaced by the spaces that pad the line
\* out to the next multiple of the column width, so every line of the
\* layout starts at the beginning of a terminal row.
LongLineRowsAligned == \A s \in rowStarts : s % columns = 0

=============================================================================
