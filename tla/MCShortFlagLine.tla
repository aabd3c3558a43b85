--------------------------- MODULE MCShortFlagLine ---------------------------
EXTENDS ShortFlagLine

\* Columns from "no room at all" to "room for the whole description":
\* prefixes are 7..13 columns long, descriptions 0..5.
MCColumns == 6..14
MCDescriptions == StringsOf({"a", "b"}, 0..5)

=============================================================================
