------------------------------ MODULE MCFlagLine ------------------------------
(* The constants of MCShortFlagLine and MCLongFlagLine, with one set of    *)
(* widths: the zero and negative values the flag accepts, and 6-14, from   *)
(* no room after a short prefix to room for the whole description.        *)
EXTENDS FlagLine

LOCAL INSTANCE CppString

MCColumns == {-1, 0} \cup 6..14
MCDescriptions == StringsOf({"a", "b"}, 0..5)
MCIndents == {<<>>, <<" ">>}
MCNames == {<<"n">>, <<"n", "m">>}
MCDescs == {<<>>, <<"a">>, <<"a", "\n", " ", " ", " ", " ", " ", " ", "a">>}
MCTypeName == <<"b">>
MCDefaultText == <<"0">>
MCFileName == <<"f">>
=============================================================================
