---------------------------- MODULE MCCategorize ----------------------------
(* Program "p"; three flags "a", "b", "c" whose files are drawn from paths *)
(* chosen for the cases the two functions tell apart: the program's file   *)
(* under two suffixes and in a mid-path match, a sibling file, a file one  *)
(* level down, directories whose names contain the package directory, and  *)
(* an unrelated directory.                                                 *)
EXTENDS Categorize

MCSuffixTails ==
  << <<".">>,
     <<"-", "m", "a", "i", "n", ".">>, <<"_", "m", "a", "i", "n", ".">>,
     <<"-", "t", "e", "s", "t", ".">>, <<"_", "t", "e", "s", "t", ".">>,
     <<"-", "u", "n", "i", "t", "t", "e", "s", "t", ".">>,
     <<"_", "u", "n", "i", "t", "t", "e", "s", "t", ".">> >>

MCPaths ==
  { <<"d", "/", "p", ".", "c">>,                    \* d/p.c
    <<"d", "/", "x", ".", "c">>,                    \* d/x.c
    <<"d", "/", "e", "/", "x", ".", "c">>,          \* d/e/x.c
    <<"x", "d", "/", "x", ".", "c">>,               \* xd/x.c
    <<"d", "d", "/", "x", ".", "c">>,               \* dd/x.c
    <<"e", "/", "x", ".", "c">>,                    \* e/x.c
    <<"e", "/", "p", "_", "t", "e", "s", "t", ".", "c">>,  \* e/p_test.c
    <<"e", "/", "p", ".", "d", "/", "x", ".", "c">> }      \* e/p.d/x.c

MCSep == "/"
MCProgName == <<"p">>
MCFlagNames == << <<"a">>, <<"b">>, <<"c">> >>
MCTokens == { <<"a">>, <<"a", "a">> }
=============================================================================
