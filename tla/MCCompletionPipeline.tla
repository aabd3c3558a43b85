------------------------ MODULE MCCompletionPipeline ------------------------
(* Program "p"; cursor words of up to three characters over the name      *)
(* letters, the dash and the modifiers; three flags "ab", "b" and "abb"    *)
(* (so a token can have a longer shared prefix, be a whole name, or be     *)
(* found only inside a name, and a match can follow a cleared prefix)      *)
(* whose files are drawn from the program's own  *)
(* file, a sibling, a file one level down, and a directory whose name      *)
(* contains the package directory.  The line cap is lowered to 4 so that    *)
(* three flags can exceed it.                                              *)
EXTENDS CompletionPipeline

MCChars == {"a", "b", "-", "?", "+"}
MCFlagNames == << <<"a", "b">>, <<"b">>, <<"a", "b", "b">> >>
MCPaths ==
  { <<"a", "/", "p", ".", "c">>,              \* a/p.c
    <<"a", "/", "b", ".", "c">>,              \* a/b.c
    <<"a", "/", "b", "/", "c", ".", "c">>,    \* a/b/c.c
    <<"b", "a", "/", "c", ".", "c">> }        \* ba/c.c
MCDescriptions == {<<"b">>}
MCSep == "/"
MCProgName == <<"p">>
MCSuffixTails ==
  << <<".">>,
     <<"-", "m", "a", "i", "n", ".">>, <<"_", "m", "a", "i", "n", ".">>,
     <<"-", "t", "e", "s", "t", ".">>, <<"_", "t", "e", "s", "t", ".">>,
     <<"-", "u", "n", "i", "t", "t", "e", "s", "t", ".">>,
     <<"_", "u", "n", "i", "t", "t", "e", "s", "t", ".">> >>
=============================================================================
