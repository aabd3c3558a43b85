--------------------------- MODULE MCShellLauncher ---------------------------
(* Words of up to three characters over a letter, the dash and the double *)
(* quote, which bash passes inside a word it completes; a -C command with no *)
(* arguments or one; command lines for a binary on the PATH, a binary      *)
(* behind time or env, a bare time, an executable file off the PATH, and a *)
(* command that is neither.                                                *)
EXTENDS ShellLauncher

MCChars == {"a", "-", Q, Bs, "$"}
MCPrevWords == {<<>>}

MCConfigured == {<<>>, << <<"8">> >>}

MCB == <<"b">>
MCF == <<".", "/", "f">>
MCX == <<"x">>
MCCompLines ==
  { <<MCB>>, <<<<"t", "i", "m", "e">>, MCB>>, <<<<"e", "n", "v">>, MCF>>,
    <<<<"t", "i", "m", "e">>>>, <<MCF>>, <<MCX>> }
MCInPath == {MCB}
MCExecFiles == {MCF}
\* No variable the word names is set.
MCVarValue == <<>>
=============================================================================
