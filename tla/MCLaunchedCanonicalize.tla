---------------------- MODULE MCLaunchedCanonicalize ----------------------
(* From bash: words of up to three characters over a letter, the characters *)
(* the function tests except the quote, and the space; the command lines    *)
(* of MCShellLauncher.  Directly: every word of up to five characters over *)
(* the same characters and the quote, enough for a quote before dashes and *)
(* four '?' (one more than is consumed).                                   *)
EXTENDS LaunchedCanonicalize

MCChars == {"a", "-", "?", "+", " "}
MCTokenChars == MCChars \cup {"\""}
MCPrevWords == {<<>>}
MCConfigured == {<<>>, << <<"8">> >>}
MCB == <<"b">>
MCF == <<".", "/", "f">>
MCTime == <<"t", "i", "m", "e">>
MCCompLines ==
  { <<MCB>>, <<MCTime, MCB>>, <<<<"e", "n", "v">>, MCF>>, <<MCTime>>,
    <<MCF>>, <<<<"x">>>> }
MCInPath == {MCB}
MCExecFiles == {MCF}
\* No variable the word names is set.
MCVarValue == <<>>
=============================================================================
