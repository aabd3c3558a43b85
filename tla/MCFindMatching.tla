--------------------------- MODULE MCFindMatching ---------------------------
(* Three flags with distinct names of one or two letters over {a, b}, in   *)
(* any snapshot order; files and descriptions that contain a token the     *)
(* names lack; every token of up to two letters, the empty one included.  *)
EXTENDS FindMatching

MCNames == StringsOf({"a", "b"}, 1..2)
MCTexts == {<<"a">>, <<"b", "b">>}
MCTokens == StringsOf({"a", "b"}, 0..2)
MCNFlags == 3
=============================================================================
