------------------------- MODULE MCCompletionOutput -------------------------
(* Four flags in snapshot order f1..f4.  MaxLines 7 lets a group of three   *)
(* flags leave one line for the next header, and one flag of a second group *)
(* cut off; AllLines 20 exceeds the 14 lines four flags can ever need.     *)
EXTENDS CompletionOutput

CONSTANTS f1, f2, f3, f4

MCFlags == {f1, f2, f3, f4}
MCOrder == <<f1, f2, f3, f4>>
MCMaxLines == 7
MCAllLines == 20
=============================================================================
