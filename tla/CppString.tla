------------------------------ MODULE CppString ------------------------------
(***************************************************************************)
(* The std::string operations the completion code relies on.  A string is *)
(* a sequence of one-character strings; positions are 0-based as in C++,   *)
(* and string::npos is NPos.                                               *)
(***************************************************************************)
EXTENDS Integers, Sequences

NPos == -1

\* s.find(pat, from): the least position >= from where pat occurs in s.
Find(s, pat, from) ==
  LET at == {i \in from..(Len(s) - Len(pat)) :
               SubSeq(s, i + 1, i + Len(pat)) = pat}
  IN IF at = {} THEN NPos ELSE CHOOSE i \in at : \A j \in at : i <= j

\* s.rfind(c): the greatest position holding the character c.
RFind(s, c) ==
  LET at == {i \in 0..(Len(s) - 1) : s[i + 1] = c}
  IN IF at = {} THEN NPos ELSE CHOOSE i \in at : \A j \in at : i >= j

\* s.substr(0, n)
Substr0(s, n) == SubSeq(s, 1, IF n < Len(s) THEN n ELSE Len(s))

\* s.replace(pos, len, r): the len characters from position pos become r.
Replace(s, pos, len, r) ==
  SubSeq(s, 1, pos) \o r \o SubSeq(s, pos + len + 1, Len(s))

\* string(n, c)
Repeat(n, c) == [i \in 1..n |-> c]

\* The strings over an alphabet with lengths in a range.
StringsOf(chars, lens) == UNION {[1..n -> chars] : n \in lens}

=============================================================================
