-------------------------- MODULE CanonicalizeToken --------------------------
(***************************************************************************)
(* Step 1) of src/src/gflags_completions.cc: CanonicalizeCursorWordAndSearch- *)
(* Options turns the cursor word into the canonical search token and the    *)
(* CompletionOptions.  A word is a sequence of one-character strings over a *)
(* small alphabet holding the characters the function tests ('"', '-', '?', *)
(* '+') and one ordinary name character.  Each iteration of the trailing    *)
(* `while (true)` loop is a step.                                          *)
(***************************************************************************)
EXTENDS Integers, Sequences, SequencesExt

CONSTANTS
  Chars,     \* the alphabet of cursor words
  MaxWord    \* longest cursor word enumerated

ASSUME {"\"", "-", "?", "+"} \subseteq Chars
ASSUME MaxWord \in Nat

\* The cursor words: FLAGS_tab_completion_word up to MaxWord characters.
Words == UNION {[1..n -> Chars] : n \in 0..MaxWord}

NoOptions ==
  [nameSubstring |-> FALSE, locationSubstring |-> FALSE,
   descriptionSubstring |-> FALSE, returnAll |-> FALSE, forceNoUpdate |-> FALSE]

\* Mutant: the leading quote kept.
KeepQuote(s) == s

\* `if ((*canonical_search_token)[0] == '"') ... substr(1)`
DropQuote(s) == IF s # <<>> /\ s[1] = "\"" THEN Tail(s) ELSE s

\* `while ((*canonical_search_token)[0] == '-') ... substr(1)`; on an empty
\* string operator[] yields '\0', which ends the loop.
RECURSIVE DropDashes(_)
DropDashes(s) == IF s # <<>> /\ s[1] = "-" THEN DropDashes(Tail(s)) ELSE s

\* RemoveTrailingChar would remove c: the string is non-empty and ends in c.
EndsWith(s, c) == s # <<>> /\ Last(s) = c

VARIABLES
  word,      \* cursor_word (input)
  token,     \* *canonical_search_token
  q,         \* found_question_marks
  p,         \* found_plusses
  options,   \* *options
  pc         \* "start", "scan", "done"

vars == <<word, token, q, p, options, pc>>

Init ==
  /\ word \in Words
  /\ token = <<>>
  /\ q = 0
  /\ p = 0
  /\ options = NoOptions
  /\ pc = "start"

\* `if (canonical_search_token->empty()) return;` with the options as the
\* CompletionOptions constructor left them.
EmptyWord ==
  /\ pc = "start" /\ word = <<>>
  /\ token' = word
  /\ pc' = "done"
  /\ UNCHANGED <<word, q, p, options>>

\* Copy the word, drop a leading quote and the leading dashes, reset the
\* options and the counters.
StripLeading ==
  /\ pc = "start" /\ word # <<>>
  /\ token' = DropDashes(DropQuote(word))
  /\ options' = NoOptions
  /\ q' = 0
  /\ p' = 0
  /\ pc' = "scan"
  /\ UNCHANGED word

\* Mutant: a fourth '?' consumed.
TakeQuestionFour == q <= 3 /\ EndsWith(token, "?")

TakeQuestion == q < 3 /\ EndsWith(token, "?")

\* `if (found_question_marks < 3 && RemoveTrailingChar(token, '?'))`
StripQuestion ==
  /\ pc = "scan" /\ TakeQuestion
  /\ token' = Front(token)
  /\ q' = q + 1
  /\ UNCHANGED <<word, p, options, pc>>

TakePlus == p < 1 /\ EndsWith(token, "+")

\* `if (found_plusses < 1 && RemoveTrailingChar(token, '+'))`, tried only
\* when no '?' was removed in this iteration.
StripPlus ==
  /\ pc = "scan" /\ ~TakeQuestion /\ TakePlus
  /\ token' = Front(token)
  /\ p' = p + 1
  /\ UNCHANGED <<word, q, options, pc>>

\* The options the counts select: one '?' name, two also location, three
\* also description substring search; a '+' returns all matching flags.
OptionsFor(qn, pn) ==
  [nameSubstring |-> qn > 0, locationSubstring |-> qn > 1,
   descriptionSubstring |-> qn > 2, returnAll |-> pn > 0,
   forceNoUpdate |-> FALSE]

\* `break;` then the options set from the counts.
EndScan ==
  /\ pc = "scan" /\ ~TakeQuestion /\ ~TakePlus
  /\ options' = OptionsFor(q, p)
  /\ pc' = "done"
  /\ UNCHANGED <<word, token, q, p>>

\* The function has returned.
Terminated == pc = "done" /\ UNCHANGED vars

Next ==
  \/ EmptyWord \/ StripLeading
  \/ StripQuestion \/ StripPlus \/ EndScan
  \/ Terminated

Spec == Init /\ [][Next]_vars

-----------------------------------------------------------------------------
(* Properties                                                              *)

TypeOK ==
  /\ word \in Words
  /\ token \in Seq(Chars)
  /\ q \in 0..3
  /\ p \in 0..1
  /\ options \in [{"nameSubstring", "locationSubstring", "descriptionSubstring",
                   "returnAll", "forceNoUpdate"} -> BOOLEAN]
  /\ pc \in {"start", "scan", "done"}

CountOf(s, c) == Len(SelectSeq(s, LAMBDA x : x = c))

\* spec.md 4.1, stated on the finished result rather than on the loop: the
\* word is a leading part (its quote if it starts with one, then dashes),
\* the token, and a
\* tail of at most three '?' and at most one '+' in any order; the token
\* starts with no dash, cannot lose a further '?' or '+' within those
\* limits, and the options are the cumulative ones of the tail's counts.
\* The empty word leaves everything as constructed.
CanonicalizationSound ==
  pc = "done" =>
    IF word = <<>>
    THEN token = <<>> /\ options = NoOptions
    ELSE \E k \in 0..Len(word) :
           LET lead == SubSeq(word, 1, k)
               rest == SubSeq(word, k + 1, Len(word))
               tail == SubSeq(rest, Len(token) + 1, Len(rest))
               qn   == CountOf(tail, "?")
               pn   == CountOf(tail, "+")
           IN /\ \A i \in DOMAIN lead : lead[i] = "-" \/ (i = 1 /\ lead[i] = "\"")
              /\ word[1] = "\"" => k >= 1
              /\ rest = <<>> \/ rest[1] # "-"
              /\ IsPrefix(token, rest)
              /\ Len(tail) = qn + pn /\ qn <= 3 /\ pn <= 1
              /\ ~(EndsWith(token, "?") /\ qn < 3)
              /\ ~(EndsWith(token, "+") /\ pn < 1)
              /\ options = [nameSubstring |-> qn >= 1,
                            locationSubstring |-> qn >= 2,
                            descriptionSubstring |-> qn >= 3,
                            returnAll |-> pn = 1, forceNoUpdate |-> FALSE]

=============================================================================
