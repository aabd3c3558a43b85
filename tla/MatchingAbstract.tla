--------------------------- MODULE MatchingAbstract ---------------------------
(***************************************************************************)
(* What the Candidate Matcher of spec.md 4.2 promises, without its loop:   *)
(* in one step, the match set becomes the flags the match rule admits and   *)
(* the shared prefix becomes the longest common prefix of their names.    *)
(* FindMatching is checked to implement this specification.               *)
(***************************************************************************)
EXTENDS Integers, Sequences, FiniteSets

LOCAL INSTANCE SequencesExt

CONSTANTS
  Flags,         \* the possible snapshots: functions from 1..n to flags
  Tokens,        \* possible canonical search tokens
  Modifiers,     \* possible substring modifiers
  NFlags         \* number of flags in the snapshot

VARIABLES
  snapshot,   \* the registry snapshot (input)
  token,      \* the canonical token (input)
  options,    \* the substring modifiers (input)
  matches,    \* the match set, as snapshot indices
  lcp,        \* the shared prefix
  done        \* the matcher has answered

vars == <<snapshot, token, options, matches, lcp, done>>

\* spec.md 4.2's match rule: the name starts with the token, or an enabled
\* substring search finds it in the name, the file or the description.
SpecMatch(f) ==
  \/ IsPrefix(token, f.name)
  \/ options.nameSubstring /\ token \in SubSeqs(f.name)
  \/ options.locationSubstring /\ token \in SubSeqs(f.filename)
  \/ options.descriptionSubstring /\ token \in SubSeqs(f.description)

Admitted == {i \in 1..NFlags : SpecMatch(snapshot[i])}

\* The shared prefix: empty when nothing matches.
SharedPrefix(S) ==
  IF S = {} THEN <<>> ELSE LongestCommonPrefix({snapshot[i].name : i \in S})

Init ==
  /\ snapshot \in Flags
  /\ token \in Tokens
  /\ options \in Modifiers
  /\ matches = {}
  /\ lcp = <<>>
  /\ done = FALSE

Answer ==
  /\ ~done
  /\ matches' = Admitted
  /\ lcp' = SharedPrefix(Admitted)
  /\ done' = TRUE
  /\ UNCHANGED <<snapshot, token, options>>

Spec == Init /\ [][Answer]_vars

=============================================================================
