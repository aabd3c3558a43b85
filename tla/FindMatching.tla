----------------------------- MODULE FindMatching -----------------------------
(***************************************************************************)
(* Step 2) of src/src/gflags_completions.cc: FindMatchingFlags walks the    *)
(* flag snapshot, keeps the flags DoesSingleFlagMatch accepts, and shrinks  *)
(* the longest common prefix of their names as it goes.  One step per loop  *)
(* iteration.  A matched flag is identified by its index in the snapshot,   *)
(* as the code identifies it by its address in the vector.                 *)
(***************************************************************************)
EXTENDS Integers, Sequences, FiniteSets, CppString

LOCAL INSTANCE SequencesExt

CONSTANTS
  Names,         \* possible flag names (strings)
  Paths,         \* possible CommandLineFlagInfo::filename values
  Descriptions,  \* possible CommandLineFlagInfo::description values
  Tokens,        \* possible canonical search tokens
  NFlags         \* number of flags in the snapshot

ASSUME NFlags \in Nat \ {0}

Flag == [name : Names, filename : Paths, description : Descriptions]

\* GetAllFlags: registered flags have unique names.
Snapshots ==
  {s \in [1..NFlags -> Flag] :
     \A i, j \in 1..NFlags : s[i].name = s[j].name => i = j}

\* The substring options CanonicalizeCursorWordAndSearchOptions can set:
\* cumulative in the number of trailing '?'.
SearchOptions ==
  {[nameSubstring |-> qn >= 1, locationSubstring |-> qn >= 2,
    descriptionSubstring |-> qn >= 3] : qn \in 0..3}

\* Mutant: the name substring test made without its option.
DoesSingleFlagMatchAnySubstring(flag, opts, tok) ==
  LET pos == Find(flag.name, tok, 0) IN
  \/ pos # NPos
  \/ opts.locationSubstring /\ Find(flag.filename, tok, 0) # NPos
  \/ opts.descriptionSubstring /\ Find(flag.description, tok, 0) # NPos

\* DoesSingleFlagMatch
DoesSingleFlagMatch(flag, opts, tok) ==
  LET pos == Find(flag.name, tok, 0) IN
  \/ pos = 0
  \/ opts.nameSubstring /\ pos # NPos
  \/ opts.locationSubstring /\ Find(flag.filename, tok, 0) # NPos
  \/ opts.descriptionSubstring /\ Find(flag.description, tok, 0) # NPos

\* The `while` loop's exit position: the length of the common prefix.
CommonPrefixLen(a, b) ==
  CHOOSE k \in 0..Len(a) :
    /\ k <= Len(b)
    /\ SubSeq(a, 1, k) = SubSeq(b, 1, k)
    /\ k = Len(a) \/ k = Len(b) \/ a[k + 1] # b[k + 1]

VARIABLES
  snapshot,    \* all_flags (input)
  token,       \* match_token (input)
  options,     \* options (input)
  it,          \* the loop iterator, as an index into all_flags
  matches,     \* *all_matches
  lcp,         \* *longest_common_prefix
  firstMatch   \* first_match

vars == <<snapshot, token, options, it, matches, lcp, firstMatch>>

Init ==
  /\ snapshot \in Snapshots
  /\ token \in Tokens
  /\ options \in SearchOptions
  /\ it = 1
  /\ matches = {}
  /\ lcp = <<>>
  /\ firstMatch = TRUE

Matches == DoesSingleFlagMatch(snapshot[it], options, token)

NoMatch ==
  /\ it <= NFlags /\ ~Matches
  /\ it' = it + 1
  /\ UNCHANGED <<snapshot, token, options, matches, lcp, firstMatch>>

\* Mutant: first_match never cleared.
FirstMatchKeepsFirst ==
  /\ it <= NFlags /\ Matches /\ firstMatch
  /\ matches' = matches \cup {it}
  /\ lcp' = snapshot[it].name
  /\ it' = it + 1
  /\ UNCHANGED <<snapshot, token, options, firstMatch>>

\* The first match initialises the prefix to its name.
FirstMatch ==
  /\ it <= NFlags /\ Matches /\ firstMatch
  /\ matches' = matches \cup {it}
  /\ lcp' = snapshot[it].name
  /\ firstMatch' = FALSE
  /\ it' = it + 1
  /\ UNCHANGED <<snapshot, token, options>>

\* Mutant: `continue` skips the iterator's increment.
MatchClearsPrefixNoAdvance ==
  /\ it <= NFlags /\ Matches /\ ~firstMatch
  /\ lcp = <<>> \/ snapshot[it].name = <<>>
  /\ matches' = matches \cup {it}
  /\ lcp' = <<>>
  /\ UNCHANGED <<snapshot, token, options, firstMatch, it>>

\* `if (longest_common_prefix->empty() || it->name.empty())`: clear, continue.
MatchClearsPrefix ==
  /\ it <= NFlags /\ Matches /\ ~firstMatch
  /\ lcp = <<>> \/ snapshot[it].name = <<>>
  /\ matches' = matches \cup {it}
  /\ lcp' = <<>>
  /\ it' = it + 1
  /\ UNCHANGED <<snapshot, token, options, firstMatch>>

\* Compare character by character and erase from the first difference.
MatchShrinksPrefix ==
  /\ it <= NFlags /\ Matches /\ ~firstMatch
  /\ lcp # <<>> /\ snapshot[it].name # <<>>
  /\ matches' = matches \cup {it}
  /\ lcp' = SubSeq(lcp, 1, CommonPrefixLen(lcp, snapshot[it].name))
  /\ it' = it + 1
  /\ UNCHANGED <<snapshot, token, options, firstMatch>>

\* The loop has run over all flags.
Terminated == it > NFlags /\ UNCHANGED vars

Next ==
  \/ NoMatch \/ FirstMatch \/ MatchClearsPrefix \/ MatchShrinksPrefix
  \/ Terminated

Spec == Init /\ [][Next]_vars

-----------------------------------------------------------------------------
(* Properties                                                              *)

TypeOK ==
  /\ snapshot \in Snapshots
  /\ token \in Tokens
  /\ options \in SearchOptions
  /\ it \in 1..(NFlags + 1)
  /\ matches \subseteq 1..NFlags
  /\ lcp \in Seq(UNION {Range(n) : n \in Names})
  /\ firstMatch \in BOOLEAN
  /\ firstMatch <=> matches = {}

\* The matcher of spec.md 4.2 as one atomic step.  Until the loop has run
\* over all flags the caller has no answer; then it holds matches and lcp.
Abstract ==
  INSTANCE MatchingAbstract
    WITH Flags <- Snapshots, Modifiers <- SearchOptions,
         matches <- IF it > NFlags THEN matches ELSE {},
         lcp <- IF it > NFlags THEN lcp ELSE <<>>,
         done <- it > NFlags

SpecMatch(f) == Abstract!SpecMatch(f)

\* FindMatchingFlags implements the matcher of spec.md 4.2: the flags that
\* DoesSingleFlagMatch keeps through string::find positions are exactly
\* those the match rule of the search modifiers admits (a plain search
\* lists only prefix matches), and the prefix built incrementally
\* (initialised by the first match, cleared for good once empty, shrunk at
\* the first differing character) is the longest common prefix of all
\* matched names, empty with no match.
MatcherRefinesAbstract == Abstract!Spec

=============================================================================
