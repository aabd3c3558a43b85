------------------------ MODULE LaunchedCanonicalize ------------------------
(***************************************************************************)
(* The two ways the cursor word reaches CanonicalizeCursorWordAndSearch-   *)
(* Options: bash runs gflags_completions.sh, which evals the binary with    *)
(* --tab_completion_word <word>; or the binary is run directly with the    *)
(* flag.  In the first case the binary starts once the script has run it,  *)
(* and FLAGS_tab_completion_word is the argument after the last            *)
(* --tab_completion_word of the argument vector eval built; a binary that  *)
(* eval did not run reads nothing.  The script's and the function's        *)
(* variables are disjoint: the function's are renamed.                     *)
(***************************************************************************)
EXTENDS Integers, Sequences

LOCAL INSTANCE FiniteSetsExt

CONSTANTS
  Chars, MaxWord, PrevWords, Configured, CompLines, InPath, ExecFiles, VarValue,
  TokenChars,    \* the alphabet of words given to the binary directly
  MaxToken       \* their longest length

VARIABLES
  caller,                                          \* "bash" or "direct"
  args, compLine, word, binary, params, i, ran, pc, \* the script
  cursorWord, token, q, p, options, cpc            \* the function

Sh == INSTANCE ShellLauncher
Cn == INSTANCE CanonicalizeToken
        WITH Chars <- TokenChars, MaxWord <- MaxToken, word <- cursorWord, pc <- cpc

shVars == <<args, compLine, word, binary, params, i, ran, pc>>
cnVars == <<cursorWord, token, q, p, options, cpc>>
vars == <<caller, shVars, cnVars>>

\* FLAGS_tab_completion_word after flag parsing of eval's argument vector.
Received(argv) ==
  LET ks == {k \in 1..(Len(argv) - 1) : argv[k] = Sh!TabCompletionWord}
  IN IF ks = {} THEN <<>> ELSE argv[Max(ks) + 1]

Init ==
  \/ /\ caller = "bash"
     /\ Sh!Init
     /\ cursorWord = <<>> /\ token = <<>> /\ q = 0 /\ p = 0
     /\ options = Cn!NoOptions /\ cpc = "idle"
  \/ /\ caller = "direct"
     /\ Cn!Init
     /\ args = <<>> /\ compLine = <<>> /\ word = <<>> /\ binary = <<>>
     /\ params = <<>> /\ i = 1 /\ ran = Sh!NotRun /\ pc = "idle"

\* The script's steps, before the binary starts.
Launch == caller = "bash" /\ pc # "done" /\ Sh!Next /\ UNCHANGED <<caller, cnVars>>

\* The program eval ran starts with the word it parsed.
StartBinary ==
  /\ caller = "bash" /\ pc = "done" /\ cpc = "idle" /\ ran.kind = "ran"
  /\ cursorWord' = Received(ran.argv)
  /\ cpc' = "start"
  /\ UNCHANGED <<caller, shVars, token, q, p, options>>

\* Nothing ran: no word reaches the function.
NoBinary ==
  /\ caller = "bash" /\ pc = "done" /\ cpc = "idle" /\ ran.kind # "ran"
  /\ cpc' = "none"
  /\ UNCHANGED <<caller, shVars, cursorWord, token, q, p, options>>

Canonicalize == cpc \in {"start", "scan"} /\ Cn!Next /\ UNCHANGED <<caller, shVars>>

Terminated == cpc \in {"done", "none"} /\ UNCHANGED vars

Next == Launch \/ StartBinary \/ NoBinary \/ Canonicalize \/ Terminated

Spec == Init /\ [][Next]_vars

-----------------------------------------------------------------------------
(* Properties                                                              *)

TypeOK ==
  /\ caller \in {"bash", "direct"}
  /\ caller = "bash" => Sh!TypeOK
  /\ cpc \notin {"idle", "none"} => Cn!TypeOK

\* LauncherPassesWord of the script, for the bash caller.
LauncherPassesWord == caller = "bash" => Sh!LauncherPassesWord

\* CanonicalizationSound of the function, for either caller.
CanonicalizationSound == Cn!CanonicalizationSound

=============================================================================
