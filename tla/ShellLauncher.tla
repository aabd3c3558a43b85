---------------------------- MODULE ShellLauncher ----------------------------
(***************************************************************************)
(* src/src/gflags_completions.sh: bash runs it for a compspec with the -C  *)
(* command's own arguments followed by three more: the command being       *)
(* completed, the word being completed and the word before it.  The script *)
(* picks the word and the binary, builds a parameter string in which each  *)
(* argument is wrapped in double quotes, and evals "<binary> <params>".    *)
(* Words are sequences of one-character strings.  eval is modelled by what *)
(* it does to the parameter string over the characters the model uses:    *)
(* double quotes open and close quoting, an unquoted space separates       *)
(* words, a backslash escapes the next character (inside double quotes    *)
(* only $, " and \), $name expands to the variable's value, and an        *)
(* unterminated quote is a syntax error and nothing runs.  Command         *)
(* substitution and positional parameters are left out.                   *)
(***************************************************************************)
EXTENDS Integers, Sequences

LOCAL INSTANCE SequencesExt

CONSTANTS
  Chars,        \* the characters of the word being completed
  MaxWord,      \* its longest length
  PrevWords,    \* possible words before it (the script only counts them)
  Configured,   \* possible argument lists of the -C command
  CompLines,    \* possible $COMP_LINE values, already split into words
  InPath,       \* names for which `type -p` prints a path
  ExecFiles,    \* names that are executable regular files
  VarValue      \* the value a $name in the parameter string expands to

Q == "\""

\* "time" and "env": the commands the compspec may be set up on.
Wrappers == {<<"t", "i", "m", "e">>, <<"e", "n", "v">>}

TabCompletionWord ==
  <<"-", "-", "t", "a", "b", "_", "c", "o", "m", "p", "l", "e", "t", "i", "o",
    "n", "_", "w", "o", "r", "d">>

Words == UNION {[1..n -> Chars] : n \in 0..MaxWord}

Bs == "\\"

\* Characters of a shell variable name.
NameChars == {"a", "b", "c", "d", "e", "f", "g", "h", "i", "j", "k", "l", "m",
              "n", "o", "p", "q", "r", "s", "t", "u", "v", "w", "x", "y", "z", "_"}

\* eval's reading of one character with no escape or expansion pending:
\* the running state holds the quoting, the word being built, whether a
\* word is open, the finished words, a pending backslash and the progress
\* of a $name ("none", "dollar" just after the $, "name" inside the name).
PlainStep(st, c) ==
  CASE c = Q ->
         [st EXCEPT !.quoted = ~st.quoted, !.open = TRUE]
    [] c = Bs -> [st EXCEPT !.esc = TRUE]
    [] c = "$" -> [st EXCEPT !.var = "dollar"]
    [] c = " " /\ ~st.quoted ->
         IF st.open
         THEN [st EXCEPT !.words = Append(@, st.cur), !.cur = <<>>, !.open = FALSE]
         ELSE st
    [] OTHER ->
         [st EXCEPT !.cur = Append(@, c), !.open = TRUE]

\* Inside double quotes a backslash escapes only $, " and itself.
Escaped(st, c) ==
  IF st.quoted /\ c \notin {"$", Q, Bs} THEN <<Bs, c>> ELSE <<c>>

\* The end of a $name: its value replaces it (no splitting: every
\* $name of the model lies inside double quotes).
Expanded(st) ==
  [st EXCEPT !.var = "none", !.cur = @ \o VarValue,
             !.open = @ \/ VarValue # <<>>]

EvalStep(st, c) ==
  CASE st.esc ->
         [st EXCEPT !.esc = FALSE, !.cur = @ \o Escaped(st, c), !.open = TRUE]
    [] st.var # "none" /\ c \in NameChars -> [st EXCEPT !.var = "name"]
    [] st.var = "dollar" ->
         PlainStep([st EXCEPT !.var = "none", !.cur = Append(@, "$"), !.open = TRUE], c)
    [] st.var = "name" -> PlainStep(Expanded(st), c)
    [] OTHER -> PlainStep(st, c)

\* Whether eval accepts the string, and the argument vector it builds.
EvalWords(s) ==
  LET st == FoldLeft(EvalStep, [quoted |-> FALSE, cur |-> <<>>, open |-> FALSE,
                                 words |-> <<>>, esc |-> FALSE, var |-> "none"], s)
  IN [ok |-> ~st.quoted /\ ~st.esc,
      argv |-> IF st.open THEN Append(st.words, st.cur) ELSE st.words]

NotRun == [kind |-> "none", prog |-> <<>>, argv |-> <<>>]

\* `eval "$candidate 2>/dev/null $params"`
Eval(prog, s) ==
  IF EvalWords(s).ok
  THEN [kind |-> "ran", prog |-> prog, argv |-> EvalWords(s).argv]
  ELSE [kind |-> "syntax_error", prog |-> prog, argv |-> <<>>]

VARIABLES
  args,       \* "$@": the -C arguments, then command, word, previous word
  compLine,   \* $COMP_LINE (input)
  word,       \* completion_word
  binary,     \* binary
  params,     \* params
  i,          \* the loop index
  ran,        \* what eval ran, with which arguments
  pc          \* "word", "binary", "params", "run", "done"

vars == <<args, compLine, word, binary, params, i, ran, pc>>

N == Len(args)

Init ==
  /\ \E cfg \in Configured, line \in CompLines, w \in Words, prev \in PrevWords :
        /\ compLine = line
        /\ args = cfg \o <<line[1], w, prev>>
  /\ word = <<>>
  /\ binary = <<>>
  /\ params = <<>>
  /\ i = 1
  /\ ran = NotRun
  /\ pc = "word"

\* `completion_word="${!completion_word_index}"` with index $# - 1.
ReadWord ==
  /\ pc = "word" /\ args[N - 1] # <<>>
  /\ word' = args[N - 1]
  /\ pc' = "binary"
  /\ UNCHANGED <<args, compLine, binary, params, i, ran>>

\* `if [ -z "$completion_word" ]; then exit 0`
EmptyWordExit ==
  /\ pc = "word" /\ args[N - 1] = <<>>
  /\ pc' = "done"
  /\ UNCHANGED <<args, compLine, word, binary, params, i, ran>>

\* `binary="${!binary_index}"` with index $# - 2.
ReadBinary ==
  /\ pc = "binary" /\ args[N - 2] \notin Wrappers
  /\ binary' = args[N - 2]
  /\ pc' = "params"
  /\ UNCHANGED <<args, compLine, word, params, i, ran>>

\* For time or env, `parts=( ${COMP_LINE} ); binary=${parts[1]}`: the
\* second word of the line, empty if there is none.
UnwrapBinary ==
  /\ pc = "binary" /\ args[N - 2] \in Wrappers
  /\ binary' = IF Len(compLine) >= 2 THEN compLine[2] ELSE <<>>
  /\ pc' = "params"
  /\ UNCHANGED <<args, compLine, word, params, i, ran>>

\* Mutant: the loop also passes on the command bash added.
AddParamPastConfig ==
  /\ pc = "params" /\ i <= N - 2
  /\ params' = params \o <<" ", Q>> \o args[i] \o <<Q>>
  /\ i' = i + 1
  /\ UNCHANGED <<args, compLine, word, binary, ran, pc>>

\* One iteration of `for ((i=1; i<=$(($# - 3)); ++i))`:
\* `params="$params \"${!i}\""`.
AddParam ==
  /\ pc = "params" /\ i <= N - 3
  /\ params' = params \o <<" ", Q>> \o args[i] \o <<Q>>
  /\ i' = i + 1
  /\ UNCHANGED <<args, compLine, word, binary, ran, pc>>

\* Mutant: the word appended without the double quotes around it.
AddWordUnquoted ==
  /\ pc = "params" /\ i > N - 3
  /\ params' = params \o <<" ">> \o TabCompletionWord \o <<" ">> \o word
  /\ pc' = "run"
  /\ UNCHANGED <<args, compLine, word, binary, i, ran>>

\* `params="$params --tab_completion_word \"$completion_word\""`
AddWord ==
  /\ pc = "params" /\ i > N - 3
  /\ params' = params \o <<" ">> \o TabCompletionWord \o <<" ", Q>> \o word \o <<Q>>
  /\ pc' = "run"
  /\ UNCHANGED <<args, compLine, word, binary, i, ran>>

\* `candidate=$(type -p "$binary")` is non-empty: eval runs it.
RunCandidate ==
  /\ pc = "run" /\ binary \in InPath
  /\ ran' = Eval(binary, params)
  /\ pc' = "done"
  /\ UNCHANGED <<args, compLine, word, binary, params, i>>

\* `elif [ -f "$binary" ] && [ -x "$binary" ]`: eval runs the file.
RunFile ==
  /\ pc = "run" /\ binary \notin InPath /\ binary \in ExecFiles
  /\ ran' = Eval(binary, params)
  /\ pc' = "done"
  /\ UNCHANGED <<args, compLine, word, binary, params, i>>

\* Neither: the script ends without output.
NotRunnable ==
  /\ pc = "run" /\ binary \notin InPath \cup ExecFiles
  /\ pc' = "done"
  /\ UNCHANGED <<args, compLine, word, binary, params, i, ran>>

Terminated == pc = "done" /\ UNCHANGED vars

Next ==
  \/ ReadWord \/ EmptyWordExit
  \/ ReadBinary \/ UnwrapBinary
  \/ AddParam \/ AddWord
  \/ RunCandidate \/ RunFile \/ NotRunnable
  \/ Terminated

Spec == Init /\ [][Next]_vars

-----------------------------------------------------------------------------
(* Properties                                                              *)

TypeOK ==
  /\ args \in Seq(Seq(STRING))
  /\ word \in Words
  /\ params \in Seq(STRING)
  /\ i \in 1..(N - 2)
  /\ ran.kind \in {"none", "ran", "syntax_error"}
  /\ pc \in {"word", "binary", "params", "run", "done"}

\* The program the user is completing: the command, or the word after a
\* time or env in front of it.
Program ==
  IF compLine[1] \in Wrappers
  THEN IF Len(compLine) >= 2 THEN compLine[2] ELSE <<>>
  ELSE compLine[1]

\* The word bash reports as being completed, and the -C arguments.
Completed == args[N - 1]
Config == SubSeq(args, 1, N - 3)

\* spec.md 6: the launcher runs the program being completed, when it can
\* be found, with its own arguments and the word being completed passed
\* unchanged as the value of --tab_completion_word, and runs nothing for an
\* empty word; what reaches the binary is what eval makes of the quoted
\* parameter string.
LauncherPassesWord ==
  pc = "done" =>
    ran = IF Completed # <<>> /\ Program \in InPath \cup ExecFiles
          THEN [kind |-> "ran", prog |-> Program,
                argv |-> Config \o <<TabCompletionWord, Completed>>]
          ELSE NotRun

=============================================================================
