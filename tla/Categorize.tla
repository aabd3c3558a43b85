------------------------------ MODULE Categorize ------------------------------
(***************************************************************************)
(* Step 3) of src/src/gflags_completions.cc: TryFindModuleAndPackageDir     *)
(* guesses the binary's own source file (module) and its directory         *)
(* (package_dir) from the flags' file names, then CategorizeAllMatching-   *)
(* Flags puts each matching flag into the first NotableFlags set whose     *)
(* test it passes.  Paths are strings (sequences of characters); one step  *)
(* per examined match.                                                    *)
(***************************************************************************)
EXTENDS Integers, Sequences, FiniteSets, CppString

LOCAL INSTANCE SequencesExt

CONSTANTS
  Sep,          \* PATH_SEPARATOR
  ProgName,     \* ProgramInvocationShortName()
  SuffixTails,  \* the suffixes pushed by PushNameWithSuffix, in order
  Paths,        \* possible CommandLineFlagInfo::filename values
  FlagNames,    \* the snapshot's flag names, in snapshot order
  Tokens        \* possible canonical search tokens

NFlags == Len(FlagNames)

\* PushNameWithSuffix: "/<program><suffix>"
SuffixPatterns == [j \in DOMAIN SuffixTails |-> <<Sep>> \o ProgName \o SuffixTails[j]]

\* (flag, suffix) pairs in the order of the nested loops.
Before(a, b) == a[1] < b[1] \/ (a[1] = b[1] /\ a[2] < b[2])

VARIABLES
  files,        \* all_flags[i].filename (input)
  token,        \* search_token (input)
  matching,     \* all_matches, as snapshot indices (input)
  module,       \* module
  packageDir,   \* package_dir
  todo,         \* matches not yet examined
  notable,      \* NotableFlags
  pc            \* "locate", "categorize"

vars == <<files, token, matching, module, packageDir, todo, notable, pc>>

Hits == {<<i, j>> \in (1..NFlags) \X DOMAIN SuffixPatterns :
           Find(files[i], SuffixPatterns[j], 0) # NPos}

NotableKinds == {"perfect", "module", "package", "common", "subpackage"}

Init ==
  /\ files \in [1..NFlags -> Paths]
  /\ token \in Tokens
  /\ matching \in SUBSET (1..NFlags) \ {{}}
  /\ module = <<>>
  /\ packageDir = <<>>
  /\ todo = {}
  /\ notable = [k \in NotableKinds |-> {}]
  /\ pc = "locate"

\* Mutant: all flags categorised instead of the matching ones.
ExaminedAllFlags == 1..NFlags

\* The set CategorizeAllMatchingFlags iterates: all_matches.
Examined == matching

\* The first (flag, suffix) hit wins: module is its file name, package_dir
\* the part before the last separator (empty if there is none).
ModuleFound ==
  /\ pc = "locate" /\ Hits # {}
  /\ LET h == CHOOSE h \in Hits : \A o \in Hits \ {h} : Before(h, o)
         path == files[h[1]]
         sep == RFind(path, Sep)
     IN /\ module' = path
        /\ packageDir' = Substr0(path, IF sep = NPos THEN 0 ELSE sep)
  /\ todo' = Examined
  /\ pc' = "categorize"
  /\ UNCHANGED <<files, token, matching, notable>>

ModuleNotFound ==
  /\ pc = "locate" /\ Hits = {}
  /\ todo' = Examined
  /\ pc' = "categorize"
  /\ UNCHANGED <<files, token, matching, module, packageDir, notable>>

\* The match the set iteration reaches next (address = snapshot order).
Cur == CHOOSE i \in todo : \A j \in todo : i <= j

\* pos: where package_dir occurs in the file name (npos if package_dir is
\* empty); slash: the next separator, searched from one past the character
\* that follows the package_dir occurrence.
Pos == IF packageDir # <<>> THEN Find(files[Cur], packageDir, 0) ELSE NPos

\* Mutant: the separator search starts right after package_dir.
SlashAtEnd ==
  IF Pos # NPos THEN Find(files[Cur], <<Sep>>, Pos + Len(packageDir)) ELSE NPos

Slash ==
  IF Pos # NPos THEN Find(files[Cur], <<Sep>>, Pos + Len(packageDir) + 1) ELSE NPos

Put(k) ==
  /\ notable' = [notable EXCEPT ![k] = @ \cup {Cur}]
  /\ todo' = todo \ {Cur}
  /\ UNCHANGED <<files, token, matching, module, packageDir, pc>>

IsModule == module # <<>> /\ files[Cur] = module

\* Mutant: the module test made before the perfect-match test.
IsPerfectUnlessModule == FlagNames[Cur] = token /\ ~IsModule

IsPerfect == FlagNames[Cur] = token
InPackage == packageDir # <<>> /\ Pos # NPos /\ Slash = NPos
InSubpackage == packageDir # <<>> /\ Pos # NPos /\ Slash # NPos

PerfectMatch ==
  /\ pc = "categorize" /\ todo # {}
  /\ IsPerfect
  /\ Put("perfect")

ModuleMatch ==
  /\ pc = "categorize" /\ todo # {}
  /\ ~IsPerfect /\ IsModule
  /\ Put("module")

PackageMatch ==
  /\ pc = "categorize" /\ todo # {}
  /\ ~IsPerfect /\ ~IsModule /\ InPackage
  /\ Put("package")

SubpackageMatch ==
  /\ pc = "categorize" /\ todo # {}
  /\ ~IsPerfect /\ ~IsModule /\ ~InPackage /\ InSubpackage
  /\ Put("subpackage")

\* "Result: not special match": the flag stays in no NotableFlags set.
NotSpecial ==
  /\ pc = "categorize" /\ todo # {}
  /\ ~IsPerfect /\ ~IsModule /\ ~InPackage /\ ~InSubpackage
  /\ todo' = todo \ {Cur}
  /\ UNCHANGED <<files, token, matching, module, packageDir, notable, pc>>

\* All matches examined.
Terminated == pc = "categorize" /\ todo = {} /\ UNCHANGED vars

Next ==
  \/ ModuleFound \/ ModuleNotFound
  \/ PerfectMatch \/ ModuleMatch \/ PackageMatch \/ SubpackageMatch
  \/ NotSpecial
  \/ Terminated

Spec == Init /\ [][Next]_vars

-----------------------------------------------------------------------------
(* Properties                                                              *)

Chars == UNION {Range(p) : p \in Paths}

TypeOK ==
  /\ files \in [1..NFlags -> Paths]
  /\ token \in Tokens
  /\ matching \subseteq 1..NFlags
  /\ module \in Paths \cup {<<>>}
  /\ packageDir \in Seq(Chars)
  /\ todo \subseteq 1..NFlags
  /\ notable \in [NotableKinds -> SUBSET matching]
  /\ pc \in {"locate", "categorize"}

Done == pc = "categorize" /\ todo = {}

\* The directory part of a path: everything before its last separator.
Dir(path) == LET sep == RFind(path, Sep) IN
             IF sep = NPos THEN <<>> ELSE SubSeq(path, 1, sep)

InDir(path) == Dir(path) = packageDir
BelowDir(path) == IsPrefix(packageDir \o <<Sep>>, Dir(path))

\* No flag of the binary's own directory tree is missed: once all matches
\* are examined, a matching flag defined directly in package_dir is in the
\* perfect-match, module or package set, and one defined below it is in the
\* perfect-match, module or sub-package set.
DirectoryFlagsNotMissed ==
  Done /\ packageDir # <<>> =>
    \A i \in matching :
      /\ InDir(files[i]) =>
           i \in notable["perfect"] \cup notable["module"] \cup notable["package"]
      /\ BelowDir(files[i]) =>
           i \in notable["perfect"] \cup notable["module"] \cup notable["subpackage"]

\* The NotableFlags comments say package flags are "Found in same directory
\* as module file" and sub-package flags "Found in subdirectories of
\* package"; spec.md 4.4 says a package flag has no separator after the
\* package_dir occurrence.  The code tests string::find(package_dir)
\* anywhere in the path and skips the character after it.
DirectoryBucketsExact ==
  Done =>
    /\ \A i \in notable["package"] : InDir(files[i])
    /\ \A i \in notable["subpackage"] : BelowDir(files[i])

=============================================================================
