CONSTANTS
  Chars <- MCChars
  MaxWord = 3
  PrevWords <- MCPrevWords
  Configured <- MCConfigured
  CompLines <- MCCompLines
  InPath <- MCInPath
  ExecFiles <- MCExecFiles
  VarValue <- MCVarValue
  TokenChars <- MCTokenChars
  MaxToken = 5
SPECIFICATION Spec
INVARIANTS
  TypeOK
  LauncherPassesWord
  CanonicalizationSound
