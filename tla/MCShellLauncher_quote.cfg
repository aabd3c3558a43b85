CONSTANTS
  Chars <- MCChars
  MaxWord = 3
  PrevWords <- MCPrevWords
  Configured <- MCConfigured
  CompLines <- MCCompLines
  InPath <- MCInPath
  ExecFiles <- MCExecFiles
  VarValue <- MCVarValue
SPECIFICATION Spec
INVARIANT
  LauncherPassesWord
