CONSTANTS
  Sep <- MCSep
  ProgName <- MCProgName
  SuffixTails <- MCSuffixTails
  Paths <- MCPaths
  FlagNames <- MCFlagNames
  Tokens <- MCTokens
SPECIFICATION Spec
INVARIANTS
  TypeOK
  DirectoryFlagsNotMissed
