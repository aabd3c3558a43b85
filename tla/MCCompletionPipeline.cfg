CONSTANTS
  Chars <- MCChars
  MaxWord = 3
  FlagNames <- MCFlagNames
  Paths <- MCPaths
  Descriptions <- MCDescriptions
  Sep <- MCSep
  ProgName <- MCProgName
  SuffixTails <- MCSuffixTails
  MaxLines = 4
  AllLines = 20
SPECIFICATION FairSpec
INVARIANTS
  TypeOK
  PipelineOutput
  ListedFlagsAdmitted
  PerfectMatchShownLong
  ReturnAllListsEverything
PROPERTY
  CompletionTerminates
