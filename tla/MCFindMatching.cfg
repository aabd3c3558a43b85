CONSTANTS
  Names <- MCNames
  Paths <- MCTexts
  Descriptions <- MCTexts
  Tokens <- MCTokens
  NFlags <- MCNFlags
SPECIFICATION Spec
INVARIANTS
  TypeOK
PROPERTIES
  MatcherRefinesAbstract
