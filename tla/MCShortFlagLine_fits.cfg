CONSTANTS
  Columns <- MCColumns
  IndentLens = {0, 1, 2}
  NameLens = {1, 2}
  DefaultLens = {0, 1}
  Descriptions <- MCDescriptions
  SizeWidth = 8
SPECIFICATION Spec
INVARIANT
  ShortLineFitsColumns
