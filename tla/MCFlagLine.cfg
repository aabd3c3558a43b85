CONSTANTS
  Columns <- MCColumns
  IndentLens = {0, 1, 2}
  NameLens = {1, 2}
  DefaultLens = {0, 1}
  Descriptions <- MCDescriptions
  SizeWidth = 8
  Indents <- MCIndents
  Names <- MCNames
  Descs <- MCDescs
  TypeName <- MCTypeName
  DefaultText <- MCDefaultText
  FileName <- MCFileName
SPECIFICATION Spec
INVARIANTS
  TypeOK
  ShortLineUsesRoom
  LongLineLayout
