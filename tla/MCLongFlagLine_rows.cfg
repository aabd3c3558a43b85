CONSTANTS
  Columns <- MCColumns
  Indents <- MCIndents
  Names <- MCNames
  Descs <- MCDescs
  TypeName <- MCTypeName
  DefaultText <- MCDefaultText
  FileName <- MCFileName
SPECIFICATION Spec
INVARIANT
  LongLineRowsAligned
