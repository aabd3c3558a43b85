CONSTANTS
  Columns <- MCColumns
  Indents <- MCIndents
  Names <- MCNames
  Descs <- MCMarkerDescs
  TypeName <- MCTypeName
  DefaultText <- MCDefaultText
  FileName <- MCFileName
SPECIFICATION Spec
INVARIANT
  LongLineLayout
