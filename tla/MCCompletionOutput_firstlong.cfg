CONSTANTS
  f1 = f1
  f2 = f2
  f3 = f3
  f4 = f4
  NoFlag = NoFlag
  Flags <- MCFlags
  Order <- MCOrder
  MaxLines <- MCMaxLines
  AllLines <- MCAllLines
SPECIFICATION Spec
INVARIANT FirstGroupRenderedLong
