CONSTANTS
  asset = asset
  node = node
  Order <- MCOrder
  MaxOccurs <- MCMaxOccurs
  Cycles = 2
  Unnamed = unnamed
  NoName = noname
  MaxNodes = 4
SPECIFICATION ContentsSpec
INVARIANT SchemaOrder
CHECK_DEADLOCK FALSE
