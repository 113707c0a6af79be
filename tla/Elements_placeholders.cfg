SPECIFICATION Spec
CONSTANTS
  Elements = {e1, e2}
  Documents = {A, B}
  T = T
  Types = {T}
  TypeOf <- OneType
  LookedUp = {T}
  IDs = {i}
  SIDs = {}
  Nothing = Nothing
  MaxVacant = 1
  MaxLeaked = 1
SYMMETRY Symmetric
VIEW View
CHECK_DEADLOCK FALSE
INVARIANT TraversalsEnd
