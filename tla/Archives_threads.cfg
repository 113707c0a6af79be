SPECIFICATION FairSpec
CONSTANTS
  Documents = {d}
  Zips = {z}
  DOM = DOM
  Closed = Closed
  Nothing = Nothing
  Freed = Freed
  Threads = {t1, t2}
  Tops = {1, 2}
  Subs = {1}
  MaxDepth = 2
CHECK_DEADLOCK FALSE
INVARIANTS
  ParkedWhileMoving
  OneOperation
PROPERTIES
  CloseByConsent
  OperationsEnd
