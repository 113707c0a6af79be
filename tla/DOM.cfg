SPECIFICATION DOMSpec
CONSTANTS
  Elements = {e1, e2, e3}
  Documents = {A, B}
  T = T
  Types = {T}
  TypeOf <- OneType
  LookedUp = {T}
  IDs = {i, j}
  SIDs = {s}
  Nothing = Nothing
  MaxVacant = 1
  MaxLeaked = 1
  Zips = {z}
  DOM = DOM
  Closed = Closed
  Freed = Freed
  Threads = {t}
  Tops = {1, 2}
  Subs = {1}
  MaxDepth = 1
SYMMETRY Symmetric
VIEW DOMView
CHECK_DEADLOCK FALSE
INVARIANTS
  TypeOK OneSeat SidsExact IdsSound IdsFound
  ArchivesTypeOK OnePlace Housed ClosedIsEmpty DOMClosedIsEmpty
PROPERTIES
  ImplementsCatalog
  CompactionSparesOpenDocs ImplementsLibrary
