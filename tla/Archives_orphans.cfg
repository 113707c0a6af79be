SPECIFICATION ArchivesSpec
CONSTANTS
  Documents = {d1, d2}
  Zips = {z}
  DOM = DOM
  Closed = Closed
  Nothing = Nothing
  Freed = Freed
  Threads = {t}
  Tops = {1, 2}
  Subs = {1}
  MaxDepth = 1
CHECK_DEADLOCK FALSE
INVARIANT ArchiveOutlivesItsDocs
