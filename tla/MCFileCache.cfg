\* Safety and liveness of the file cache (no symmetry: it is not sound for liveness).
SPECIFICATION FairCacheSpec
CONSTANTS
  c1 = c1
  c2 = c2
  p1 = p1
  p2 = p2
  p3 = p3
  NoFile = NoFile
  Callers = {c1, c2}
  FilePaths = {p1, p2, p3}
  Sizes = {1, 2, 4}
  MaxSize = 3
  MaxItems = 2
  MaxTime = 2
INVARIANTS
  Accounting
  WithinLimits
PROPERTIES
  CallsReturn
