\* Safety: two goroutines, two keys, two values.
SPECIFICATION Spec
\* Every goroutine may be stuck in a Close that came too late.
CHECK_DEADLOCK FALSE
CONSTANTS
  c1 = c1
  c2 = c2
  kt = kt
  kp = kp
  v1 = v1
  v2 = v2
  NoItem = NoItem
  Cleaner = Cleaner
  Callers = {c1, c2}
  Keys = {kt, kp}
  Values = {v1, v2}
  TTLs <- MCTTLs
  MaxTime = 3
SYMMETRY MCSymmetry
INVARIANTS
  NoMapRace
  LockDiscipline
PROPERTIES
  ImplementsCache
  PermanentKeysKept
