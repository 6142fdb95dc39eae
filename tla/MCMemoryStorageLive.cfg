\* Liveness: two goroutines, one key that can expire, one value.
SPECIFICATION FairSpec
\* Every goroutine may be stuck in a Close that came too late.
CHECK_DEADLOCK FALSE
CONSTANTS
  c1 = c1
  c2 = c2
  kt = kt
  kp = kp
  v1 = v1
  v2 = v2
  NoItem = NoItem
  Cleaner = Cleaner
  Callers = {c1, c2}
  Keys = {kt}
  Values = {v1}
  TTLs <- MCTTLs
  MaxTime = 3
PROPERTIES
  CallsReturn
  ExpiredSwept
