\* Three goroutines, three seconds.
SPECIFICATION Spec
CONSTANTS
  w1 = w1
  w2 = w2
  w3 = w3
  Workers = {w1, w2, w3}
  Cells = 2
  Configs <- MCConfigs
  Size = 2
  Items = 1
  MaxTime = 3
  MaxMade = 4
  None = None
SYMMETRY Symmetry
INVARIANTS
  DateCurrent
  DateWhole
  InstancesSettle
CHECK_DEADLOCK FALSE
