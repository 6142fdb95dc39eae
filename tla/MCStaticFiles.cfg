\* Two requests or preloads at a time for two files, one of which is replaced.
SPECIFICATION Spec
\* A goroutine that has read MaxRead chunks stops there.
CHECK_DEADLOCK FALSE
CONSTANTS
  w1 = w1
  w2 = w2
  pm = pm
  pl = pl
  f1 = f1
  f2 = f2
  f3 = f3
  None = None
  Workers = {w1, w2}
  Paths = {pm, pl}
  InMemory = {pm}
  Large = {pl}
  Kinds <- MCKinds
  Length = 2
  Span <- MCSpan
  MaxFDs = 1
  Fds = {f1, f2, f3}
  MaxVersion = 2
  MaxRead = 2
SYMMETRY MCSymmetry
INVARIANTS
  DescriptorsSound
  QuietIsRight
  OneVersion
