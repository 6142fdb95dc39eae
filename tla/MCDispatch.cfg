\* Two requests at a time over five routes, with and without middleware of the router.
SPECIFICATION Spec
CONSTANTS
  w1 = w1
  w2 = w2
  x1 = x1
  x2 = x2
  g = g
  m = m
  n = n
  hA = hA
  hB = hB
  hC = hC
  rA = rA
  rB = rB
  rC = rC
  rD = rD
  rE = rE
  None = None
  Workers = {w1, w2}
  Ctxs = {x1, x2}
  Funcs = {g, m, n, hA, hB, hC}
  Code <- MCCode
  CallsNext = {g, m, n}
  Routes = {rA, rB, rC, rD, rE}
  Handlers <- MCHandlers
  GlobalFuncs = {g}
  MaxUse = 1
  Fixed = 1
  MaxIndex = 3
SYMMETRY MCSymmetry
INVARIANTS
  TypeOK
  RunsInOrder
  NextInert
PROPERTY
  OnlyFailureStops
