\* Two goroutines, with two objects in each pool and one buffer.
SPECIFICATION Spec
CONSTANTS
  w1 = w1
  w2 = w2
  Workers = {w1, w2}
  t1 = t1
  t2 = t2
  t3 = t3
  raw1 = raw1
  Requests = {t1, t2, t3}
  HeadRequests = {t2}
  Params <- MCParams
  Query <- MCQuery
  Sends <- MCSends
  Size <- MCSize
  Names = {"Server", "Content-Type"}
  r1 = r1
  r2 = r2
  y1 = y1
  y2 = y2
  x1 = x1
  x2 = x2
  s1 = s1
  s2 = s2
  b1 = b1
  Reqs = {r1, r2}
  Recs = {y1, y2}
  Ctxs = {x1, x2}
  Stores = {s1, s2}
  Bufs = {b1}
  Fixed = 2
  Unrolled = 1
  MaxCalls <- MCCalls
  None = None
SYMMETRY Symmetry
INVARIANTS
  ErrorsShow
  BodyUnlessShared
  HeadersLost
PROPERTY
  ImplementsExchange
CHECK_DEADLOCK FALSE
