\* Three requests of two clients; a session lasts for a tick.  (Restart is always
\* possible, so there is no deadlock to look for.)
SPECIFICATION Spec
CONSTANTS
  w1 = w1
  w2 = w2
  ca = ca
  cb = cb
  None = None
  Workers = {w1, w2}
  Clients = {ca, cb}
  Expiration = 1
  Second = 2
  StandardCookie = FALSE
  MaxRequests = 3
  MaxTime = 2
SYMMETRY MCSymmetry
INVARIANTS
  Isolation
  SessionEnds
  SilentIsLost
PROPERTIES
  StaysLockedOut
