SPECIFICATION Spec
CONSTANTS
  Workers = {w1, w2}
  Clients = {c}
  Instances <- MCInstances
  Burst <- MCBurst
  Interval <- MCInterval
  ExpiresIn <- MCExpiresIn
  Chains <- MCChains
  Limiters = {l1, l2, l3, l4}
  MaxTime = 4
  None = None
SYMMETRY Symmetry
INVARIANTS
  TypeOK
  SpacedAdmitted
  SweepKeepsLimit
  RefusedNotServed
CHECK_DEADLOCK FALSE
