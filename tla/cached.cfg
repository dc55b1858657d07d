SPECIFICATION Spec
CONSTANTS
  None = None
  a = a
  b = b
  g = g
  k = k
  l = l
  c1 = c1
  c2 = c2
  Worker = {w1, w2}
  Public = {a, b}
  Generated = {g}
  Backup = {k, l}
  Content = {c1, c2}
  Request <- AllRequests
  DefaultDuration = 1
  DefaultTTL = 1
  ZoneIsUTC = TRUE
  MaxDuration = 2
  MaxTime = 3
  MaxRequests = 3
  MaxFaults = 1
SYMMETRY Symmetric
INVARIANTS TypeOK BoundedStaleness Coherent ListingCurrent
CHECK_DEADLOCK FALSE
