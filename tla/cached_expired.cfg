SPECIFICATION Spec
CONSTANTS
  None = None
  a = a
  b = b
  g = g
  k = k
  l = l
  c1 = c1
  c2 = c2
  Worker = {w1}
  Public = {a, b}
  Generated = {g}
  Backup = {k, l}
  Content = {c1, c2}
  Request <- ExpiredRequests
  DefaultDuration = 1
  DefaultTTL = 1
  ZoneIsUTC = TRUE
  MaxDuration = 2
  MaxTime = 2
  MaxRequests = 2
  MaxFaults = 0
PROPERTY ExpiredNotServed
CHECK_DEADLOCK FALSE
