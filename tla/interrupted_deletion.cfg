SPECIFICATION FairSpec
CONSTANTS
  None = None
  NoDelivery = NoDelivery
  a = a
  b = b
  g = g
  k = k
  l = l
  c1 = c1
  c2 = c2
  Backend = "s3"
  Worker = {w1}
  Public = {a, b}
  Generated = {}
  Backup = {k, l}
  Content = {c1, c2}
  Request <- InterruptedRequests
  DefaultDuration = 1
  MaxDuration = 2
  ZoneIsUTC = FALSE
  Exclusive = TRUE
  WriteOnce = FALSE
  FreshContent = TRUE
  Timely = TRUE
  Swift = TRUE
  MaxTime = 2
  MaxRequests = 1
  MaxCrashes = 1
  MaxDisconnects = 0
PROPERTY ExpiredRemoved
CHECK_DEADLOCK FALSE
