SPECIFICATION Spec
CONSTANTS
  None = None
  NoDelivery = NoDelivery
  a = a
  b = b
  g = g
  k = k
  l = l
  c1 = c1
  c2 = c2
  Backend = "s3"
  Worker = {w1}
  Public = {a, b}
  Generated = {}
  Backup = {k, l}
  Content = {c1, c2}
  Request <- PermanentRequests
  DefaultDuration = 1
  MaxDuration = 2
  ZoneIsUTC = FALSE
  Exclusive = TRUE
  WriteOnce = FALSE
  FreshContent = FALSE
  Timely = TRUE
  Swift = TRUE
  MaxTime = 4
  MaxRequests = 3
  MaxCrashes = 0
  MaxDisconnects = 0
PROPERTY PermanentKept
CHECK_DEADLOCK FALSE
