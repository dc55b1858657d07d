SPECIFICATION Spec
CONSTANTS
  None = None
  NoDelivery = NoDelivery
  a = a
  b = b
  g = g
  k = k
  l = l
  c1 = c1
  c2 = c2
  Backend = "basic"
  Worker = {w1, w2}
  Public = {a, b}
  Generated = {g}
  Backup = {}
  Content = {c1, c2}
  Request <- WriteOnceRequests
  DefaultDuration = 1
  MaxDuration = 1
  ZoneIsUTC = FALSE
  Exclusive = TRUE
  WriteOnce = TRUE
  FreshContent = FALSE
  Timely = FALSE
  Swift = FALSE
  MaxTime = 2
  MaxRequests = 3
  MaxCrashes = 1
  MaxDisconnects = 1
SYMMETRY Symmetric
PROPERTIES RemovedForCause AcknowledgedVisible ImplementsScheduler
CHECK_DEADLOCK FALSE
