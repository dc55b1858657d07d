SPECIFICATION FaultySpec
CONSTANTS
  None = None
  NoDelivery = NoDelivery
  a = a
  b = b
  g = g
  k = k
  l = l
  c1 = c1
  c2 = c2
  Backend = "s3"
  Worker = {w1, w2}
  Public = {a}
  Generated = {g}
  Backup = {k, l}
  Content = {c1, c2}
  Request <- FaultyRequests
  DefaultDuration = 1
  MaxDuration = 1
  ZoneIsUTC = FALSE
  Exclusive = FALSE
  WriteOnce = FALSE
  FreshContent = FALSE
  Timely = FALSE
  Swift = FALSE
  MaxTime = 2
  MaxRequests = 2
  MaxErrors = 2
  MaxCrashes = 1
  MaxDisconnects = 0
SYMMETRY Symmetric
INVARIANTS TypeOK Scheduled HandlersScheduled ConsumerHoldsDue
CHECK_DEADLOCK FALSE
