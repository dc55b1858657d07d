SPECIFICATION FairSpec
CONSTANTS
  None = None
  Worker = {w1, w2}
  Setup <- Setups
  Found = {"none"}
  Request <- Requests
  MaxRequests = 2
  MaxEvents = 3
INVARIANTS TypeOK MessageOwn BlameKept
PROPERTIES  Drained EndsWhenTold ClashNoticed
CHECK_DEADLOCK FALSE
