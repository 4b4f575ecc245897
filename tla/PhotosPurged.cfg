SPECIFICATION MCSpec
CONSTANTS
  o1 = o1
  p1 = p1
  f1 = f1
  f2 = f2
  c1 = c1
  c2 = c2
  None = None
  Objects <- MCObject
  Artifacts = {}
  Requests <- MCRequest
  Offers <- MCOffers
  Clerks <- MCClerks
  Sizes = {1}
  Quota = 1
  MaxRequests = 0
  MaxCrashes = 0
  MaxPhotos = 3
  MaxTx = 4
INVARIANT PurgedIsFinal
CHECK_DEADLOCK FALSE
