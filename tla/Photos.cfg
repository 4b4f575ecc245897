SPECIFICATION MCFairSpec
CONSTANTS
  o1 = o1
  p1 = p1
  f1 = f1
  f2 = f2
  c1 = c1
  c2 = c2
  None = None
  Objects <- MCObject
  Artifacts = {}
  Requests <- MCRequest
  Offers <- MCOffers
  Clerks <- MCClerks
  Sizes = {1}
  Quota = 1
  MaxRequests = 1
  MaxCrashes = 1
  MaxPhotos = 3
  MaxTx = 3
INVARIANT PhotosBacked
INVARIANT PhotosReleased
INVARIANT CascadesReach
PROPERTY TransactionsEnd
CHECK_DEADLOCK FALSE
