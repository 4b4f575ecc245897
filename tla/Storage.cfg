SPECIFICATION FairSpec
CONSTANTS
  o1 = o1
  a1 = a1
  p1 = p1
  p2 = p2
  None = None
  Objects <- MCObjects
  Artifacts <- MCArtifacts
  Requests <- MCRequests
  Sizes = {1, 2}
  Quota = 2
  MaxRequests = 3
  MaxCrashes = 1
INVARIANT TypeOK
INVARIANT QuotaHolds
INVARIANT UsageExact
PROPERTY ReservationsEnd
CHECK_DEADLOCK FALSE
