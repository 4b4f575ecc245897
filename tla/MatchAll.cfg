SPECIFICATION FairSpec
CONSTANTS
  c1 = c1
  c2 = c2
  t1 = t1
  t2 = t2
  t3 = t3
  None = None
  Streams = {"clients"}
  Callers <- MCCaller
  Runs <- MCRuns
  Rows = 3
  BatchSize = 1
  MaxRowsPerRun = 2
  MaxInFlight = 1
  MaxFaults = 1
INVARIANT CheckpointCovers
PROPERTY ScansComplete
PROPERTY ScansFinish
