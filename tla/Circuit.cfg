SPECIFICATION FairSpec
CONSTANTS
  timer = timer
  ui1 = ui1
  ui2 = ui2
  Threads <- MCThreads
  Timer = timer
  Threshold = 3
  Attempts = 3
  Outcomes <- Anything
INVARIANT BreakerConsistent
PROPERTY RecoversUnlessOrphaned
