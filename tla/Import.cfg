SPECIFICATION FairSpec
CONSTANTS
  s1 = s1
  s2 = s2
  r1 = r1
  r2 = r2
  c1 = c1
  w1 = w1
  w2 = w2
  Finalize = Finalize
  Prepare = Prepare
  Singles <- MCSingles
  Roots <- MCRoots
  Children <- MCChildren
  Workers <- MCWorkers
  MaxRetries = 1
  MaxFaults = 1
  MaxCancels = 1
INVARIANT FinalizedWhole
INVARIANT LoadedOnce
INVARIANT RootsReady
PROPERTY ImportsEnd
CHECK_DEADLOCK FALSE
