SPECIFICATION FairSpec
CONSTANTS
  client1 = client1
  demande1 = demande1
  NoParent = NoParent
  Temps <- MCTemps
  Parent <- MCParent
  Reals <- NoReals
  Outcomes <- AnyOutcome
  BatchLimit = 1
  MaxOps = 3
  MaxDisturbances = 1
INVARIANT NoLostWrite
INVARIANT ParentsFirst
INVARIANT LogAgrees
INVARIANT NoOrphans
INVARIANT ReviewListed
INVARIANT CreateOnce
PROPERTY Settles
PROPERTY KeepsPromise
