SPECIFICATION Spec
CONSTANTS
  r1 = r1
  r2 = r2
  r3 = r3
  r4 = r4
  k1 = k1
  f1 = f1
  f2 = f2
  NoReq = NoReq
  Requests <- MCRequests
  Keys <- MCKeys
  Fingerprints <- MCFingerprints
  KeyOf <- MCKeyOf
  FpOf <- MCFpOf
  SlowHandlers = FALSE
  PurgeRaces = FALSE
  PurgeLimit = 2
SYMMETRY Symmetric
INVARIANT OneHandlerPerScope
INVARIANT OneSuccessPerRecord
PROPERTY KeepsPromise
CHECK_DEADLOCK FALSE
