SPECIFICATION FairSpec
CONSTANTS
  o1 = o1
  c1 = c1
  Demandes = {1}
  Clients = {}
  Offers = {o1}
  Tasks = {1, 2}
  Flushers = {1, 2}
  FlushLimit = 2
  MaxWrites = 2
  MaxFaults = 1
INVARIANT NoForgottenChange
PROPERTY Settles
CHECK_DEADLOCK FALSE
